------------------------------- MODULE Doctor -------------------------------
(***************************************************************************)
(* `heyl doctor`: every link of the key chain by comparison with the key   *)
(* that the backend publishes, every vault by opening it; a check that     *)
(* fails does not stop the walk (heyl-app/src/doctor.rs).                  *)
(***************************************************************************)
EXTENDS Account

VARIABLE
    report       \* the checks made so far, and how each came out

Unsupported == {"OrganizationAdmin", "OrganizationLoginSummary"}

\* Nothing published is nothing to compare with.
Compare(key, published) ==
    IF published = {} THEN "Skip"
    ELSE IF Public(key) \in published THEN "Pass" ELSE "Fail"

\* The checks are named; the keys of the authenticator that granted the unlock.
AuthenticatorChecks == {<<"session">>, <<"login signing">>} \cup {<<"identity", t>> : t \in Tiers}

CheckAuthenticatorKey(s, name) ==
    CASE name[1] = "session" -> "Pass"
      [] name[1] = "login signing" ->
            Compare(LoginKey(s.seed), Published(s.snapshot, name, TheirLoginKey))
      [] name[1] = "identity" ->
            Compare(s.keys.identity, Published(s.snapshot, name, TheirIdentityKey))

\* Links 3 to 8 of a profile whose two seeds are open.
LinkKey(n, seed) ==
    CASE n = 3 -> VaultKeyKey(seed["storable"], "storable")
      [] n = 4 -> VaultKeyKey(seed["high"], "high")
      [] n = 5 -> IdentityKey(seed["storable"], "storable")
      [] n = 6 -> IdentityKey(seed["high"], "high")
      [] n = 7 -> ProfileKeyKey(seed["storable"], "storable")
      [] n = 8 -> ProfileKeyKey(seed["high"], "high")

Seeds(s, p) ==
    LET lock == The(LockFor(s.snapshot.locks[p], s.keys.id))
    IN  [t \in Tiers |-> UnlockProfile(s.keys, lock, s.snapshot.generation[p], t)]

HasLock(s, p) == LockFor(s.snapshot.locks[p], s.keys.id) # {}
Unlockable(s) == {p \in Profiles : HasLock(s, p) /\ \A t \in Tiers : Seeds(s, p)[t].ok}

ProfileChecks(s) == {<<"seeds", p>> : p \in Profiles} \cup LinkNames(Unlockable(s))

CheckProfile(s, name) ==
    LET p == name[2]
        opened == [t \in Tiers |-> Seeds(s, p)[t].value]
    IN  CASE name[1] = "seeds" -> IF ~HasLock(s, p) THEN "Skip"
                                  ELSE IF p \in Unlockable(s) THEN "Pass" ELSE "Fail"
          [] name[1] = "link" ->
                Compare(LinkKey(name[3], opened),
                        Published(s.snapshot, name,
                                  TheirKey(name[3], p, s.snapshot.generation[p])))

KeyReport(s) == [name \in AuthenticatorChecks \cup ProfileChecks(s) |->
    IF name \in AuthenticatorChecks THEN CheckAuthenticatorKey(s, name)
    ELSE CheckProfile(s, name)]

\* A vault opens when both tiers do and its newest commit is a document.
VaultOpens(s, v) ==
    LET locks == account.sealed[v]
        secrets == Unwrap(s, The(locks))
    IN  IF locks = {} \/ The(locks).profile \notin Unlockable(s)
        THEN Err("VaultContent")
        ELSE IF ~secrets.ok \/ Log[v] = <<>> THEN secrets
        ELSE Document(account, v, Len(Log[v]), secrets.value)

-----------------------------------------------------------------------------
DoctorInit == report = <<>>

DoctorUnlock ==
    /\ pc = "doctor"
    /\ OpenSession("doctor keys")
    /\ UNCHANGED <<account, todo, why, report>>

\* Everything that needs no call.  Without a profile there is no report at all.
CheckKeys ==
    /\ pc = "doctor keys"
    /\ IF Unlockable(session) = {}
       THEN Ends(Err("NoUnlockableProfile")) /\ UNCHANGED <<report, todo>>
       ELSE /\ pc' = "doctor vaults" /\ UNCHANGED outcome
            /\ report' = KeyReport(session)
            /\ todo' = VaultList
    /\ UNCHANGED <<account, session, why>>

\* The report, and how the check of vault v came out.
Noted(v, how) == [name \in DOMAIN report \cup {<<"vault", v>>} |->
    IF name = <<"vault", v>> THEN how ELSE report[name]]

\* Mutated: the walk ends with the first vault that does not open.
MutCheckVault ==
    /\ pc = "doctor vaults" /\ todo # <<>>
    /\ LET v == Head(todo)
           opened == IF Kind[v] \in Unsupported THEN Err("skip") ELSE VaultOpens(session, v)
       IN /\ why' = [why EXCEPT ![v] = IF opened.ok THEN "ok" ELSE opened.error]
          /\ report' = Noted(v, IF opened.ok THEN "Pass"
                                 ELSE IF opened = Err("skip") THEN "Skip" ELSE "Fail")
          /\ todo' = IF opened.ok \/ opened = Err("skip") THEN Tail(todo) ELSE <<>>
    /\ UNCHANGED <<account, session, pc, outcome>>

CheckVault ==
    /\ pc = "doctor vaults" /\ todo # <<>>
    /\ LET v == Head(todo)
           check(how) == report' = Noted(v, how)
       IN \/ /\ Kind[v] \in Unsupported
             /\ check("Skip") /\ UNCHANGED why
          \/ /\ Kind[v] \notin Unsupported
             /\ \E opened \in Answers(VaultOpens(session, v)) :
                  /\ why' = [why EXCEPT ![v] = IF opened.ok THEN "ok" ELSE opened.error]
                  /\ check(IF opened.ok THEN "Pass" ELSE "Fail")
    /\ todo' = Tail(todo)
    /\ UNCHANGED <<account, session, pc, outcome>>

\* A report with a failure in it is a failure of the command.
Reported ==
    /\ pc = "doctor vaults" /\ todo = <<>>
    /\ Ends(IF \E l \in DOMAIN report : report[l] = "Fail"
            THEN Err("report has failures") ELSE Ok(<<"report">>))
    /\ UNCHANGED <<account, session, todo, why, report>>

DoctorNext == DoctorUnlock \/ CheckKeys \/ CheckVault \/ Reported
=============================================================================
