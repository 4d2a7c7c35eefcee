------------------------------ MODULE GetLogin ------------------------------
(***************************************************************************)
(* `heyl get`: flags to selectors, selectors to the vaults in scope, each  *)
(* vault opened by a call of its own, every login that matches ranked and  *)
(* the first one's fields opened (heyl-app/src/get.rs, heyl-vault login.rs)*)
(***************************************************************************)
EXTENDS Account, Selection

CONSTANTS
    Flags,       \* the flag combinations of the command line
    FreeName,    \* vault -> the name it has without a call, or None
    Malformed    \* what is typed for an id, and is none

Plain == {"id", "name", "title"}   \* built-ins that are in the clear

\* The elements of a document: a stamp that is missing is 0.
IsLogin(x) ==
    /\ {x.time, x.change, x.edit} \subseteq Nat
    /\ {x.deleted, x.archived} \subseteq BOOLEAN
    /\ DOMAIN x.custom \subseteq Nat

IsDocument(f) ==
    /\ f \in [DOMAIN f -> {f[d] : d \in DOMAIN f}]
    /\ IsFiniteSet(DOMAIN f) /\ DOMAIN f \subseteq Nat
    /\ \A d \in DOMAIN f : IsLogin(f[d])

ASSUME LogAssumption == \A v \in Vaults :
    /\ Log[v] \in Seq({Log[v][i] : i \in DOMAIN Log[v]})
    /\ \A i \in DOMAIN Log[v] : IsDocument(Log[v][i])

VARIABLES
    query,       \* the selectors
    found        \* the logins that match, in the vaults opened so far

getVars == <<query, found>>

LoginKinds == {"Private", "OrganizationPersonal", "Team", "Inbox"}
HoldsLogins(v) == Kind[v] \in LoginKinds

\* Ranks of kinds, the second ranking key.
Tier(v) == CASE Kind[v] = "Private" -> 0 [] Kind[v] = "OrganizationPersonal" -> 1
             [] Kind[v] = "Team" -> 2 [] Kind[v] = "Inbox" -> 3

\* The login vaults by tier, in snapshot order within one.
LoginVaults ==
    LET of(n) == Pick(VaultList, {v \in Vaults : HoldsLogins(v) /\ Tier(v) = n})
    IN  of(0) \o of(1) \o of(2) \o of(3)
Position(v) == CHOOSE i \in DOMAIN LoginVaults : LoginVaults[i] = v

\* One pair of flags: a name, an id, neither, but not both.
Selector(name, id) ==
    IF name # None /\ id # None THEN Err("ConflictingSelectors")
    ELSE IF id = Malformed THEN Err("MalformedSelector")
    ELSE Ok([by |-> IF name # None THEN "name" ELSE IF id # None THEN "id" ELSE "any",
             is |-> IF name # None THEN name ELSE id])

FromFlags(f) ==
    LET vault == Selector(f.vaultName, f.vaultId)
        login == Selector(f.loginName, f.loginId)
        field == Selector(f.fieldName, f.fieldId)
    IN  IF ~vault.ok THEN vault
        ELSE IF ~login.ok THEN login
        ELSE IF login.value.by = "any" THEN Err("MissingLoginSelector")
        ELSE IF ~field.ok THEN field
        ELSE Ok([vault |-> vault.value, login |-> login.value, field |-> field.value])

\* A login is an element of the folded document, under its id.
Matches(id, login, selector) ==
    IF selector.by = "id" THEN id = selector.is ELSE selector.is \in login.names

Liveness(login) ==
    CASE ~login.deleted -> 0 [] login.deleted /\ login.archived -> 1 [] OTHER -> 2

\* changeTime, or editTime, or nothing, which is the oldest.
Recency(login) == IF login.change # 0 THEN login.change ELSE login.edit

\* The keys of the read ranking, the smallest first; what they leave equal stays
\* in the order it was met.
Keys(c) == <<Liveness(c.login), c.tier, 0 - Recency(c.login), c.id, Position(c.vault)>>

\* Mutated: the vault's tier before the login's liveness.
MutAhead(a, b) ==
    \/ a.tier < b.tier
    \/ a.tier = b.tier /\ Liveness(a.login) < Liveness(b.login)

Ahead(a, b) ==
    \E n \in 1..5 : /\ Keys(a)[n] < Keys(b)[n]
                    /\ \A m \in 1..(n - 1) : Keys(a)[m] = Keys(b)[m]

Rank(candidates) ==
    CHOOSE c \in candidates : \A d \in candidates \ {c} : ~Ahead(d, c)

\* Every commit has to decrypt and decode; no commits are an empty document.
Read(v, secrets) ==
    LET bad == {i \in DOMAIN Log[v] : ~Document(account, v, i, secrets).ok}
        first == CHOOSE i \in bad : \A j \in bad : i <= j
    IN  IF bad # {} THEN Document(account, v, first, secrets)
        ELSE Ok([document |-> Contents[v], key |-> SymKey(secrets["high"])])

OpenVault(v) ==
    LET locks == account.sealed[v]
        secrets == Unwrap(session, The(locks))
    IN  IF locks = {} THEN Err("VaultContent")
        ELSE IF ~secrets.ok THEN secrets ELSE Read(v, secrets.value)

Candidates(v, opened) ==
    {[vault |-> v, tier |-> Tier(v), id |-> d, login |-> opened.document[d],
      key |-> opened.key] :
        d \in {e \in DOMAIN opened.document :
                 Matches(e, opened.document[e], query.login)}}

\* A field that is protected opens with the key of the vault it came from.
Value(field, key) ==
    IF field.empty THEN Ok(Garbage)
    ELSE IF ~field.protected THEN Ok(field.value)
    ELSE Decrypt(key, field.value)

\* The first custom field that P picks.
FirstOf(c, P(_)) ==
    LET fields == c.login.custom
        picked == {i \in DOMAIN fields : P(fields[i])}
    IN  IF picked = {} THEN Err("NoSuchField")
        ELSE Value(fields[CHOOSE i \in picked : \A j \in picked : i <= j], c.key)

\* What is printed: the whole login, or a built-in before a custom field of the
\* same name, or a custom field by its id.
Selected(c) ==
    LET is == query.field.is
        password == Value(c.login.password, c.key)
        closed == FirstOf(c, LAMBDA f : ~Value(f, c.key).ok)
    IN  CASE query.field.by = "any" ->
                IF ~password.ok THEN password
                ELSE IF closed # Err("NoSuchField") THEN closed
                ELSE Ok(<<"login", c.vault, c.id>>)
          [] query.field.by = "name" /\ is = "password" -> password
          [] query.field.by = "name" /\ is \in Plain -> Ok(<<is, c.vault, c.id>>)
          [] query.field.by = "name" /\ is \notin Plain \cup {"password"} ->
                FirstOf(c, LAMBDA f : f.name = is)
          [] query.field.by = "id" -> FirstOf(c, LAMBDA f : f.id = is)

-----------------------------------------------------------------------------
NoQuery == [vault |-> [by |-> "any", is |-> None], login |-> [by |-> "any", is |-> None],
            field |-> [by |-> "any", is |-> None]]

GetInit == query = NoQuery /\ found = {}

\* Flags are refused before anything is asked.
ParseFlags ==
    /\ pc = "get"
    /\ \E f \in Flags :
          LET parsed == FromFlags(f)
          IN \/ parsed.ok /\ query' = parsed.value /\ pc' = "get unlock" /\ UNCHANGED outcome
             \/ ~parsed.ok /\ Ends(parsed) /\ UNCHANGED query
    /\ UNCHANGED <<account, session, todo, why, found>>

GetUnlock ==
    /\ pc = "get unlock"
    /\ OpenSession("get scope")
    /\ UNCHANGED <<account, todo, why, query, found>>

ScopeTo(vaults, next) == todo' = vaults /\ pc' = next /\ UNCHANGED outcome
Those(S) == Pick(LoginVaults, S)

\* Which vaults to open.  A name that no vault has for free is looked for among
\* the teams, a call each.
ResolveScope ==
    LET is == query.vault.is
        named == Those({v \in Vaults : HoldsLogins(v) /\ FreeName[v] = is})
        ided  == Those({is})
    IN  /\ pc = "get scope"
        /\ \/ query.vault.by = "any" /\ ScopeTo(LoginVaults, "get open")
           \/ query.vault.by = "id" /\ ided # <<>> /\ ScopeTo(ided, "get open")
           \/ query.vault.by = "id" /\ ided = <<>> /\ Ends(Err("NoSuchVault"))
              /\ UNCHANGED todo
           \/ query.vault.by = "name" /\ named # <<>>
              /\ ScopeTo(<<Head(named)>>, "get open")
           \/ query.vault.by = "name" /\ named = <<>>
              /\ ScopeTo(Those({v \in Vaults : Kind[v] = "Team"}), "get team")
        /\ UNCHANGED <<account, session, why, query, found>>

\* A team's name is in the vault it is paired with: of the first entry that is
\* not deleted.  A vault that does not open names no team.
TeamName(opened) ==
    LET there == {d \in DOMAIN opened.value.document :
                     ~opened.value.document[d].deleted}
    IN  IF ~opened.ok \/ there = {} THEN {}
        ELSE opened.value.document[CHOOSE d \in there : \A e \in there : d <= e].names

NameTeam ==
    /\ pc = "get team" /\ todo # <<>>
    /\ LET meta == Pair[Head(todo)]
       IN \E opened \in IF meta \in Vaults THEN Answers(OpenVault(meta)) ELSE {Err("none")} :
            IF query.vault.is \in TeamName(opened)
            THEN ScopeTo(<<Head(todo)>>, "get open")
            ELSE ScopeTo(Tail(todo), "get team")
    /\ UNCHANGED <<account, session, why, query, found>>

NoTeam ==
    /\ pc = "get team" /\ todo = <<>>
    /\ Ends(Err("NoSuchVault"))
    /\ UNCHANGED <<account, session, todo, why, query, found>>

\* Mutated: a vault that does not open is skipped although it was named.
MutOpenNext ==
    /\ pc = "get open" /\ todo # <<>>
    /\ LET v == Head(todo)
           opened == OpenVault(v)
       IN /\ why' = [why EXCEPT ![v] = IF opened.ok THEN "ok" ELSE opened.error]
          /\ found' = found \cup (IF opened.ok THEN Candidates(v, opened.value) ELSE {})
    /\ todo' = Tail(todo)
    /\ UNCHANGED <<account, session, query, pc, outcome>>

\* One vault of the scope: a failure is skipped over, unless it was named.
OpenNext ==
    /\ pc = "get open" /\ todo # <<>>
    /\ LET v == Head(todo)
       IN \E opened \in Answers(OpenVault(v)) :
            /\ why' = [why EXCEPT ![v] = IF opened.ok THEN "ok" ELSE opened.error]
            /\ found' = found \cup (IF opened.ok THEN Candidates(v, opened.value) ELSE {})
            /\ IF opened.ok \/ query.vault.by = "any"
               THEN UNCHANGED <<pc, outcome>>
               ELSE Ends(opened)
    /\ todo' = Tail(todo)
    /\ UNCHANGED <<account, session, query>>

\* The winner, and what was asked of it.
Choose ==
    /\ pc = "get open" /\ todo = <<>>
    /\ Ends(IF found = {} THEN Err("NoSuchLogin") ELSE Selected(Rank(found)))
    /\ UNCHANGED <<account, session, todo, why, query, found>>

GetNext ==
    ParseFlags \/ GetUnlock \/ ResolveScope \/ NameTeam \/ NoTeam \/ OpenNext \/ Choose
=============================================================================
