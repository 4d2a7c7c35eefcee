------------------------------ MODULE Pairing ------------------------------
(***************************************************************************)
(* `heyl session create`, as far as keys and their owners go: a phone      *)
(* scans the code and sends the seed over the long-poll channel, the seed  *)
(* opens a session, the session's key is stored and then published with a  *)
(* signature that lets the phone unlock it later                           *)
(* (heyl-app/src/session/lifecycle.rs, mod.rs).  The slot's other fortunes *)
(* are SlotLifecycle's, the vault's are MetaVault's.                       *)
(***************************************************************************)
EXTENDS KeyChain

CONSTANTS
    Phones,      \* authenticators whose phone may scan the code
    New,         \* those that the scan itself enrols
    Unsalted     \* those that the account lists without a salt

ASSUME PairingAssumption == New \subseteq Phones /\ Unsalted \subseteq Phones

VARIABLES
    pstage,      \* the next step of the command
    asked,       \* --unlock
    reply,       \* what came over the channel
    pseed,       \* the seed that was in it
    minted,      \* backend: the new session
    items,       \* keychain: the items of the slot
    entry,       \* META vault: what the session says of itself
    made         \* what the command ends with

pairingVars == <<pstage, asked, reply, pseed, minted, items, entry, made>>

Missing == [there |-> FALSE]
There(x) == [there |-> TRUE, it |-> x]

\* Two draws, two contexts: the channel's key and the session's.
PairingKey == EncryptionKey(<<"first draw">>, NoSalt, <<"long poll login encryption">>)
PairedKey  == SessionKey(<<"second draw">>)

\* heylogin's side: an authenticator's seed and salt, the keys published for it.
PhoneSeed(a) == <<"phone seed", a>>
PhoneSalt(a) == <<"phone salt", a>>
PhoneLogin(a) == Public(Derive("signing", <<"authenticator login">>, PhoneSeed(a), NoSalt))
PhoneIdentity(a) ==
    Public(Derive("signing", <<"authenticator signing">>, PhoneSeed(a), PhoneSalt(a)))
Salts == [a \in Phones |-> IF a \in Unsalted THEN NoSalt ELSE PhoneSalt(a)]

LongPollChallenge == <<"long poll challenge">>
SessionSignature == "session encryption signature"

PairingInit ==
    /\ pstage = "channel" /\ asked \in BOOLEAN
    /\ reply = Missing /\ pseed = <<>> /\ minted = Missing
    /\ items = {} /\ entry = Missing /\ made = Err("running")

Onward(from, to) == pstage = from /\ pstage' = to /\ UNCHANGED made
Stop(from, e) == pstage = from /\ pstage' = "end" /\ made' = Err(e)
SlotAsItWas == UNCHANGED <<items, entry>>

\* Somebody scans the code: the box is the phone's for the key in the code, or
\* it is of another key, or what is in it is no seed or another account's.
Scan(a) ==
    /\ pstage = "channel" /\ ~reply.there
    /\ \E box \in {Garbled} \cup {Seal(Public(PairingKey), plain) :
                                    plain \in {Garbage} \cup {PhoneSeed(b) : b \in Phones}} :
          reply' = There([authenticator |-> a, registration |-> a \in New, box |-> box])
    /\ UNCHANGED <<pstage, asked, pseed, minted, items, entry, made>>

\* The long poll returns, and the box is opened.
LongPoll ==
    LET opened == Adopt(Open(PairingKey, reply.it.box))
    IN  /\ \/ Stop("channel", "Api") /\ UNCHANGED pseed
           \/ /\ reply.there /\ ~opened.ok
              /\ Stop("channel", "UnlockUndecryptable") /\ UNCHANGED pseed
           \/ /\ reply.there /\ opened.ok
              /\ Onward("channel", "tokens") /\ pseed' = opened.value
        /\ UNCHANGED <<asked, reply, minted>> /\ SlotAsItWas

\* A window of its own: only if it was asked for, and not while enrolling.
SelfGrant ==
    IF asked /\ ~reply.it.registration THEN There(Seal(Public(PairedKey), pseed))
    ELSE Missing

\* CreateTokens: the signature proves the seed; the answer may be lost.
OpenNewSession ==
    LET response == Sign(LoginKey(pseed), NoContext, LongPollChallenge)
        accepted == Verify(PhoneLogin(reply.it.authenticator), NoContext,
                           LongPollChallenge, response)
    IN  /\ pstage = "tokens"
        /\ \/ /\ accepted /\ minted' = There(SelfGrant)
              /\ Onward("tokens", "key") \/ Stop("tokens", "Api")
           \/ /\ Stop("tokens", IF accepted THEN "Api" ELSE "SignatureRejected")
              /\ UNCHANGED minted
        /\ UNCHANGED <<asked, reply, pseed>> /\ SlotAsItWas

\* The three items of the slot, a write each.
Keep(item, next) ==
    /\ \/ Onward(item, next) /\ items' = items \cup {item}
       \/ Stop(item, "Port") /\ UNCHANGED items
    /\ UNCHANGED <<asked, reply, pseed, minted, entry>>

\* Mutated: the key of the channel is published for the session's.
MutMetadata(keys) ==
    [pub |-> Public(PairingKey), by |-> keys.id,
     signature |-> Sign(keys.identity, SessionSignature, Public(PairingKey))]

\* What is published: the session's public key, signed for it.
Metadata(keys) ==
    [pub |-> Public(PairedKey), by |-> keys.id,
     signature |-> Sign(keys.identity, SessionSignature, Public(PairedKey))]

\* Sync, the authenticators, the vault and its commit: any may fail.
Publish ==
    LET a == reply.it.authenticator
    IN  /\ pstage = "publish"
        /\ \/ /\ Salts[a] # NoSalt
              /\ entry' = There(Metadata(AuthenticatorKeys(a, pseed, Salts[a])))
              /\ Onward("publish", "conclude") \/ Stop("publish", "Api")
           \/ /\ Stop("publish", IF Salts[a] = NoSalt THEN "NoSecretSalt" ELSE "Api")
              /\ UNCHANGED entry
        /\ UNCHANGED <<asked, reply, pseed, minted, items>>

\* The policy and the index.
Conclude ==
    /\ \/ pstage = "conclude" /\ pstage' = "end" /\ made' = Ok("created")
       \/ \E e \in {"Api", "Port"} : Stop("conclude", e)
    /\ UNCHANGED <<asked, reply, pseed, minted>> /\ SlotAsItWas

PairingStep ==
    \/ LongPoll \/ OpenNewSession \/ Publish \/ Conclude
    \/ Keep("key", "sid") \/ Keep("sid", "token") \/ Keep("token", "publish")

Killed ==
    /\ pstage # "end" /\ pstage' = "end" /\ made' = Err("killed")
    /\ UNCHANGED <<asked, reply, pseed, minted>> /\ SlotAsItWas

PairingNext == PairingStep \/ Killed \/ \E a \in Phones : Scan(a)
PairingSpec == PairingInit /\ [][PairingNext]_pairingVars

-----------------------------------------------------------------------------
\* What the phone makes of a request: it looks at the signature of the entry,
\* and seals its seed to the key in it.
PhoneGrant(e) ==
    IF Verify(PhoneIdentity(e.by), SessionSignature, e.pub, e.signature)
    THEN [authenticator |-> e.by, secret |-> Seal(e.pub, PhoneSeed(e.by))]
    ELSE [authenticator |-> e.by, secret |-> Garbled]

\* No ghost notification: whatever fails or is killed where, a device that the
\* phone lists has its slot here, and if the phone unlocks it, the key of that
\* slot opens to that phone's seed; a pairing that reports success is listed;
\* and a window that it granted itself opens with the same key
\* (lifecycle.rs, register: "Without this entry the device is invisible").
PairedSlotUnlocks ==
    /\ made.ok => entry.there
    /\ entry.there =>
        LET a == entry.it.by
        IN  /\ items = {"key", "sid", "token"}
            /\ Unlock(PairedKey, PhoneGrant(entry.it), Salts) =
                 Ok([seed |-> PhoneSeed(a),
                     keys |-> AuthenticatorKeys(a, PhoneSeed(a), PhoneSalt(a))])
    /\ minted.there /\ minted.it.there =>
        Open(PairedKey, minted.it.it) = Ok(PhoneSeed(reply.it.authenticator))
=============================================================================
