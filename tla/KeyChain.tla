------------------------------ MODULE KeyChain ------------------------------
(***************************************************************************)
(* From the authenticator's seed to the secrets of a vault: each key is    *)
(* derived from a seed and a context, each seed is unwrapped from a lock   *)
(* that was sealed to a key (heyl-crypto, heyl-domain/src/keys.rs).        *)
(* Cryptography is symbolic: a key is the tuple of what it was derived     *)
(* from, and a box opens with the key it was sealed to and no other.       *)
(***************************************************************************)
Ok(x)  == [ok |-> TRUE,  value |-> x]
Err(e) == [ok |-> FALSE, error |-> e]

NoSalt  == <<>>
Garbage == <<>>      \* bytes that are no 32-byte secret
Garbled == [to |-> <<>>, plain |-> Garbage]

\* The KDF binds the kind of key, its use, the seed and the secondary seed.
Derive(kind, use, seed, salt) == <<kind, use, seed, salt>>
SigningKey(seed, salt, use)    == Derive("signing", use, seed, salt)
EncryptionKey(seed, salt, use) == Derive("encryption", use, seed, salt)
SymKey(secret)                 == <<"symmetric", secret>>
Public(key)                    == <<"public", key>>

Seal(public, plain) == [to |-> public, plain |-> plain]
Open(key, box) == IF box.to = Public(key) THEN Ok(box.plain) ELSE Err("Crypto")
Encrypt(key, plain) == [to |-> key, plain |-> plain]
Decrypt(key, box) == IF box.to = key THEN Ok(box.plain) ELSE Err("Crypto")
Adopt(opened) ==
    IF opened.ok /\ opened.value = Garbage THEN Err("Crypto") ELSE opened

\* A signature is over the context and the data; the login's has no context.
NoContext == ""
Sign(key, context, data) == [by |-> Public(key), over |-> <<context, data>>]
Verify(public, context, data, signature) ==
    signature = [by |-> public, over |-> <<context, data>>]

Tiers == {"storable", "high"}

\* The tier picks the context.
Uses == [t \in Tiers |-> [signing    |-> <<"profile signing", t>>,
                          vaultKey   |-> <<"profile vault key", t>>,
                          profileKey |-> <<"profile profile key", t>>]]

\* The one authenticator key derived without the salt.
LoginKey(seed) == SigningKey(seed, NoSalt, <<"authenticator login">>)

\* One key of each kind serves both tiers at this layer.
AuthenticatorKeys(id, seed, salt) ==
    [id |-> id,
     identity    |-> SigningKey(seed, salt, <<"authenticator signing">>),
     profileSeed |-> EncryptionKey(seed, salt, <<"authenticator encryption">>)]

SessionKey(seed) == EncryptionKey(seed, NoSalt, <<"session encryption">>)

IdentityKey(seed, t)   == SigningKey(seed, NoSalt, Uses[t].signing)
VaultKeyKey(seed, t)   == EncryptionKey(seed, NoSalt, Uses[t].vaultKey)
ProfileKeyKey(seed, t) == EncryptionKey(seed, NoSalt, Uses[t].profileKey)

\* Mutated: the lock is opened without a look at its generation.
MutUnlockVault(seed, lock, generation, t) ==
    Adopt(Open(VaultKeyKey(seed, t), lock.secret[t]))

\* A profile's seed at tier t, from the lock addressed to us.
UnlockProfile(keys, lock, generation, t) ==
    IF lock.authenticator # keys.id THEN Err("NoLockForAuthenticator")
    ELSE IF lock.generation # generation THEN Err("KeyGenerationMismatch")
    ELSE Adopt(Open(keys.profileSeed, lock.seed[t]))

\* A vault's secret at tier t, from the lock of one of its profiles.
UnlockVault(seed, lock, generation, t) ==
    IF lock.generation # generation THEN Err("KeyGenerationMismatch")
    ELSE Adopt(Open(VaultKeyKey(seed, t), lock.secret[t]))

\* What a session makes of a grant: run_in once the snapshot is in.  `listed`
\* gives the salt of each authenticator the account lists.
Unlock(sessionKey, grant, listed) ==
    LET opened == Adopt(Open(sessionKey, grant.secret))
        id == grant.authenticator
    IN  IF ~opened.ok THEN Err("UnlockUndecryptable")
        ELSE IF id \notin DOMAIN listed THEN Err("UnknownGrantingAuthenticator")
        ELSE IF listed[id] = NoSalt THEN Err("NoSecretSalt")
        ELSE Ok([seed |-> opened.value,
                 keys |-> AuthenticatorKeys(id, opened.value, listed[id])])
=============================================================================
