-------------------------- MODULE SlotLifecycleProofs --------------------------
(***************************************************************************)
(* Proofs about SlotLifecycle, for any slots, invocations and sessions.    *)
(* WholeTriple needs three things of its surroundings: one invocation per  *)
(* slot at a time, reads that answer, and no token rotation but that of    *)
(* the default slot (a rotated token is stored there whatever the slot).   *)
(* So do the reports of create and remove, and what a reading command      *)
(* leaves behind.  Crashes and failing calls are allowed everywhere.       *)
(***************************************************************************)
EXTENDS SlotLifecycle, TLAPS

Disciplined ==
    /\ Exclusive
    /\ ~FlakyReads
    /\ Rotating \subseteq {DefaultSlot}

-----------------------------------------------------------------------------
(* The inductive invariant: who works on a slot, and what each stage knows  *)
(* of the slot it works on.                                                 *)

OnePerSlot == \A p, q \in Invocations :
    (p # q /\ pc[p] # "idle" /\ pc[q] # "idle") => SlotOf(p) # SlotOf(q)

\* The stages in which the slot must hold no token.
Unclaimed == {"pairing", "storeKey", "storeId", "storeToken",
              "forgetKey", "forgetId"}

SlotUnclaimed == \A p \in Invocations :
    pc[p] \in Unclaimed => token[SlotOf(p)] = Absent

\* What `create` holds is one session's, and reaches the keychain in order.
Minted == \A p \in Invocations :
    /\ pc[p] \in {"storeKey", "storeId", "storeToken"} =>
          /\ cred[p].token # Absent
          /\ cred[p].key = cred[p].token.session
          /\ cred[p].id = cred[p].token.session
    /\ pc[p] \in {"storeId", "storeToken"} => key[SlotOf(p)] = cred[p].key
    /\ pc[p] = "storeToken" => sid[SlotOf(p)] = cred[p].id

\* A run that may rotate the token holds one of its own slot's session.
Running == \A p \in Invocations :
    /\ pc[p] = "runKey" =>
          /\ cred[p].hand # Absent
          /\ token[SlotOf(p)] # Absent
          /\ cred[p].hand.session = token[SlotOf(p)].session
    /\ pc[p] \in {"sync", "refresh"} =>
          /\ cred[p].token # Absent
          /\ token[SlotOf(p)] # Absent
          /\ cred[p].token.session = token[SlotOf(p)].session
    /\ pc[p] = "refresh" => SlotOf(p) = DefaultSlot
    /\ pc[p] = "storeRefreshed" =>
          /\ SlotOf(p) = DefaultSlot
          /\ cred[p].hand # Absent
          /\ token[SlotOf(p)] # Absent
          /\ cred[p].hand.session = token[SlotOf(p)].session

-----------------------------------------------------------------------------
(* Type correctness, which needs no discipline: only that the stage before  *)
(* a rotation saw room for one more generation.                             *)

RefreshBound == \A p \in Invocations :
    pc[p] = "refresh" => /\ cred[p].token # Absent
                         /\ cred[p].token.gen < MaxRefresh

\* What create registers and sets a policy for is a session.
Identified == \A p \in Invocations :
    pc[p] \in {"storeKey", "storeId", "storeToken", "register", "policy"} =>
        cred[p].id \in Sessions

TypeInv == TypeOK /\ RefreshBound /\ Identified

\* The empty keychain and account have their types.
LEMMA TypeInit == Init => TypeInv
  BY SlotsAssumption, MaxRefreshAssumption
  DEF Init, TypeInv, TypeOK, RefreshBound, Identified, Stages, Item, Task,
      Cred, NoTask, NoCred

\* What the fields of an invocation's credentials are.
LEMMA CredFields ==
  ASSUME NEW c \in Cred
  PROVE  /\ c.token \in Token \cup {Absent}
         /\ c.hand \in Token \cup {Absent}
         /\ c.id \in Item
         /\ c.key \in Item
  BY DEF Cred

\* Each update the steps make to the credentials keeps their type.
LEMMA CredUpdate ==
  ASSUME NEW c \in Cred, NEW t \in Token \cup {Absent}, NEW n \in Item
  PROVE  /\ [c EXCEPT !.token = t] \in Cred
         /\ [c EXCEPT !.hand = t] \in Cred
         /\ [c EXCEPT !.id = n] \in Cred
         /\ [c EXCEPT !.key = n] \in Cred
         /\ [c EXCEPT !.key = n, !.token = t, !.hand = Absent] \in Cred
         /\ [c EXCEPT !.token = t, !.hand = Absent] \in Cred
         /\ [c EXCEPT !.hand = Absent] \in Cred
  BY DEF Cred

\* What the fields of a token that is there are.
LEMMA TokenFields ==
  ASSUME NEW t \in Token \cup {Absent}, t # Absent
  PROVE  t \in Token /\ t.session \in Sessions /\ t.gen \in 0..MaxRefresh
  BY DEF Token

\* Every step of every invocation, and of the environment, keeps the types.
LEMMA TypeStep == TypeInv /\ [Next]_vars => TypeInv'
<1> SUFFICES ASSUME TypeInv, [Next]_vars
             PROVE  TypeInv'
  OBVIOUS
<1> USE SlotsAssumption, MaxRefreshAssumption, AbsentAssumption
    DEF TypeInv, TypeOK, RefreshBound, Identified, Goto, keychain, backend, locals
<1>a. \A p \in Invocations :
         /\ cred[p] \in Cred
         /\ SlotOf(p) \in Slots
         /\ cred[p].token \in Token \cup {Absent}
         /\ cred[p].hand \in Token \cup {Absent}
         /\ cred[p].id \in Item
         /\ cred[p].key \in Item
  BY CredFields DEF SlotOf, Task
<1>1. ASSUME NEW p \in Invocations, NEW s \in Slots, BeginCreate(p, s)
      PROVE  TypeInv'
  BY <1>1 DEF BeginCreate, Begin, Stages, CreateStages, Task
<1>2. ASSUME NEW p \in Invocations, NEW s \in Slots, BeginRead(p, s)
      PROVE  TypeInv'
  BY <1>2 DEF BeginRead, Begin, Stages, UnlockStages, Task
<1>3. ASSUME NEW p \in Invocations, NEW s \in Slots, NEW force \in BOOLEAN,
             BeginRemove(p, s, force)
      PROVE  TypeInv'
  BY <1>3 DEF BeginRemove, Begin, Stages, AdoptStages, Task
<1>4. ASSUME NEW p \in Invocations, CreateTokens(p)
      PROVE  TypeInv'
  BY <1>4, <1>a DEF CreateTokens, Stages, CreateStages, Cred, Token, Item
<1>5. ASSUME NEW p \in Invocations, StoreKey(p)
      PROVE  TypeInv'
  BY <1>5, <1>a DEF StoreKey, Stages, CreateStages
<1>6. ASSUME NEW p \in Invocations, StoreId(p)
      PROVE  TypeInv'
  BY <1>6, <1>a DEF StoreId, Stages, CreateStages
<1>7. ASSUME NEW p \in Invocations, StoreToken(p)
      PROVE  TypeInv'
  BY <1>7, <1>a DEF StoreToken, Stages, CreateStages
<1>8. ASSUME NEW p \in Invocations, Register(p)
      PROVE  TypeInv'
  BY <1>8, <1>a DEF Register, Stages, CreateStages
<1>9. ASSUME NEW p \in Invocations, WritePolicy(p)
      PROVE  TypeInv'
  BY <1>9, <1>a DEF WritePolicy, Stages, CreateStages
<1>10. ASSUME NEW p \in Invocations, IndexRead(p)
      PROVE  TypeInv'
  BY <1>10, <1>a DEF IndexRead, Stages
<1>11. ASSUME NEW p \in Invocations, IndexWrite(p)
      PROVE  TypeInv'
  BY <1>11, <1>a DEF IndexWrite, Stages
<1>12. ASSUME NEW p \in Invocations, Open(p)
      PROVE  TypeInv'
  BY <1>12, <1>a DEF Open, Stages, UnlockStages
<1>13. ASSUME NEW p \in Invocations, Tombstone(p)
      PROVE  TypeInv'
  <2>1. PICK answered \in BOOLEAN :
            did' = [did EXCEPT ![p] =
                  IF answered THEN @ \cup {"tombstoned"} ELSE @]
    BY <1>13, ZenonT(30) DEF Tombstone
  <2>2. did' \in [Invocations -> SUBSET {"tombstoned", "deleted"}]
    BY <2>1
  <2>3. meta' = [meta EXCEPT ![cred[p].id] = "tombstoned"]
    BY <1>13, ZenonT(30) DEF Tombstone
  <2>4. meta' \in [Sessions -> {"none", "listed", "tombstoned"}]
    BY <2>3
  <2>5. QED
    BY <2>2, <2>4, <1>13, <1>a, SMTT(30) DEF Tombstone, Stages
<1>14. ASSUME NEW p \in Invocations, DeleteSession(p)
      PROVE  TypeInv'
  <2>1. PICK answered \in BOOLEAN :
            did' = [did EXCEPT ![p] =
                  IF answered THEN @ \cup {"deleted"} ELSE @]
    BY <1>14, ZenonT(30) DEF DeleteSession
  <2>2. did' \in [Invocations -> SUBSET {"tombstoned", "deleted"}]
    BY <2>1
  <2>3. life' = [life EXCEPT ![cred[p].id] = "deleted"]
    BY <1>14, ZenonT(30) DEF DeleteSession
  <2>4. life' \in [Sessions -> {"unborn", "live", "deleted"}]
    BY <2>3
  <2>5. QED
    BY <2>2, <2>4, <1>14, <1>a, SMTT(30) DEF DeleteSession, Stages, ForgetStages
<1>15. ASSUME NEW p \in Invocations, SkipAdopt(p)
      PROVE  TypeInv'
  BY <1>15, <1>a DEF SkipAdopt, Stages, ForgetStages, NoCred, Cred, Item
<1>16. ASSUME NEW p \in Invocations, SkipTombstone(p)
      PROVE  TypeInv'
  <2>1. [cred[p] EXCEPT !.hand = Absent] \in Cred
    BY <1>a, CredUpdate
  <2>2. cred' \in [Invocations -> Cred]
    BY <2>1, <1>16 DEF SkipTombstone
  <2>3. QED
    BY <2>2, <1>16, <1>a DEF SkipTombstone, Stages
<1>17. ASSUME NEW p \in Invocations, SkipDelete(p)
      PROVE  TypeInv'
  BY <1>17, <1>a DEF SkipDelete, Stages, ForgetStages
<1>18. ASSUME NEW p \in Invocations, ForgetToken(p)
      PROVE  TypeInv'
  BY <1>18, <1>a DEF ForgetToken, Stages, ForgetStages
<1>19. ASSUME NEW p \in Invocations, ForgetKey(p)
      PROVE  TypeInv'
  BY <1>19, <1>a DEF ForgetKey, Stages, ForgetStages, Item
<1>20. ASSUME NEW p \in Invocations, ForgetId(p)
      PROVE  TypeInv'
  BY <1>20, <1>a DEF ForgetId, Stages, ForgetStages, Item
<1>21. ASSUME NEW p \in Invocations, RunToken(p)
      PROVE  TypeInv'
  <2>1. [cred[p] EXCEPT !.hand = token[SlotOf(p)]] \in Cred
    BY <1>a, CredUpdate
  <2>2. cred' \in [Invocations -> Cred]
    BY <2>1, <1>21 DEF RunToken
  <2>3. QED
    BY <2>2, <1>21, <1>a DEF RunToken, Stages, UnlockStages
<1>22. ASSUME NEW p \in Invocations, AdoptToken(p)
      PROVE  TypeInv'
  <2>1. [cred[p] EXCEPT !.token = token[SlotOf(p)]] \in Cred
    BY <1>a, CredUpdate
  <2>2. cred' \in [Invocations -> Cred]
    BY <2>1, <1>22 DEF AdoptToken
  <2>3. QED
    BY <2>2, <1>22, <1>a DEF AdoptToken, Stages, AdoptStages
<1>23. ASSUME NEW p \in Invocations, AdoptId(p)
      PROVE  TypeInv'
  <2>1. [cred[p] EXCEPT !.id = sid[SlotOf(p)]] \in Cred
    BY <1>a, CredUpdate
  <2>2. cred' \in [Invocations -> Cred]
    BY <2>1, <1>23 DEF AdoptId
  <2>3. QED
    BY <2>2, <1>23, <1>a DEF AdoptId, Stages, AdoptStages
<1>24. ASSUME NEW p \in Invocations, AdoptKey(p)
      PROVE  TypeInv'
  <2>1. [cred[p] EXCEPT !.key = key[SlotOf(p)]] \in Cred
    BY <1>a, CredUpdate
  <2>2. cred' \in [Invocations -> Cred]
    BY <2>1, <1>24 DEF AdoptKey
  <2>3. QED
    BY <2>2, <1>24, <1>a DEF AdoptKey, Stages, AdoptStages, UnlockStages
<1>25. ASSUME NEW p \in Invocations, RunKey(p)
      PROVE  TypeInv'
  <2>1. [cred[p] EXCEPT !.key = key[SlotOf(p)], !.token = cred[p].hand,
                       !.hand = Absent] \in Cred
    BY <1>a, CredUpdate
  <2>2. cred' \in [Invocations -> Cred]
    BY <2>1, <1>25 DEF RunKey
  <2>3. QED
    BY <2>2, <1>25, <1>a DEF RunKey, Stages, UnlockStages
<1>26. ASSUME NEW p \in Invocations, StoreRefreshed(p)
      PROVE  TypeInv'
  <2>1. [cred[p] EXCEPT !.token = cred[p].hand, !.hand = Absent] \in Cred
    BY <1>a, CredUpdate
  <2>2. cred' \in [Invocations -> Cred]
    BY <2>1, <1>26 DEF StoreRefreshed
  <2>3. QED
    BY <2>2, <1>26, <1>a DEF StoreRefreshed, Stages, UnlockStages
<1>27. ASSUME NEW p \in Invocations, Sync(p)
      PROVE  TypeInv'
  <2>1. cred[p].token # Absent
        /\ gen[cred[p].token.session] = cred[p].token.gen
    BY <1>27 DEF Sync, Accepted
  <2>2. QED
    BY <2>1, <1>27, <1>a DEF Sync, Stages, UnlockStages
<1>28. ASSUME NEW p \in Invocations, RefreshToken(p)
      PROVE  TypeInv'
  <2> DEFINE n == cred[p].token.session
  <2>1. n \in Sessions /\ gen[n] + 1 \in 0..MaxRefresh
    BY <1>28, <1>a, TokenFields DEF RefreshToken, Accepted
  <2>2. [session |-> n, gen |-> gen[n] + 1] \in Token
    BY <2>1 DEF Token
  <2>3. [cred[p] EXCEPT !.hand = [session |-> n, gen |-> gen[n] + 1]] \in Cred
    BY <2>2, <1>a, CredUpdate
  <2>4. cred' \in [Invocations -> Cred]
    BY <2>3, <1>28 DEF RefreshToken
  <2>5. gen' \in [Sessions -> 0..MaxRefresh]
    BY <2>1, <1>28 DEF RefreshToken
  <2>6. QED
    BY <2>4, <2>5, <1>28, <1>a DEF RefreshToken, Stages, UnlockStages
<1>29. ASSUME NEW p \in Invocations, Finish(p) \/ Abort(p)
      PROVE  TypeInv'
  <2>1. NoTask \in Task /\ NoCred \in Cred
    BY DEF NoTask, NoCred, Task, Cred, Item
  <2>2. QED
    BY <2>1, <1>29 DEF Finish, Abort, Exit, Stages
<1>30. ASSUME NEW n \in Sessions, AppDeletes(n)
      PROVE  TypeInv'
  BY <1>30 DEF AppDeletes
<1>31. CASE UNCHANGED vars
  BY <1>31 DEF vars
<1> HIDE DEF TypeInv, Goto, keychain, backend, locals
<1>32. QED
  BY <1>1, <1>2, <1>3, <1>4, <1>5, <1>6, <1>7, <1>8, <1>9, <1>10, <1>11,
     <1>12, <1>13, <1>14, <1>15, <1>16, <1>17, <1>18, <1>19, <1>20, <1>21,
     <1>22, <1>23, <1>24, <1>25, <1>26, <1>27, <1>28, <1>29, <1>30, <1>31
  DEF Next, Create, Unlock, Remove

\* The model stays within its types, whatever the constants and however the
\* invocations of session/lifecycle.rs and unlock.rs interleave.
THEOREM TypeCorrect == Spec => []TypeOK
<1>1. TypeInv => TypeOK
  BY DEF TypeInv
<1>2. QED
  BY <1>1, TypeInit, TypeStep, PTL DEF Spec

-----------------------------------------------------------------------------
(* The discipline keeps every slot whole.                                   *)

SlotInv ==
    /\ OnePerSlot
    /\ SlotUnclaimed
    /\ Minted
    /\ Running
    /\ WholeTriple

\* No invocation runs and every slot is empty.
LEMMA SlotInit == Init => SlotInv
  BY DEF Init, SlotInv, OnePerSlot, SlotUnclaimed, Minted, Running, WholeTriple,
         Unclaimed

\* Every step keeps the inductive invariant, under the discipline.
LEMMA SlotStep ==
  Disciplined /\ TypeInv /\ SlotInv /\ [Next]_vars => SlotInv'
<1> SUFFICES ASSUME Disciplined, TypeInv, SlotInv, [Next]_vars
             PROVE  SlotInv'
  OBVIOUS
<1> USE SlotsAssumption, MaxRefreshAssumption, AbsentAssumption
    DEF TypeInv, TypeOK, Goto, keychain, backend, locals, SlotInv, SlotOf,
        OnePerSlot, SlotUnclaimed, Minted, Running, WholeTriple, Unclaimed
<1>a. \A p \in Invocations :
         /\ cred[p] \in Cred
         /\ SlotOf(p) \in Slots
         /\ cred[p].token \in Token \cup {Absent}
         /\ cred[p].hand \in Token \cup {Absent}
         /\ cred[p].id \in Item
         /\ cred[p].key \in Item
  BY CredFields DEF Task
<1>1. ASSUME NEW p \in Invocations, NEW s \in Slots, BeginCreate(p, s)
      PROVE  SlotInv'
  BY <1>1, <1>a DEF BeginCreate, Begin, Free, Disciplined, Exists
<1>2. ASSUME NEW p \in Invocations, NEW s \in Slots, BeginRead(p, s)
      PROVE  SlotInv'
  BY <1>2, <1>a DEF BeginRead, Begin, Free, Disciplined
<1>3. ASSUME NEW p \in Invocations, NEW s \in Slots, NEW force \in BOOLEAN,
             BeginRemove(p, s, force)
      PROVE  SlotInv'
  BY <1>3, <1>a DEF BeginRemove, Begin, Free, Disciplined
<1>4. ASSUME NEW p \in Invocations, CreateTokens(p)
      PROVE  SlotInv'
  <2>1. PICK n \in Sessions :
           cred' = [cred EXCEPT ![p] =
               [token |-> [session |-> n, gen |-> 0],
                hand |-> Absent, id |-> n, key |-> n]]
    BY <1>4 DEF CreateTokens
  <2>2. [session |-> n, gen |-> 0] # Absent
    BY DEF Token
  <2>3. QED
    BY <2>1, <2>2, <1>4, <1>a DEF CreateTokens
<1>5. ASSUME NEW p \in Invocations, StoreKey(p)
      PROVE  SlotInv'
  BY <1>5, <1>a DEF StoreKey
<1>6. ASSUME NEW p \in Invocations, StoreId(p)
      PROVE  SlotInv'
  BY <1>6, <1>a DEF StoreId
<1>7. ASSUME NEW p \in Invocations, StoreToken(p)
      PROVE  SlotInv'
  BY <1>7, <1>a, SMTT(60) DEF StoreToken
<1>8. ASSUME NEW p \in Invocations, Register(p)
      PROVE  SlotInv'
  BY <1>8, <1>a DEF Register
<1>9. ASSUME NEW p \in Invocations, WritePolicy(p)
      PROVE  SlotInv'
  BY <1>9, <1>a DEF WritePolicy
<1>10. ASSUME NEW p \in Invocations, IndexRead(p)
      PROVE  SlotInv'
  BY <1>10, <1>a DEF IndexRead
<1>11. ASSUME NEW p \in Invocations, IndexWrite(p)
      PROVE  SlotInv'
  BY <1>11, <1>a DEF IndexWrite
<1>12. ASSUME NEW p \in Invocations, RunToken(p)
      PROVE  SlotInv'
  BY <1>12, <1>a DEF RunToken
<1>13. ASSUME NEW p \in Invocations, RunKey(p)
      PROVE  SlotInv'
  <2>1. OnePerSlot' /\ SlotUnclaimed'
    BY <1>13, <1>a, SMTT(60) DEF RunKey
  <2>2. Minted' /\ WholeTriple'
    BY <1>13, <1>a, SMTT(60) DEF RunKey
  <2>3. Running'
    BY <1>13, <1>a, SMTT(60) DEF RunKey
  <2>4. QED
    BY <2>1, <2>2, <2>3
<1>14. ASSUME NEW p \in Invocations, Sync(p)
      PROVE  SlotInv'
  <2>1. CASE Goto(p, "sync", "open")
    BY <2>1, <1>14, <1>a DEF Sync
  <2>2. CASE Goto(p, "sync", "refresh")
    <3>1. \/ Goto(p, "sync", "open")
          \/ SlotOf(p) \in Rotating
      BY <1>14 DEF Sync
    <3>2. SlotOf(p) = DefaultSlot
      BY <3>1, <2>2 DEF Disciplined
    <3>3. QED
      BY <3>2, <2>2, <1>14, <1>a DEF Sync
  <2>3. QED
    BY <2>1, <2>2, <1>14 DEF Sync
<1>15. ASSUME NEW p \in Invocations, RefreshToken(p)
      PROVE  SlotInv'
  <2> DEFINE t == [session |-> cred[p].token.session,
                   gen |-> gen[cred[p].token.session] + 1]
  <2>1. cred' = [cred EXCEPT ![p].hand = t]
    BY <1>15 DEF RefreshToken
  <2>2. t.session = cred[p].token.session /\ t # Absent
    <3>1. t \in Token
      <4>1. cred[p].token.session \in Sessions /\ cred[p].token # Absent
        BY <1>15, <1>a, TokenFields DEF RefreshToken
      <4>2. gen[cred[p].token.session] + 1 \in 0..MaxRefresh
        BY <4>1, <1>15, <1>a, TokenFields
        DEF RefreshToken, Accepted, RefreshBound
      <4>3. QED
        BY <4>1, <4>2 DEF Token
    <3>2. QED
      BY <3>1
  <2> HIDE DEF t
  <2>3. QED
    BY <2>1, <2>2, <1>15, <1>a DEF RefreshToken
<1>16. ASSUME NEW p \in Invocations, StoreRefreshed(p)
      PROVE  SlotInv'
  <2>1. SlotOf(p) = DefaultSlot
    BY <1>16, <1>a DEF StoreRefreshed
  <2>2. QED
    BY <2>1, <1>16, <1>a, SMTT(60) DEF StoreRefreshed
<1>17. ASSUME NEW p \in Invocations, Open(p)
      PROVE  SlotInv'
  BY <1>17, <1>a DEF Open
<1>18. ASSUME NEW p \in Invocations, AdoptToken(p)
      PROVE  SlotInv'
  BY <1>18, <1>a DEF AdoptToken
<1>19. ASSUME NEW p \in Invocations, AdoptId(p)
      PROVE  SlotInv'
  BY <1>19, <1>a DEF AdoptId
<1>20. ASSUME NEW p \in Invocations, AdoptKey(p)
      PROVE  SlotInv'
  BY <1>20, <1>a DEF AdoptKey
<1>21. ASSUME NEW p \in Invocations, Tombstone(p)
      PROVE  SlotInv'
  BY <1>21, <1>a DEF Tombstone
<1>22. ASSUME NEW p \in Invocations, DeleteSession(p)
      PROVE  SlotInv'
  BY <1>22, <1>a DEF DeleteSession
<1>23. ASSUME NEW p \in Invocations, SkipAdopt(p)
      PROVE  SlotInv'
  BY <1>23, <1>a DEF SkipAdopt, AdoptStages
<1>24. ASSUME NEW p \in Invocations, SkipTombstone(p)
      PROVE  SlotInv'
  BY <1>24, <1>a DEF SkipTombstone, UnlockStages
<1>25. ASSUME NEW p \in Invocations, SkipDelete(p)
      PROVE  SlotInv'
  BY <1>25, <1>a DEF SkipDelete
<1>26. ASSUME NEW p \in Invocations, ForgetToken(p)
      PROVE  SlotInv'
  BY <1>26, <1>a, SMTT(30) DEF ForgetToken
<1>27. ASSUME NEW p \in Invocations, ForgetKey(p)
      PROVE  SlotInv'
  BY <1>27, <1>a, SMTT(30) DEF ForgetKey
<1>28. ASSUME NEW p \in Invocations, ForgetId(p)
      PROVE  SlotInv'
  BY <1>28, <1>a, SMTT(30) DEF ForgetId
<1>29. ASSUME NEW p \in Invocations, Finish(p)
      PROVE  SlotInv'
  BY <1>29, <1>a DEF Finish, Exit
<1>30. ASSUME NEW p \in Invocations, Abort(p)
      PROVE  SlotInv'
  BY <1>30, <1>a DEF Abort, Exit
<1>31. ASSUME NEW n \in Sessions, AppDeletes(n)
      PROVE  SlotInv'
  BY <1>31 DEF AppDeletes
<1>32. CASE UNCHANGED vars
  BY <1>32 DEF vars
<1> HIDE DEF TypeInv, Goto, keychain, backend, locals, SlotInv
<1>33. QED
  BY <1>1, <1>2, <1>3, <1>4, <1>5, <1>6, <1>7, <1>8, <1>9, <1>10, <1>11,
     <1>12, <1>13, <1>14, <1>15, <1>16, <1>17, <1>18, <1>19, <1>20, <1>21,
     <1>22, <1>23, <1>24, <1>25, <1>26, <1>27, <1>28, <1>29, <1>30, <1>31,
     <1>32
  DEF Next, Create, Unlock, Remove

\* Under the discipline, a slot that `exists` always holds the token, the key
\* and the id of one session (session/mod.rs adopt, lifecycle.rs create, remove).
THEOREM SlotsStayWhole ==
  ASSUME Disciplined
  PROVE  Spec => []WholeTriple
<1>1. TypeInv /\ SlotInv /\ [Next]_vars => SlotInv'
  BY Disciplined, SlotStep
<1>2. SlotInv => WholeTriple
  BY DEF SlotInv
<1>3. QED
  BY <1>1, <1>2, TypeInit, TypeStep, SlotInit, PTL DEF Spec

\* Three steps write the token of a slot.
LEMMA TokenWriters ==
  ASSUME [Next]_vars
  PROVE  \/ token' = token
         \/ \E p \in Invocations :
               StoreToken(p) \/ StoreRefreshed(p) \/ ForgetToken(p)
  BY ZenonT(60)
  DEF Next, Create, Unlock, Remove, vars, keychain, BeginCreate, BeginRead,
     BeginRemove, Begin, CreateTokens, StoreKey, StoreId, Register, WritePolicy,
     RunToken, RunKey, Sync, RefreshToken, Open, AdoptToken, AdoptId, AdoptKey,
     Tombstone, DeleteSession, SkipAdopt, SkipTombstone, SkipDelete, ForgetKey,
     ForgetId, IndexRead, IndexWrite, Finish, Abort, Exit, AppDeletes

-----------------------------------------------------------------------------
(* What create, remove and a reading command report.  Each report is about  *)
(* steps long past, so the invariant says of every stage what was done on   *)
(* the way to it, and that nobody else reaches the session it was done to.  *)

\* What each stage is a stage of.
Jobs == \A p \in Invocations :
    /\ pc[p] = "idle" => did[p] = {}
    /\ task[p].force => task[p].job = "remove"
    /\ pc[p] \in CreateStages => task[p].job = "create"
    /\ pc[p] \in AdoptStages \cup ForgetStages \cup {"tombstone", "delete"} =>
          task[p].job = "remove"
    /\ pc[p] \in UnlockStages => task[p].job \in {"read", "remove"}
    /\ pc[p] \in {"indexRead", "indexWrite"} => task[p].job # "read"

Storing == {"storeKey", "storeId", "storeToken"}

\* A session belongs to one slot: its token is in at most one, a `create`
\* stores one that no slot holds, and the backend mints each once.
SessionsApart ==
    /\ \A s \in Slots : token[s] # Absent =>
          /\ life[token[s].session] # "unborn"
          /\ \A t \in Slots : (token[t] # Absent /\ t # s) =>
                token[t].session # token[s].session
    /\ \A p \in Invocations : pc[p] \in Storing =>
          /\ life[cred[p].id] # "unborn"
          /\ \A s \in Slots : token[s] # Absent => token[s].session # cred[p].id
          /\ \A q \in Invocations : (pc[q] \in Storing /\ q # p) =>
                cred[q].id # cred[p].id
    /\ \A n \in Sessions : life[n] = "unborn" => meta[n] = "none"

\* What a `create` has done when it gets to each of its stages.
Creating == \A p \in Invocations : task[p].job = "create" =>
    /\ pc[p] \in Storing \cup {"register"} => meta[cred[p].id] = "none"
    /\ pc[p] \in {"register", "policy", "indexRead", "indexWrite", "done"} =>
          /\ token[SlotOf(p)] # Absent
          /\ token[SlotOf(p)].session = cred[p].id
    /\ pc[p] \in {"policy", "indexRead", "indexWrite", "done"} =>
          meta[cred[p].id] = "listed"
    /\ pc[p] \in {"indexRead", "indexWrite", "done"} => cred[p].id \in policied

\* The session a `remove` carries is its slot's until the slot is emptied.
Retiring == \A p \in Invocations : task[p].job = "remove" =>
    /\ pc[p] = "adoptId" => token[SlotOf(p)] # Absent
    /\ \/ pc[p] \in {"adoptKey", "tombstone", "delete"} \cup UnlockStages
       \/ pc[p] = "forgetToken" /\ ~task[p].force
       => /\ token[SlotOf(p)] # Absent
          /\ token[SlotOf(p)].session = cred[p].id

\* What a `remove` has done, and noted, when it gets to each of its stages.
Noting == \A p \in Invocations : task[p].job = "remove" =>
    /\ pc[p] \in {"tombstone"} \cup AdoptStages \cup UnlockStages => did[p] = {}
    /\ "tombstoned" \in did[p] =>
          cred[p].id \in Sessions /\ meta[cred[p].id] = "tombstoned"
    /\ "deleted" \in did[p] =>
          cred[p].id \in Sessions /\ life[cred[p].id] = "deleted"
    /\ ~task[p].force =>
          /\ pc[p] = "delete" => did[p] = {"tombstoned"}
          /\ pc[p] \in {"indexRead", "indexWrite", "done"} \cup ForgetStages =>
                did[p] = {"tombstoned", "deleted"}

\* Which items a `remove` has emptied.
Emptying == \A p \in Invocations : task[p].job = "remove" =>
    /\ pc[p] \in {"forgetKey", "forgetId", "indexRead", "indexWrite", "done"} =>
          token[SlotOf(p)] = Absent
    /\ pc[p] \in {"forgetId", "indexRead", "indexWrite", "done"} =>
          key[SlotOf(p)] = Absent
    /\ pc[p] \in {"indexRead", "indexWrite", "done"} => sid[SlotOf(p)] = Absent

\* A run holds its slot's very token, which from the first answered call on is
\* the generation the backend accepts.
Current(t) == t # Absent /\ gen[t.session] = t.gen

Reading == \A p \in Invocations :
    /\ pc[p] = "runKey" => cred[p].hand = token[SlotOf(p)]
    /\ pc[p] \in {"sync", "refresh", "open"} =>
          cred[p].token = token[SlotOf(p)]
    /\ pc[p] = "storeRefreshed" => Current(cred[p].hand)
    /\ pc[p] = "open" \/ (pc[p] = "done" /\ task[p].job = "read") =>
          /\ Current(token[SlotOf(p)])
          /\ cred[p].token = token[SlotOf(p)]

ReportInv ==
    /\ Jobs
    /\ SessionsApart
    /\ Creating
    /\ Retiring
    /\ Noting
    /\ Emptying
    /\ Reading

\* Nothing runs, no session is minted.
LEMMA ReportInit == Init => ReportInv
  BY DEF Init, ReportInv, Jobs, SessionsApart, Creating, Retiring, Noting,
         Emptying, Reading, Current, Storing, NoTask, CreateStages, AdoptStages,
         UnlockStages, ForgetStages

\* Every step keeps the reports' invariant, under the discipline.
LEMMA ReportStep ==
  Disciplined /\ TypeInv /\ SlotInv /\ ReportInv /\ [Next]_vars => ReportInv'
<1> SUFFICES ASSUME Disciplined, TypeInv, SlotInv, ReportInv, [Next]_vars
             PROVE  ReportInv'
  OBVIOUS
<1> USE SlotsAssumption, MaxRefreshAssumption, AbsentAssumption
    DEF Goto, keychain, backend, locals, SlotOf,
        CreateStages, AdoptStages, UnlockStages, ForgetStages
<1>t. TypeOK /\ RefreshBound /\ Identified
  BY DEF TypeInv
<1>a. \A p \in Invocations :
         /\ cred[p] \in Cred
         /\ task[p] \in Task
         /\ SlotOf(p) \in Slots
         /\ did[p] \in SUBSET {"tombstoned", "deleted"}
         /\ cred[p].token \in Token \cup {Absent}
         /\ cred[p].hand \in Token \cup {Absent}
         /\ cred[p].id \in Item
         /\ cred[p].key \in Item
  BY <1>t, CredFields DEF Task, TypeOK
<1>b. \A s \in Slots :
         /\ token[s] \in Token \cup {Absent}
         /\ token[s] # Absent => token[s].session \in Sessions
  BY <1>t DEF Token, TypeOK
<1>c. OnePerSlot /\ SlotUnclaimed /\ Minted /\ Running /\ WholeTriple
  BY DEF SlotInv
<1>d. Jobs /\ SessionsApart /\ Creating /\ Retiring /\ Noting /\ Emptying /\ Reading
  BY DEF ReportInv
<1>1. ASSUME NEW p \in Invocations, RunKey(p)
      PROVE  ReportInv'
  <2>1. Jobs' /\ Noting'
    BY <1>1, <1>a, <1>d, <1>t, SMTT(60) DEF RunKey, Jobs, Noting, TypeOK
  <2>4. Retiring' /\ Emptying'
    BY <1>1, <1>a, <1>d, <1>t, SMTT(60) DEF RunKey, Jobs, Retiring, Emptying, TypeOK
  <2>6. SessionsApart'
    BY <1>1, <1>a, <1>b, <1>d, <1>t, SMTT(60)
    DEF RunKey, SessionsApart, Storing, TypeOK
  <2>2. Creating'
    BY <1>1, <1>a, <1>d, <1>t, SMTT(60)
    DEF RunKey, Jobs, Creating, Storing, TypeOK
  <2>7. UNCHANGED <<token, gen, task>> /\ pc' = [pc EXCEPT ![p] = "sync"]
        /\ pc[p] = "runKey" /\ cred'[p].token = cred[p].hand
        /\ \A q \in Invocations : q # p => cred'[q] = cred[q] /\ pc'[q] = pc[q]
    BY <1>1, <1>a, <1>t, SMTT(60) DEF RunKey, TypeOK, Cred
  <2>3. Reading'
    BY <2>7, <1>d, <1>t, SMTT(60) DEF Reading, Current, TypeOK
  <2>5. QED
    BY <2>1, <2>2, <2>3, <2>4, <2>6 DEF ReportInv
<1>2. ASSUME NEW p \in Invocations, RefreshToken(p)
      PROVE  ReportInv'
  <2> DEFINE n == cred[p].token.session
             t == [session |-> n, gen |-> gen[n] + 1]
  <2>1. Jobs' /\ SessionsApart' /\ Creating' /\ Retiring' /\ Noting' /\ Emptying'
    BY <1>2, <1>a, <1>b, <1>c, <1>d, <1>t, SMTT(60)
    DEF RefreshToken, Jobs, SessionsApart, Creating, Retiring, Noting, Emptying,
        Storing, TypeOK
  <2>2. n \in Sessions /\ gen[n] + 1 \in Nat /\ gen[n] + 1 \in 0..MaxRefresh
    BY <1>2, <1>a, <1>t, TokenFields
    DEF RefreshToken, Accepted, RefreshBound, TypeOK
  <2>3. t \in Token /\ t # Absent /\ t.session = n /\ t.gen = gen[n] + 1
    BY <2>2 DEF Token
  <2>4. /\ cred' = [cred EXCEPT ![p].hand = t]
        /\ gen' = [gen EXCEPT ![n] = t.gen]
        /\ pc' = [pc EXCEPT ![p] = "storeRefreshed"]
        /\ pc[p] = "refresh"
        /\ UNCHANGED <<token, task>>
    BY <1>2 DEF RefreshToken
  <2> HIDE DEF t
  <2>5. \A q \in Invocations : q # p =>
           /\ pc'[q] = pc[q]
           /\ cred'[q] = cred[q]
           /\ pc[q] # "idle" => SlotOf(q) # SlotOf(p)
    BY <2>4, <1>t, <1>c DEF OnePerSlot, TypeOK
  <2>6. token[SlotOf(p)] # Absent /\ token[SlotOf(p)].session = n
    BY <2>4, <1>c DEF Running
  <2>7. \A s \in Slots : (s # SlotOf(p) /\ Current(token[s])) => Current(token[s])'
    BY <2>4, <2>6, <1>a, <1>b, <1>d, <1>t DEF Current, SessionsApart, TypeOK
  <2>8. \A q \in Invocations : (q # p /\ pc[q] = "storeRefreshed") =>
           Current(cred[q].hand)'
    BY <2>4, <2>5, <2>6, <1>a, <1>b, <1>c, <1>d, <1>t
    DEF Current, SessionsApart, Running, Reading, TypeOK
  <2>9. Current(cred[p].hand)'
    BY <2>2, <2>3, <2>4, <1>a, <1>t DEF Current, TypeOK
  <2>10. Reading'
    BY <2>4, <2>5, <2>7, <2>8, <2>9, <1>a, <1>d, <1>t, SMTT(60) DEF Reading, TypeOK
  <2>11. QED
    BY <2>1, <2>10 DEF ReportInv
<1>3. ASSUME NEW p \in Invocations, SkipTombstone(p)
      PROVE  ReportInv'
  <2>1. PICK stage \in UnlockStages \cup {"tombstone"} : Goto(p, stage, "delete")
    BY <1>3 DEF SkipTombstone
  <2>2. Jobs'
    BY <2>1, <1>3, <1>a, <1>d, <1>t, SMTT(60) DEF SkipTombstone, Jobs, TypeOK
  <2>3. SessionsApart' /\ Creating' /\ Retiring' /\ Noting' /\ Emptying' /\ Reading'
    BY <2>1, <1>3, <1>a, <1>b, <1>c, <1>d, <1>t, SMTT(60)
    DEF SkipTombstone, Jobs, SessionsApart, Creating, Retiring, Noting, Emptying,
        Reading, Current, Storing, OnePerSlot, TypeOK
  <2>4. QED
    BY <2>2, <2>3 DEF ReportInv
<1> USE DEF TypeInv, SlotInv, ReportInv, TypeOK, OnePerSlot, Minted, Running,
            Jobs, SessionsApart, Creating, Retiring, Noting, Emptying, Reading,
            Storing, Current
<1>4. ASSUME NEW p \in Invocations, NEW s \in Slots, BeginCreate(p, s)
      PROVE  ReportInv'
  BY <1>4, <1>a, <1>b, SMTT(90)  DEF BeginCreate, Begin, Free, Disciplined, Task
<1>5. ASSUME NEW p \in Invocations, NEW s \in Slots, BeginRead(p, s)
      PROVE  ReportInv'
  BY <1>5, <1>a, <1>b, SMTT(90)  DEF BeginRead, Begin, Free, Disciplined, Task
<1>6. ASSUME NEW p \in Invocations, NEW s \in Slots, NEW force \in BOOLEAN,
             BeginRemove(p, s, force)
      PROVE  ReportInv'
  BY <1>6, <1>a, <1>b, SMTT(90)  DEF BeginRemove, Begin, Free, Disciplined, Task
<1>7. ASSUME NEW p \in Invocations, CreateTokens(p)
      PROVE  ReportInv'
  BY <1>7, <1>a, <1>b, SMTT(90)  DEF CreateTokens
<1>8. ASSUME NEW p \in Invocations, StoreKey(p)
      PROVE  ReportInv'
  BY <1>8, <1>a, <1>b, SMTT(90)  DEF StoreKey
<1>9. ASSUME NEW p \in Invocations, StoreId(p)
      PROVE  ReportInv'
  BY <1>9, <1>a, <1>b, SMTT(90)  DEF StoreId
<1>10. ASSUME NEW p \in Invocations, StoreToken(p)
      PROVE  ReportInv'
  BY <1>10, <1>a, <1>b, SMTT(90)  DEF StoreToken
<1>11. ASSUME NEW p \in Invocations, Register(p)
      PROVE  ReportInv'
  BY <1>11, <1>a, <1>b, SMTT(90)  DEF Register
<1>12. ASSUME NEW p \in Invocations, WritePolicy(p)
      PROVE  ReportInv'
  BY <1>12, <1>a, <1>b, SMTT(90)  DEF WritePolicy
<1>13. ASSUME NEW p \in Invocations, IndexRead(p)
      PROVE  ReportInv'
  BY <1>13, <1>a, <1>b, SMTT(90)  DEF IndexRead
<1>14. ASSUME NEW p \in Invocations, IndexWrite(p)
      PROVE  ReportInv'
  BY <1>14, <1>a, <1>b, SMTT(90)  DEF IndexWrite
<1>15. ASSUME NEW p \in Invocations, RunToken(p)
      PROVE  ReportInv'
  BY <1>15, <1>a, <1>b, SMTT(90)  DEF RunToken
<1>16. ASSUME NEW p \in Invocations, Sync(p)
      PROVE  ReportInv'
  <2>1. UNCHANGED <<keychain, backend, task, cred, did>>
    BY <1>16 DEF Sync
  <2>2. pc[p] = "sync" /\ Accepted(cred[p].token)
        /\ \/ pc' = [pc EXCEPT ![p] = "open"]
           \/ pc' = [pc EXCEPT ![p] = "refresh"]
    BY <1>16 DEF Sync
  <2>3. Jobs' /\ Noting' /\ Retiring'
    BY <2>1, <2>2, <1>a, <1>b, SMTT(90)
  <2>4. SessionsApart' /\ Creating' /\ Emptying'
    BY <2>1, <2>2, <1>a, <1>b, SMTT(90)
  <2>5. Reading'
    BY <2>1, <2>2, <1>a, <1>b, SMTT(90) DEF Accepted
  <2>6. QED
    BY <2>3, <2>4, <2>5
<1>17. ASSUME NEW p \in Invocations, StoreRefreshed(p)
      PROVE  ReportInv'
  <2>1. Jobs' /\ Noting'
    BY <1>17, <1>a, <1>b, SMTT(90) DEF StoreRefreshed
  <2>2. SessionsApart'
    BY <1>17, <1>a, <1>b, SMTT(90) DEF StoreRefreshed
  <2>3. Creating' /\ Retiring'
    BY <1>17, <1>a, <1>b, SMTT(90) DEF StoreRefreshed
  <2>4. Emptying'
    BY <1>17, <1>a, <1>b, SMTT(90) DEF StoreRefreshed
  <2>5. Reading'
    BY <1>17, <1>a, <1>b, SMTT(90) DEF StoreRefreshed
  <2>6. QED
    BY <2>1, <2>2, <2>3, <2>4, <2>5
<1>18. ASSUME NEW p \in Invocations, Open(p)
      PROVE  ReportInv'
  BY <1>18, <1>a, <1>b, SMTT(90)  DEF Open, Accepted
<1>19. ASSUME NEW p \in Invocations, AdoptToken(p)
      PROVE  ReportInv'
  BY <1>19, <1>a, <1>b, SMTT(90)  DEF AdoptToken
<1>20. ASSUME NEW p \in Invocations, AdoptId(p)
      PROVE  ReportInv'
  BY <1>20, <1>a, <1>b, SMTT(90)  DEF AdoptId, WholeTriple
<1>21. ASSUME NEW p \in Invocations, AdoptKey(p)
      PROVE  ReportInv'
  BY <1>21, <1>a, <1>b, SMTT(90)  DEF AdoptKey
<1>22. ASSUME NEW p \in Invocations, Tombstone(p)
      PROVE  ReportInv'
  BY <1>22, <1>a, <1>b, SMTT(90)  DEF Tombstone
<1>23. ASSUME NEW p \in Invocations, DeleteSession(p)
      PROVE  ReportInv'
  BY <1>23, <1>a, <1>b, SMTT(90)  DEF DeleteSession
<1>24. ASSUME NEW p \in Invocations, SkipAdopt(p)
      PROVE  ReportInv'
  BY <1>24, <1>a, <1>b, SMTT(90)  DEF SkipAdopt
<1>25. ASSUME NEW p \in Invocations, SkipDelete(p)
      PROVE  ReportInv'
  BY <1>25, <1>a, <1>b, SMTT(90)  DEF SkipDelete
<1>26. ASSUME NEW p \in Invocations, ForgetToken(p)
      PROVE  ReportInv'
  BY <1>26, <1>a, <1>b, SMTT(90)  DEF ForgetToken
<1>27. ASSUME NEW p \in Invocations, ForgetKey(p)
      PROVE  ReportInv'
  BY <1>27, <1>a, <1>b, SMTT(90)  DEF ForgetKey
<1>28. ASSUME NEW p \in Invocations, ForgetId(p)
      PROVE  ReportInv'
  BY <1>28, <1>a, <1>b, SMTT(90)  DEF ForgetId
<1>29. ASSUME NEW p \in Invocations, Finish(p)
      PROVE  ReportInv'
  BY <1>29, <1>a, <1>b, SMTT(90)  DEF Finish, Exit, NoCred, NoTask
<1>30. ASSUME NEW p \in Invocations, Abort(p)
      PROVE  ReportInv'
  BY <1>30, <1>a, <1>b, SMTT(90)  DEF Abort, Exit, NoCred, NoTask
<1>31. ASSUME NEW n \in Sessions, AppDeletes(n)
      PROVE  ReportInv'
  BY <1>31, <1>a, <1>b, SMTT(90)  DEF AppDeletes
<1>32. CASE UNCHANGED vars
  BY <1>32, SMTT(90)  DEF vars
<1> HIDE DEF TypeInv, SlotInv, ReportInv, Goto, keychain, backend, locals, SlotOf
<1>33. QED
  BY <1>1, <1>2, <1>3, <1>4, <1>5, <1>6, <1>7, <1>8, <1>9, <1>10, <1>11,
     <1>12, <1>13, <1>14, <1>15, <1>16, <1>17, <1>18, <1>19, <1>20, <1>21,
     <1>22, <1>23, <1>24, <1>25, <1>26, <1>27, <1>28, <1>29, <1>30, <1>31,
     <1>32
  DEF Next, Create, Unlock, Remove

\* The whole inductive invariant, once and for all the theorems below.
LEMMA ReportsHold ==
  ASSUME Disciplined
  PROVE  Spec => [](TypeInv /\ SlotInv /\ ReportInv)
<1>1. TypeInv /\ SlotInv /\ ReportInv /\ [Next]_vars
         => SlotInv' /\ ReportInv'
  BY Disciplined, SlotStep, ReportStep
<1>2. QED
  BY <1>1, TypeInit, TypeStep, SlotInit, ReportInit, PTL DEF Spec

\* Under the discipline, what `session remove` reports is so, whatever was
\* killed, failed or was skipped before (session/lifecycle.rs, remove).
THEOREM RemoveIsHonest ==
  ASSUME Disciplined
  PROVE  Spec => []RemoveReportsTruth
<1>1. TypeInv /\ SlotInv /\ ReportInv => RemoveReportsTruth
  BY DEF ReportInv, Noting, Emptying, RemoveReportsTruth
<1>2. QED
  BY <1>1, ReportsHold, PTL

\* Under the discipline, a `session create` that reports success leaves a slot
\* that works (session/lifecycle.rs, create).
THEOREM CreateIsHonest ==
  ASSUME Disciplined
  PROVE  Spec => []CreateReportsTruth
<1>1. TypeInv /\ SlotInv /\ ReportInv => CreateReportsTruth
  BY DEF ReportInv, Creating, CreateReportsTruth
<1>2. QED
  BY <1>1, ReportsHold, PTL

\* Under the discipline, the token a reading command leaves in the keychain is
\* the one the backend accepts, rotated on the way or not (unlock.rs).
THEOREM ReadsLeaveAUsableToken ==
  ASSUME Disciplined
  PROVE  Spec => []ReadLeavesUsableToken
<1>1. TypeInv /\ SlotInv /\ ReportInv => ReadLeavesUsableToken
  BY DEF ReportInv, Reading, Current, ReadLeavesUsableToken, Accepted
<1>2. QED
  BY <1>1, ReportsHold, PTL

\* A token that leaves the keychain was forgotten, by a `remove` whose session
\* was tombstoned and deleted or whose user said --force.
LEMMA OrphanStep ==
  ASSUME TypeInv, SlotInv, ReportInv, [Next]_vars, NEW s \in Slots,
         token[s] # Absent, token'[s] = Absent
  PROVE  \/ /\ life[token[s].session] = "deleted"
            /\ meta[token[s].session] = "tombstoned"
         \/ \E p \in Invocations : SlotOf(p) = s /\ task[p].force
<1> USE DEF TypeInv, TypeOK, SlotInv, SlotOf, Goto
<1>1. ASSUME NEW p \in Invocations, StoreToken(p)
      PROVE  FALSE
  BY <1>1 DEF StoreToken, Minted
<1>2. ASSUME NEW p \in Invocations, StoreRefreshed(p)
      PROVE  FALSE
  BY <1>2 DEF StoreRefreshed, Running
<1>3. ASSUME NEW p \in Invocations, ForgetToken(p), ~task[p].force
      PROVE  /\ life[token[s].session] = "deleted"
             /\ meta[token[s].session] = "tombstoned"
  <2>1. s = SlotOf(p) /\ pc[p] = "forgetToken" /\ task[p].job = "remove"
    BY <1>3 DEF ForgetToken, ReportInv, Jobs, ForgetStages
  <2>2. token[s].session = cred[p].id
    BY <2>1, <1>3 DEF ReportInv, Retiring
  <2>3. did[p] = {"tombstoned", "deleted"}
    BY <2>1, <1>3 DEF ReportInv, Noting, ForgetStages
  <2>4. QED
    BY <2>1, <2>2, <2>3 DEF ReportInv, Noting
<1>4. ASSUME NEW p \in Invocations, ForgetToken(p)
      PROVE  s = SlotOf(p)
  BY <1>4 DEF ForgetToken
<1>5. QED
  BY <1>1, <1>2, <1>3, <1>4, TokenWriters

\* Under the discipline, no live session is silently orphaned: without --force
\* the token goes only after the session has (session/lifecycle.rs, remove).
THEOREM NoSessionIsOrphaned ==
  ASSUME Disciplined
  PROVE  Spec => NoSilentOrphan
<1>1. TypeInv /\ SlotInv /\ ReportInv /\ [Next]_vars =>
         [\A s \in Slots : (token[s] # Absent /\ token'[s] = Absent) =>
             \/ /\ life[token[s].session] = "deleted"
                /\ meta[token[s].session] = "tombstoned"
             \/ \E p \in Invocations : SlotOf(p) = s /\ task[p].force]_vars
  BY OrphanStep
<1>2. QED
  BY <1>1, ReportsHold, PTL DEF Spec, NoSilentOrphan

\* Only its own step takes an invocation out of "delete" with a session gone,
\* and the id that step carries is its slot's.
LEMMA DeleteStep ==
  ASSUME TypeInv, SlotInv, ReportInv, [Next]_vars,
         NEW p \in Invocations, NEW n \in Sessions,
         pc[p] = "delete", pc'[p] = "forgetToken", life'[n] # life[n]
  PROVE  token[SlotOf(p)] # Absent /\ token[SlotOf(p)].session = n
<1> USE DEF TypeInv, TypeOK, Goto
<1>1. \/ life' = life
      \/ pc' = pc
      \/ \E q \in Invocations : CreateTokens(q) \/ DeleteSession(q)
  BY ZenonT(60)
  DEF Next, Create, Unlock, Remove, vars, keychain, backend, BeginCreate, BeginRead,
     BeginRemove, Begin, StoreKey, StoreId, StoreToken, Register, WritePolicy,
     RunToken, RunKey, Sync, RefreshToken, StoreRefreshed, Open, AdoptToken,
     AdoptId, AdoptKey, Tombstone, SkipAdopt, SkipTombstone, SkipDelete,
     ForgetToken, ForgetKey, ForgetId, IndexRead, IndexWrite, Finish, Abort, Exit,
     AppDeletes
<1>2. ASSUME NEW q \in Invocations, CreateTokens(q)
      PROVE  FALSE
  BY <1>2 DEF CreateTokens
<1>3. ASSUME NEW q \in Invocations, DeleteSession(q)
      PROVE  q = p /\ cred[p].id = n
  BY <1>3 DEF DeleteSession
<1>4. ASSUME cred[p].id = n
      PROVE  token[SlotOf(p)] # Absent /\ token[SlotOf(p)].session = n
  BY <1>4 DEF ReportInv, Jobs, Retiring, SlotOf
<1>5. QED
  BY <1>1, <1>2, <1>3, <1>4

\* Under the discipline, a retirement deletes the session of its own slot and no
\* other (session/lifecycle.rs, retire).
THEOREM RemoveDeletesItsOwn ==
  ASSUME Disciplined
  PROVE  Spec => DeletesOwnSession
<1>1. TypeInv /\ SlotInv /\ ReportInv /\ [Next]_vars =>
         [\A p \in Invocations, n \in Sessions :
             (pc[p] = "delete" /\ pc'[p] = "forgetToken" /\ life'[n] # life[n]) =>
                 token[SlotOf(p)] # Absent /\ token[SlotOf(p)].session = n]_vars
  BY DeleteStep
<1>2. QED
  BY <1>1, ReportsHold, PTL DEF Spec, DeletesOwnSession
=============================================================================
