------------------------- MODULE SessionUnlockProofs -------------------------
(***************************************************************************)
(* Proofs about SessionUnlock for every set of invocations and every       *)
(* bound on a wait: its type invariant, and that it implements             *)
(* ConfirmedAccess.                                                        *)
(***************************************************************************)
EXTENDS SessionUnlock, TLAPS

\* TypeOK alone is not inductive: a wait stays within MaxWait only because it
\* never passes its own limit.
Bounded == \A p \in Invocations :
    /\ pc[p] = "idle" => waited[p] = 0
    /\ limit[p] # Forever => waited[p] <= limit[p]

TypeInv == TypeOK /\ Bounded

(* Types, and the bound on a wait, are preserved by every step.            *)
LEMMA TypeStep == TypeInv /\ [Next]_vars => TypeInv'
<1> SUFFICES ASSUME TypeInv, [Next]_vars PROVE TypeInv'
  OBVIOUS
<1> USE JobsAssumption, WaitAssumption
    DEF TypeInv, TypeOK, Bounded, Stages, Waits, Goto, End, backend
<1>1. ASSUME NEW p \in Invocations, NEW j \in Jobs, NEW l \in Waits \cup {Forever},
             Begin(p, j, l)
      PROVE TypeInv'
  <2>1. \E first \in {"check", "lock", "seek"} : pc' = [pc EXCEPT ![p] = first]
    BY <1>1 DEF Begin
  <2> QED BY <1>1, <2>1 DEF Begin
<1>2. ASSUME NEW p \in Invocations,
             SeekServed(p) \/ SeekLocked(p) \/ ReseekServed(p) \/ ReseekLocked(p)
      PROVE TypeInv'
  BY <1>2 DEF SeekServed, SeekLocked, ReseekServed, ReseekLocked, Serve
<1>3. ASSUME NEW p \in Invocations,
             CheckUnlocked(p) \/ CheckLocked(p) \/ Request(p) \/ PollUnlocked(p)
      PROVE TypeInv'
  BY <1>3 DEF CheckUnlocked, CheckLocked, Request, PollUnlocked, Granted
<1>4. ASSUME NEW p \in Invocations, PollLocked(p) PROVE TypeInv'
  <2>1. CASE UNCHANGED waited
    BY <1>4, <2>1 DEF PollLocked
  <2>2. CASE limit[p] # Forever /\ waited[p] # limit[p]
             /\ UNCHANGED <<pc, outcome>>
             /\ waited' = [waited EXCEPT ![p] = @ + 1]
    <3>1. waited[p] + 1 \in Waits /\ waited[p] + 1 <= limit[p]
      BY <2>2
    <3> QED BY <1>4, <2>2, <3>1 DEF PollLocked
  <2>3. CASE limit[p] = Forever /\ waited' = [waited EXCEPT ![p] = @]
             /\ UNCHANGED <<pc, outcome>>
    BY <1>4, <2>3 DEF PollLocked
  <2> QED BY <1>4, <2>1, <2>2, <2>3 DEF PollLocked
<1>5. ASSUME NEW p \in Invocations,
             Work(p) \/ Finish(p) \/ Relock(p) \/ FinishFails(p) \/ Lock(p)
      PROVE TypeInv'
  BY <1>5 DEF Work, Finish, Relock, FinishFails, Lock, Drop
<1>6. ASSUME NEW p \in Invocations, Leave(p) \/ Abort(p) PROVE TypeInv'
  BY <1>6 DEF Leave, Abort, Exit
<1>7. CASE Approve \/ Dismiss \/ Lapse
  BY <1>7 DEF Approve, Dismiss, Lapse
<1>8. CASE UNCHANGED vars
  BY <1>8 DEF vars
<1> HIDE DEF TypeInv, TypeOK, Bounded, Stages, Goto, End, backend
<1> QED BY <1>1, <1>2, <1>3, <1>4, <1>5, <1>6, <1>7, <1>8 DEF Next, Advance

(* The initial state is well typed.                                        *)
LEMMA TypeInit == Init => TypeInv
<1> SUFFICES ASSUME Init PROVE TypeInv
  OBVIOUS
<1>1. 0 \in Waits
  BY WaitAssumption DEF Waits
<1>2. TypeOK
  BY <1>1 DEF Init, TypeOK, Stages
<1>3. Bounded
  BY DEF Init, Bounded
<1> QED BY <1>2, <1>3 DEF TypeInv

(* SessionUnlock keeps its types, and no wait passes its limit.            *)
THEOREM TypeCorrect == Spec => []TypeOK
<1>1. TypeInv => TypeOK
  BY DEF TypeInv
<1> QED BY <1>1, TypeInit, TypeStep, PTL DEF Spec

-----------------------------------------------------------------------------
(* The refinement.  On a strict slot it holds as far as `finish` is the end  *)
(* of every command that took the seed, one command at a time.              *)

Orderly == Strict => Alone /\ ~Faults /\ "rename" \notin Jobs

\* One command runs, and a strict slot's unlock that served an access is still
\* in the hands of the command that will drop it.
StrictInv == Strict =>
    /\ \A p, q \in Invocations : pc[p] # "idle" /\ pc[q] # "idle" => p = q
    /\ unlocked /\ spent => \E p \in Invocations : pc[p] \in Holding

(* StrictInv holds first and after every step.                             *)
LEMMA StrictInit == Init => StrictInv
BY DEF Init, StrictInv

\* A step of an orderly slot keeps it.
LEMMA StrictStep ==
  ASSUME Orderly, TypeOK, StrictInv, [Next]_vars PROVE StrictInv'
<1> SUFFICES ASSUME Strict PROVE StrictInv'
  BY DEF StrictInv, Next
<1> USE DEF Orderly, TypeOK, StrictInv, Holding, Goto, End, backend
<1>1. ASSUME NEW p \in Invocations, NEW j \in Jobs, NEW l \in Waits \cup {Forever},
             Begin(p, j, l)
      PROVE StrictInv'
  BY <1>1 DEF Begin
<1>2. ASSUME NEW p \in Invocations,
             SeekServed(p) \/ SeekLocked(p) \/ ReseekServed(p) \/ ReseekLocked(p)
      PROVE StrictInv'
  BY <1>2 DEF SeekServed, SeekLocked, ReseekServed, ReseekLocked, Serve
<1>3. ASSUME NEW p \in Invocations,
             CheckUnlocked(p) \/ CheckLocked(p) \/ Request(p) \/ PollUnlocked(p)
             \/ PollLocked(p)
      PROVE StrictInv'
  BY <1>3 DEF CheckUnlocked, CheckLocked, Request, PollUnlocked, PollLocked, Granted
<1>4. ASSUME NEW p \in Invocations, Work(p) \/ Finish(p) PROVE StrictInv'
  BY <1>4, JobsAssumption DEF Work, Finish
<1>5. ASSUME NEW p \in Invocations, Relock(p) \/ Lock(p) PROVE StrictInv'
  BY <1>5 DEF Relock, Lock, Drop
<1>6. ASSUME NEW p \in Invocations, Leave(p) PROVE StrictInv'
  BY <1>6 DEF Leave, Exit
<1>7. ASSUME NEW p \in Invocations, FinishFails(p) \/ Abort(p) PROVE FALSE
  BY <1>7 DEF FinishFails, Abort
<1>8. CASE Approve \/ Dismiss \/ Lapse
  BY <1>8 DEF Approve, Dismiss, Lapse
<1>9. CASE UNCHANGED vars
  BY <1>9 DEF vars
<1> HIDE DEF Orderly, TypeOK, StrictInv, Holding, Goto, End, backend
<1> QED BY <1>1, <1>2, <1>3, <1>4, <1>5, <1>6, <1>7, <1>8, <1>9 DEF Next, Advance

Holders == {p \in Invocations : pc[p] \in Holding}
Window  == unlocked /\ ~(Strict /\ spent)

(* A step that gives nobody the seed and takes it from nobody.             *)
LEMMA SameHolders ==
  ASSUME NEW p \in Invocations, NEW to, TypeOK,
         pc[p] \notin Holding, to \notin Holding, pc' = [pc EXCEPT ![p] = to]
  PROVE  Holders' = Holders
BY DEF Holders, TypeOK

(* Every step of SessionUnlock is a step of ConfirmedAccess, or none.      *)
LEMMA AccessStep ==
  ASSUME Orderly, TypeOK, StrictInv, [Next]_vars
  PROVE  [Promise!Next]_<<Window, Holders>>
<1> USE DEF Goto, End, backend
<1>1. ASSUME NEW p \in Invocations, NEW j \in Jobs, NEW l \in Waits \cup {Forever},
             Begin(p, j, l)
      PROVE UNCHANGED <<Window, Holders>>
  <2>1. \E first \in {"check", "lock", "seek"} : pc' = [pc EXCEPT ![p] = first]
    BY <1>1 DEF Begin
  <2>2. UNCHANGED Holders
    BY <1>1, <2>1, SameHolders DEF Begin, Holding
  <2> QED BY <1>1, <2>2 DEF Begin, Window
<1>2. ASSUME NEW p \in Invocations, SeekServed(p) \/ ReseekServed(p)
      PROVE Promise!Access(p)
  <2>1. unlocked /\ spent' = TRUE /\ unlocked' = unlocked
    BY <1>2 DEF SeekServed, ReseekServed, Serve
  <2>2. Holders' = Holders \cup {p}
    BY <1>2 DEF SeekServed, ReseekServed, Holders, Holding, TypeOK
  <2>3. Strict => ~spent
    BY <1>2, <2>1 DEF SeekServed, ReseekServed, StrictInv, Holding
  <2> QED BY <2>1, <2>2, <2>3 DEF Promise!Access, Window, Holders, TypeOK
<1>3. ASSUME NEW p \in Invocations,
             SeekLocked(p) \/ ReseekLocked(p) \/ CheckUnlocked(p)
             \/ CheckLocked(p) \/ Request(p) \/ PollUnlocked(p)
      PROVE UNCHANGED <<Window, Holders>>
  <2>1. \E to \in {"check", "request", "poll", "reseek", "done"} :
           pc' = [pc EXCEPT ![p] = to]
    BY <1>3 DEF SeekLocked, ReseekLocked, CheckUnlocked, CheckLocked, Request,
                PollUnlocked, Granted
  <2>2. pc[p] \in {"seek", "reseek", "check", "request", "poll"}
    BY <1>3 DEF SeekLocked, ReseekLocked, CheckUnlocked, CheckLocked, Request,
                PollUnlocked, Granted
  <2>3. UNCHANGED Holders
    BY <2>1, <2>2, SameHolders DEF Holding
  <2> QED BY <1>3, <2>3 DEF SeekLocked, ReseekLocked, CheckUnlocked, CheckLocked,
                            Request, PollUnlocked, Granted, Window
<1>4. ASSUME NEW p \in Invocations, PollLocked(p)
      PROVE UNCHANGED <<Window, Holders>>
  <2>1. CASE UNCHANGED pc
    BY <1>4, <2>1 DEF PollLocked, Window, Holders
  <2>2. CASE pc[p] = "poll" /\ pc' = [pc EXCEPT ![p] = "done"]
    <3>1. UNCHANGED Holders
      BY <2>2, SameHolders DEF Holding
    <3> QED BY <1>4, <3>1 DEF PollLocked, Window
  <2> QED BY <1>4, <2>1, <2>2 DEF PollLocked
<1>5. ASSUME NEW p \in Invocations, Work(p) \/ Finish(p) \/ FinishFails(p)
      PROVE [Promise!Leave(p)]_<<Window, Holders>>
  <2>1. Window' = Window
    BY <1>5 DEF Work, Finish, FinishFails, Window
  <2>2. Holders' = Holders \/ Holders' = Holders \ {p}
    <3>1. PICK to : pc' = [pc EXCEPT ![p] = to]
      BY <1>5 DEF Work, Finish, FinishFails
    <3> QED BY <1>5, <3>1 DEF Work, Finish, FinishFails, Holders, Holding, TypeOK
  <2> QED BY <2>1, <2>2 DEF Promise!Leave, Window, Holders
<1>6. ASSUME NEW p \in Invocations, Relock(p) \/ Lock(p)
      PROVE Promise!Leave(p)
  <2>1. Window' = FALSE
    BY <1>6 DEF Relock, Lock, Drop, Window
  <2>2. Holders' = Holders \ {p}
    BY <1>6 DEF Relock, Lock, Holders, Holding, TypeOK
  <2> QED BY <2>1, <2>2 DEF Promise!Leave, Window, Holders
<1>7. ASSUME NEW p \in Invocations, Leave(p) \/ Abort(p)
      PROVE Promise!Leave(p)
  <2>1. Window' = Window
    BY <1>7 DEF Leave, Abort, Exit, Window
  <2>2. Holders' = Holders \ {p}
    BY <1>7 DEF Leave, Abort, Exit, Holders, Holding, TypeOK
  <2> QED BY <2>1, <2>2 DEF Promise!Leave, Window, Holders
<1>8. ASSUME Approve PROVE Promise!Approve
  BY <1>8 DEF Approve, Promise!Approve, Window, Holders
<1>9. CASE Dismiss
  BY <1>9 DEF Dismiss, Window, Holders
<1>10. ASSUME Lapse PROVE Promise!Lapse
  BY <1>10 DEF Lapse, Promise!Lapse, Window, Holders
<1>11. CASE UNCHANGED vars
  BY <1>11 DEF vars, Window, Holders
<1> HIDE DEF Goto, End, backend
<1> QED BY <1>1, <1>2, <1>3, <1>4, <1>5, <1>6, <1>7, <1>8, <1>9, <1>10, <1>11
        DEF Next, Advance, Promise!Next

(* Every access is confirmed: by an approval of its own on a strict slot    *)
(* whose commands run one at a time and to their end, by an approval that   *)
(* lasts on any other, whatever runs at once and whatever fails.            *)
THEOREM AccessIsConfirmed == ASSUME Orderly PROVE Spec => Confirmed
<1>1. Init => Promise!Init
  BY DEF Init, Promise!Init, Holding
<1>2. TypeInv /\ StrictInv /\ [Next]_vars
        => TypeInv' /\ StrictInv' /\ [Promise!Next]_<<Window, Holders>>
  BY Orderly, TypeStep, StrictStep, AccessStep DEF TypeInv
<1> QED BY <1>1, <1>2, TypeInit, StrictInit, PTL
        DEF Spec, Confirmed, Promise!Spec, Window, Holders
=============================================================================
