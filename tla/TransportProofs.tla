-------------------------- MODULE TransportProofs --------------------------
(***************************************************************************)
(* Proofs about Transport and ApiErrors: an error is the same error after  *)
(* a proxy, and after a recording, whatever the status was; in any program *)
(* nothing is asked twice but a read whose response was cut; no identity   *)
(* is refused for having come through the proxy; and what was recorded of  *)
(* any program, collapsed and scrubbed, is replayed as it was.             *)
(***************************************************************************)
EXTENDS Transport, HeymergeProofs

\* A status as it may come: any number, any code, and a message that says the
\* trailers never came or does not.
Statuses == [status : Int, code : Int, cut : BOOLEAN]

\* The numbers that tell errors apart are different.
LEMMA Numbers ==
  /\ Unknown = 2 /\ InvalidArgument = 3 /\ PermissionDenied = 7 /\ Unauthenticated = 16
  /\ MISSING_CREDENTIALS = 30100 /\ REJECTED_CREDENTIALS = 30420 /\ BAD_REQUEST = 10400
  BY DEF Unknown, InvalidArgument, PermissionDenied, Unauthenticated,
         MISSING_CREDENTIALS, REJECTED_CREDENTIALS, BAD_REQUEST

\* A server sends an error on as the status that it keeps.
LEMMA WireOf ==
  ASSUME NEW kind, NEW n, NEW code, NEW cut
  PROVE  LET s == Status(n, code, cut)
         IN  /\ s.status = n /\ s.code = code /\ s.cut = cut
             /\ WireError(ApiError(kind, s)) = s
  BY DEF Status, WireError, ApiError

\* What the client makes of a status it makes of it again when a server sent it
\* on (status.rs, server.rs wire_error).
THEOREM ProxyKeepsErrors ==
  ASSUME NEW s \in Statuses
  PROVE  ToApiError(WireError(ToApiError(s))) = ToApiError(s)
<1> DEFINE Lost == s.status = Unknown /\ s.cut
           Missing == s.code = MISSING_CREDENTIALS \/ s.status = Unauthenticated
           Rejected == s.code = REJECTED_CREDENTIALS \/ s.status = PermissionDenied
           Bad == s.code = BAD_REQUEST
<1>1. CASE Lost
  <2> DEFINE t == Status(Unknown, NoCode, TRUE)
  <2>1. ToApiError(s) = ApiError("Transport", t)
    BY <1>1 DEF ToApiError
  <2>2. t.status = Unknown /\ t.cut = TRUE /\ WireError(ApiError("Transport", t)) = t
    BY DEF Status, WireError, ApiError
  <2>3. ToApiError(t) = ApiError("Transport", t)
    BY <2>2 DEF ToApiError
  <2> QED
    BY <2>1, <2>2, <2>3
<1>2. CASE ~Lost /\ Missing
  <2> DEFINE t == Status(Unauthenticated, s.code, FALSE)
  <2>1. ToApiError(s) = ApiError("Unauthenticated", t)
    BY <1>2 DEF ToApiError
  <2>2. /\ t.status = Unauthenticated /\ t.code = s.code
        /\ t = Status(Unauthenticated, s.code, FALSE)
        /\ WireError(ApiError("Unauthenticated", t)) = t
    BY DEF Status, WireError, ApiError
  <2> HIDE DEF t
  <2>3. t.status # Unknown
    BY <2>2, Numbers
  <2>4. ToApiError(t) = ApiError("Unauthenticated", t)
    BY <2>2, <2>3 DEF ToApiError
  <2> QED
    BY <2>1, <2>2, <2>4
<1>3. CASE ~Lost /\ ~Missing /\ Rejected
  <2> DEFINE t == Status(PermissionDenied, s.code, FALSE)
  <2>1. ToApiError(s) = ApiError("PermissionDenied", t)
    BY <1>3 DEF ToApiError
  <2>2. /\ t.status = PermissionDenied /\ t.code = s.code
        /\ t = Status(PermissionDenied, s.code, FALSE)
        /\ WireError(ApiError("PermissionDenied", t)) = t
    BY DEF Status, WireError, ApiError
  <2> HIDE DEF t
  <2>3. t.status # Unknown /\ t.status # Unauthenticated /\ t.code # MISSING_CREDENTIALS
    BY <1>3, <2>2, Numbers
  <2>4. ToApiError(t) = ApiError("PermissionDenied", t)
    BY <2>2, <2>3 DEF ToApiError
  <2> QED
    BY <2>1, <2>2, <2>4
<1>4. CASE ~Lost /\ ~Missing /\ ~Rejected /\ Bad
  <2> DEFINE t == Status(InvalidArgument, s.code, s.cut)
  <2>1. ToApiError(s) = ApiError("BadRequest", t)
    BY <1>4 DEF ToApiError
  <2>2. /\ t.status = InvalidArgument /\ t.code = s.code
        /\ t = Status(InvalidArgument, t.code, t.cut)
        /\ WireError(ApiError("BadRequest", t)) = t
    BY WireOf
  <2> HIDE DEF t
  <2>3. /\ t.status # Unknown /\ t.status # Unauthenticated /\ t.status # PermissionDenied
        /\ t.code = BAD_REQUEST
        /\ t.code # MISSING_CREDENTIALS /\ t.code # REJECTED_CREDENTIALS
    BY <1>4, <2>2, Numbers
  <2>4. ToApiError(t) = ApiError("BadRequest", t)
    BY <2>2, <2>3 DEF ToApiError
  <2> QED
    BY <2>1, <2>2, <2>4
<1>5. CASE ~Lost /\ ~Missing /\ ~Rejected /\ ~Bad
  <2>1. ToApiError(s) = ApiError("Backend", s)
    BY <1>5 DEF ToApiError
  <2>2. s = Status(s.status, s.code, s.cut)
    BY DEF Statuses, Status
  <2>3. WireError(ApiError("Backend", s)) = s
    BY <2>2, WireOf
  <2> QED
    BY <2>1, <2>3
<1> QED
  BY <1>1, <1>2, <1>3, <1>4, <1>5

\* What is kept of an error in a recording comes back from its replay as the
\* error that the live run saw (corpus.rs recorded_error, server.rs).
THEOREM ReplayKeepsErrors ==
  ASSUME NEW s \in Statuses
  PROVE  ToApiError(WireError(Replayed(RecordedError(ToApiError(s))))) =
           ToApiError(WireError(ToApiError(s)))
<1> DEFINE r == RecordedError(ToApiError(s))
<1>1. r = WireError(ToApiError(s)) /\ r = Status(r.status, r.code, r.cut)
  BY DEF RecordedError, WireError, Status
<1> HIDE DEF r
<1>2. WireError(Replayed(r)) = Status(r.status, r.code, r.cut)
  BY DEF Replayed, WireError, ApiError, Status
<1> QED
  BY <1>1, <1>2 DEF r

\* Only a cut response is the transport's.
LEMMA OnlyCutsAreTheTransports ==
  ASSUME NEW s, ToApiError(s).kind = "Transport"
  PROVE  ToApiError(s) = ToApiError(Cut)
  BY DEF ToApiError, ApiError, Cut, Status, Unknown, NoCode

\* The backend's answers are no failures.
LEMMA AnswersAreOk ==
  ASSUME NEW r
  PROVE  AnswerTo(r).ok
  BY DEF AnswerTo, Answer

\* A reply is an answer or an error; attempts are made over only for a read, only
\* when each so far was cut, and only so often.
AskInv ==
    /\ reply # None => reply.ok \/ \E s : reply = Failure(ToApiError(s))
    /\ asks \in Seq({Failure(ToApiError(Cut))})
    /\ asks # <<>> => Call.method \in Reads
    /\ Len(asks) <= READ_RETRIES

\* At the start nothing was asked.
LEMMA AskInvInit == Init => AskInv
  BY TransportAssumption DEF Init, AskInv

\* Each step, and the person at the phone, keeps it.
LEMMA AskInvStep == AskInv /\ [Next]_vars => AskInv'
<1> SUFFICES ASSUME AskInv, [Next]_vars PROVE AskInv'
  OBVIOUS
<1> USE DEF AskInv, Call
<1>1. CASE AskLive
  <2>1. reply'.ok \/ \E s : reply' = Failure(ToApiError(s))
    BY <1>1, AnswersAreOk DEF AskLive
  <2> QED
    BY <1>1, <2>1 DEF AskLive
<1>2. CASE AskReplay
  <2>1. reply'.ok \/ \E s : reply' = Failure(ToApiError(s))
    BY <1>2 DEF AskReplay
  <2> QED
    BY <1>2, <2>1 DEF AskReplay
<1>3. CASE Retry
  <2>1. reply = Failure(ToApiError(Cut))
    <3>1. PICK s : reply = Failure(ToApiError(s))
      BY <1>3 DEF Retry, Retried, IsCut
    <3>2. ToApiError(s).kind = "Transport"
      BY <1>3, <3>1 DEF Retry, Retried, IsCut, Failure
    <3> QED
      BY <3>1, <3>2, OnlyCutsAreTheTransports
  <2>2. asks' \in Seq({Failure(ToApiError(Cut))}) /\ Len(asks') = Len(asks) + 1
    BY <1>3, <2>1 DEF Retry
  <2>3. Len(asks') <= READ_RETRIES
    BY <1>3, <2>2, TransportAssumption DEF Retry, Retried
  <2> QED
    BY <1>3, <2>2, <2>3 DEF Retry, Retried
<1>4. CASE PollAgain
  BY <1>4, TransportAssumption DEF PollAgain
<1>5. CASE NextCall
  BY <1>5, TransportAssumption DEF NextCall
<1>6. CASE EndStep
  BY <1>6, TransportAssumption DEF EndStep
<1>7. CASE Approve
  BY <1>7 DEF Approve
<1>8. CASE UNCHANGED vars
  BY <1>8 DEF vars
<1> QED
  BY <1>1, <1>2, <1>3, <1>4, <1>5, <1>6, <1>7, <1>8 DEF Next, RunStep

\* A spent challenge is not answered twice and a token not rotated twice, in any
\* program against any backend; a refusal is never asked over, and a read not for
\* ever (domain.rs retrying_read).
THEOREM OnlyDropsAreRetried == Spec => []RetriesOnlyDrops
<1>1. AskInv => RetriesOnlyDrops
  <2> SUFFICES ASSUME AskInv, asks # <<>>
               PROVE  /\ Call.method \notin Mutating /\ Len(asks) <= READ_RETRIES
                      /\ \A i \in DOMAIN asks : asks[i].error = ToApiError(Cut)
    BY DEF RetriesOnlyDrops
  <2>1. Call.method \notin Mutating /\ Len(asks) <= READ_RETRIES
    BY TransportAssumption DEF AskInv
  <2>2. \A i \in DOMAIN asks : asks[i] = Failure(ToApiError(Cut))
    BY DEF AskInv
  <2> QED
    BY <2>1, <2>2 DEF Failure
<1> QED
  BY <1>1, AskInvInit, AskInvStep, PTL DEF Spec

-----------------------------------------------------------------------------
(* That a replay ends its steps as the live run did.  Of an attempt it matters *)
(* what turn it was, which call, poll and try of its step; what was seen of    *)
(* its reply says whether there is a next turn and which.                      *)

\* A scenario is a sequence of steps that are sequences of calls, none empty.
LEMMA ProgramIs ==
  /\ Len(Program) \in Nat /\ Len(Program) >= 1 /\ DOMAIN Program = 1..Len(Program)
  /\ \A s \in DOMAIN Program :
        /\ Len(Program[s]) \in Nat /\ Len(Program[s]) >= 1
        /\ DOMAIN Program[s] = 1..Len(Program[s])
        /\ \A i \in DOMAIN Program[s] : Program[s][i] \in Calls
<1>1. Program \in Seq(Seq(Calls) \ {<<>>}) /\ Program # <<>>
  BY ProgramAssumption
<1>2. \A s \in DOMAIN Program : Program[s] \in Seq(Calls) /\ Program[s] # <<>>
  BY <1>1
<1>3. Len(Program) \in Nat /\ Len(Program) >= 1 /\ DOMAIN Program = 1..Len(Program)
  BY <1>1
<1>4. ASSUME NEW s \in DOMAIN Program
      PROVE  /\ Len(Program[s]) \in Nat /\ Len(Program[s]) >= 1
             /\ DOMAIN Program[s] = 1..Len(Program[s])
             /\ \A i \in DOMAIN Program[s] : Program[s][i] \in Calls
  <2> DEFINE q == Program[s]
  <2>1. q \in Seq(Calls) /\ q # <<>>
    BY <1>2
  <2> HIDE DEF q
  <2>2. Len(q) \in Nat /\ Len(q) >= 1 /\ DOMAIN q = 1..Len(q) /\ \A i \in DOMAIN q : q[i] \in Calls
    BY <2>1
  <2> QED BY <2>2 DEF q
<1> QED BY <1>3, <1>4

\* What the binary's client makes of a record.
Seen(came) ==
    IF came.ok THEN came ELSE Failure(ToApiError(WireError(Replayed(came.error))))

Replies == Answers \cup Failures

\* The two differ at most in a token.
Alike(a, b) == a.ok = b.ok /\ (a.ok => a.what = b.what) /\ (~a.ok => a.error = b.error)

\* A turn of a step, and what a reply makes of it: the cases of Retry, PollAgain,
\* NextCall and EndStep.
Turn(a, p, n) == [at |-> a, polls |-> p, tries |-> n]
CutBy(r) == ~r.ok /\ r.error.kind = "Transport"
LockedAt(s, t, r) == r.ok /\ Program[s][t.at].polled /\ r.what = "locked"
RetriedAt(s, t, r) ==
    Program[s][t.at].method \in Reads /\ CutBy(r) /\ t.tries < READ_RETRIES
PolledAt(s, t, r) == LockedAt(s, t, r) /\ t.polls < MaxPolls
GoesOn(s, t, r) == r.ok /\ ~LockedAt(s, t, r) /\ t.at < Len(Program[s])
StopsAt(s, t, r) ==
    /\ ~RetriedAt(s, t, r) /\ ~PolledAt(s, t, r)
    /\ ~r.ok \/ LockedAt(s, t, r) \/ t.at = Len(Program[s])
VerdictOf(r) == IF r.ok THEN r.what ELSE <<r.error.kind, r.error.code>>

\* The turn after t, on the reply r.
Follows(s, t, r, next) ==
    \/ RetriedAt(s, t, r) /\ next = Turn(t.at, t.polls, t.tries + 1)
    \/ PolledAt(s, t, r) /\ next = Turn(t.at, t.polls + 1, 0)
    \/ GoesOn(s, t, r) /\ next = Turn(t.at + 1, 0, 0)

IsTurn(s, t) == t.at \in DOMAIN Program[s] /\ t.polls \in Nat /\ t.tries \in Nat

\* The records R of step s were made on its turns T, of which there are m.
Told(s, R, T, m) ==
    /\ \E V : R \in Seq(V)
    /\ T[1] = Turn(1, 0, 0)
    /\ \A i \in 1..m : IsTurn(s, T[i])
    /\ \A i \in 1..Len(R) : /\ R[i] = Record(Program[s][T[i].at], R[i].reply)
                            /\ Seen(R[i].reply) \in Replies
    /\ \A i \in 1..Len(R) : i < m => Follows(s, T[i], Seen(R[i].reply), T[i + 1])

\* They are all that the step made.
Finished(s, R, T) ==
    /\ Told(s, R, T, Len(R)) /\ Len(R) >= 1
    /\ StopsAt(s, T[Len(R)], Seen(R[Len(R)].reply))

\* e numbers the records that are kept of R.
Numbered(e, R, W) ==
    /\ Len(W) \in Nat /\ DOMAIN W = 1..Len(W) /\ Len(W) >= 1
    /\ \A u \in 1..Len(W) :
          e[u] \in 1..Len(R) /\ ~Collapsed(R, e[u]) /\ W[u] = Scrub(R[e[u]])
    /\ e[1] = 1 /\ e[Len(W)] = Len(R)
    /\ \A u \in 1..Len(W) : u < Len(W) =>
          /\ e[u] < e[u + 1]
          /\ \A i \in 1..Len(R) : e[u] < i /\ i < e[u + 1] => Collapsed(R, i)

\* A reply that may come is an answer or a failure.
LEMMA RepliesAre ==
  ASSUME NEW r \in Replies
  PROVE  /\ r.ok \in BOOLEAN
         /\ r.ok => r \in Answers /\ r = [ok |-> TRUE, what |-> r.what, token |-> r.token]
         /\ ~r.ok => r \in Failures
         /\ r # None
<1>1. CASE r \in Answers
  BY <1>1, NoneAssumption DEF Answers, Answered
<1>2. CASE r \in Failures
  BY <1>2, NoneAssumption DEF Failures
<1> QED BY <1>1, <1>2 DEF Replies

\* What is written of a record: the address and the token are another's.
LEMMA ScrubbedIs ==
  ASSUME NEW c, NEW came, Seen(came) \in Replies
  PROVE  LET w == Scrub(Record(c, came))
         IN  /\ w.method = c.method
             /\ c.request # "email" => w.request = c.request
             /\ w.request # "email"
             /\ Seen(w.reply) \in Replies /\ Alike(Seen(w.reply), Seen(came))
<1> DEFINE w == Scrub(Record(c, came))
           scrubbed == IF came.ok /\ came.token # None THEN [came EXCEPT !.token = 0] ELSE came
<1>1. w = [method |-> c.method,
           request |-> IF c.request = "email" THEN "fixture email" ELSE c.request,
           reply |-> scrubbed]
  <2> DEFINE b == Record(c, came)
  <2>1. b = [method |-> c.method, request |-> c.request, reply |-> came]
    BY DEF Record
  <2>2. w = [b EXCEPT !.request = IF @ = "email" THEN "fixture email" ELSE @,
                      !.reply = IF @.ok /\ @.token # None THEN [@ EXCEPT !.token = 0] ELSE @]
    BY DEF Scrub
  <2> HIDE DEF b, w
  <2>3. w = [b EXCEPT !.request = IF b.request = "email" THEN "fixture email" ELSE b.request,
                      !.reply = IF b.reply.ok /\ b.reply.token # None
                                THEN [b.reply EXCEPT !.token = 0] ELSE b.reply]
    BY <2>1, <2>2
  <2>4. b.reply = came /\ b.request = c.request
    BY <2>1
  <2>5. w = [b EXCEPT !.request = IF c.request = "email" THEN "fixture email" ELSE c.request,
                      !.reply = scrubbed]
    BY <2>3, <2>4
  <2> HIDE DEF scrubbed
  <2> QED BY <2>1, <2>5
<1> HIDE DEF w
<1>2. w.request # "email"
  BY <1>1
<1>3. Seen(scrubbed) \in Replies /\ Alike(Seen(scrubbed), Seen(came))
  <2>1. CASE came.ok /\ came.token # None
    <3>1. Seen(came) = came /\ came \in Answers
      BY <2>1, RepliesAre DEF Seen
    <3>2. scrubbed = [came EXCEPT !.token = 0]
      BY <2>1
    <3>3. scrubbed \in Answers /\ scrubbed.ok /\ scrubbed.what = came.what
      BY <3>1, <3>2 DEF Answers, Answered
    <3> QED BY <3>1, <3>3, <2>1 DEF Seen, Alike, Replies, Answers, Answered
  <2>2. CASE ~(came.ok /\ came.token # None)
    BY <2>2 DEF Alike
  <2> QED BY <2>1, <2>2
<1> HIDE DEF scrubbed
<1>4. w.method = c.method /\ w.reply = scrubbed /\ (c.request # "email" => w.request = c.request)
  BY <1>1
<1> QED BY <1>2, <1>3, <1>4 DEF w

\* What is alike is taken alike.
LEMMA AlikeDecides ==
  ASSUME NEW a \in Replies, NEW b \in Replies, Alike(a, b), NEW s, NEW t
  PROVE  /\ CutBy(a) <=> CutBy(b)
         /\ LockedAt(s, t, a) <=> LockedAt(s, t, b)
         /\ RetriedAt(s, t, a) <=> RetriedAt(s, t, b)
         /\ PolledAt(s, t, a) <=> PolledAt(s, t, b)
         /\ GoesOn(s, t, a) <=> GoesOn(s, t, b)
         /\ StopsAt(s, t, a) <=> StopsAt(s, t, b)
         /\ VerdictOf(a) = VerdictOf(b)
<1>1. a.ok \in BOOLEAN /\ b.ok \in BOOLEAN /\ a.ok = b.ok
  BY RepliesAre DEF Alike
<1>2. CutBy(a) <=> CutBy(b)
  BY <1>1 DEF Alike, CutBy
<1>3. LockedAt(s, t, a) <=> LockedAt(s, t, b)
  BY <1>1 DEF Alike, LockedAt
<1>4. VerdictOf(a) = VerdictOf(b)
  BY <1>1 DEF Alike, VerdictOf
<1> QED BY <1>1, <1>2, <1>3, <1>4 DEF RetriedAt, PolledAt, GoesOn, StopsAt

\* The turns that follow are turns.
LEMMA FollowsIsTurn ==
  ASSUME NEW s \in DOMAIN Program, NEW t, IsTurn(s, t), NEW r, NEW q, Follows(s, t, r, q)
  PROVE  IsTurn(s, q)
<1>1. DOMAIN Program[s] = 1..Len(Program[s]) /\ Len(Program[s]) \in Nat
  BY ProgramIs
<1>2. CASE RetriedAt(s, t, r) /\ q = Turn(t.at, t.polls, t.tries + 1)
  BY <1>2 DEF IsTurn, Turn
<1>3. CASE PolledAt(s, t, r) /\ q = Turn(t.at, t.polls + 1, 0)
  BY <1>3 DEF IsTurn, Turn
<1>4. CASE GoesOn(s, t, r) /\ q = Turn(t.at + 1, 0, 0)
  BY <1>1, <1>4 DEF IsTurn, Turn, GoesOn
<1> QED BY <1>2, <1>3, <1>4 DEF Follows

\* The first record and the last are written, and all between but the collapsed,
\* in the order that they were made in.
LEMMA WrittenIs ==
  ASSUME NEW R, Len(R) \in Nat, DOMAIN R = 1..Len(R), Len(R) >= 1
  PROVE  \E e : Numbered(e, R, Written(R))
<1> DEFINE n == Len(R)
           ids == [i \in DOMAIN R |-> i]
           K == {i \in DOMAIN R : ~Collapsed(R, i)}
           count(i) == Cardinality(Places(ids, K, i))
           place(k) == CHOOSE i \in DOMAIN ids : ids[i] \in K /\ count(i) = k
           ends == Pick(ids, K)
           W == Written(R)
<1>1. n \in Nat /\ n >= 1 /\ DOMAIN ids = 1..n /\ \A i \in 1..n : ids[i] = i
  OBVIOUS
<1>2. Len(ids) = n
  <2>1. ids \in Seq(Nat)
    BY <1>1
  <2> QED BY <2>1, <1>1
<1>3. \A i : i \in K <=> i \in 1..n /\ ~Collapsed(R, i)
  OBVIOUS
<1>4. 1 \in K /\ n \in K
  <2>1. StartsRun(R, 1) /\ EndsRun(R, n)
    BY DEF StartsRun, EndsRun
  <2> QED BY <1>1, <1>3, <2>1 DEF Collapsed
<1>5. ends = [k \in 1..count(n) |-> ids[place(k)]]
  BY <1>2 DEF Pick, Places
<1>6. \A i \in Nat : count(i) \in Nat
  BY PlacesCount
<1>7. W = [k \in DOMAIN ends |-> Scrub(R[ends[k]])]
  BY DEF Written
<1> HIDE DEF W
<1>8. ASSUME NEW k \in 1..count(n)
      PROVE  place(k) \in 1..n /\ place(k) \in K /\ count(place(k)) = k
  <2> HIDE DEF ids, K
  <2>0. n \in Nat
    BY <1>1
  <2>1. \E i \in 1..n : ids[i] \in K /\ count(i) = k
    BY <2>0, PlaceExists
  <2> HIDE DEF count
  <2> QED BY <1>1, <2>1
<1>9. \A i, j \in 0..n : i < j /\ j \in K => count(i) < count(j)
  <2> SUFFICES ASSUME NEW i \in 0..n, NEW j \in 0..n, i < j, j \in K PROVE count(i) < count(j)
    OBVIOUS
  <2>1. i \in Nat /\ j \in Nat /\ ids[j] \in K
    BY <1>1
  <2> QED BY <2>1, PlacesGrow
<1>10. count(0) = 0 /\ count(1) = 1 /\ count(n) >= 1
  <2>1. count(0) = 0 /\ count(0 + 1) = IF ids[0 + 1] \in K THEN count(0) + 1 ELSE count(0)
    <3> HIDE DEF ids, K
    <3> QED BY PlacesCount
  <2>2. 0 + 1 = 1 /\ ids[1] = 1
    BY <1>1
  <2>3. count(0) < count(n)
    BY <1>1, <1>4, <1>9
  <2>4. count(n) \in Nat
    BY <1>1, <1>6
  <2> HIDE DEF count, ids, K
  <2> QED BY <1>4, <2>1, <2>2, <2>3, <2>4
<1> DEFINE e == [k \in 1..count(n) |-> place(k)]
           m == count(n)
<1> HIDE DEF count, ids, K, place
<1>11. \A k \in 1..m : e[k] \in 1..n /\ e[k] \in K /\ count(e[k]) = k
  BY <1>8
<1>12. m \in Nat /\ m >= 1
  BY <1>1, <1>6, <1>10
<1>13. DOMAIN W = 1..m /\ \A k \in 1..m : W[k] = Scrub(R[e[k]])
  BY <1>1, <1>5, <1>7, <1>8
<1>14. Len(W) = m
  <2>1. W = [k \in 1..m |-> W[k]]
    BY <1>5, <1>7, <1>13
  <2> HIDE DEF m
  <2> QED BY <1>12, <1>13, <2>1
<1> HIDE DEF e, m
<1>15. e[1] = 1
  <2>1. e[1] \in 1..n /\ count(e[1]) = 1
    BY <1>11, <1>12
  <2>2. ~(1 < e[1])
    <3>1. 1 < e[1] => count(1) < count(e[1])
      BY <1>1, <1>9, <1>11, <1>12
    <3> QED BY <3>1, <2>1, <1>10
  <2> QED BY <1>1, <2>1, <2>2
<1>16. e[m] = n
  <2>1. e[m] \in 1..n /\ count(e[m]) = m
    BY <1>11, <1>12
  <2>2. e[m] < n => count(e[m]) < count(n)
    BY <1>1, <1>4, <1>9, <2>1
  <2>3. ~(e[m] < n)
    BY <2>1, <2>2, <1>12 DEF m
  <2> QED BY <1>1, <2>1, <2>3
<1>17. ASSUME NEW u \in 1..m, u < m
       PROVE  /\ e[u] < e[u + 1]
              /\ \A i \in 1..n : e[u] < i /\ i < e[u + 1] => Collapsed(R, i)
  <2>1. u \in Nat /\ u + 1 \in 1..m
    BY <1>12, <1>17
  <2>2. /\ e[u] \in 1..n /\ e[u] \in K /\ count(e[u]) = u
        /\ e[u + 1] \in 1..n /\ e[u + 1] \in K /\ count(e[u + 1]) = u + 1
    BY <1>11, <2>1
  <2>3. ~(e[u + 1] < e[u])
    <3>1. e[u + 1] < e[u] => count(e[u + 1]) < count(e[u])
      BY <1>1, <1>9, <2>2
    <3> QED BY <2>1, <2>2, <3>1
  <2>4. e[u + 1] # e[u]
    BY <2>1, <2>2
  <2>5. ASSUME NEW i \in 1..n, e[u] < i, i < e[u + 1], i \in K
        PROVE  FALSE
    <3>1. count(e[u]) < count(i) /\ count(i) < count(e[u + 1])
      BY <1>1, <1>9, <2>2, <2>5
    <3>2. count(i) \in Nat
      BY <1>1, <1>6
    <3> QED BY <2>1, <2>2, <3>1, <3>2
  <2> QED BY <1>1, <1>3, <2>2, <2>3, <2>4, <2>5
<1>18. \A u \in 1..m : ~Collapsed(R, e[u])
  BY <1>3, <1>11
<1> HIDE DEF n
<1>19. Numbered(e, R, W)
  BY <1>11, <1>12, <1>13, <1>14, <1>15, <1>16, <1>17, <1>18 DEF Numbered, n
<1> QED BY <1>19 DEF W

\* The attempt i is the last of its call.
EndsCall(R, T, i) == i = Len(R) \/ T[i + 1].at = T[i].at + 1

\* An attempt is of the call before it or of the next one, and of a declared
\* method only the former are in a run.
LEMMA RunsAreCalls ==
  ASSUME NEW s \in DOMAIN Program, NEW R, NEW T, Told(s, R, T, Len(R)),
         NEW i \in 1..Len(R), i < Len(R)
  PROVE  /\ Len(R) \in Nat /\ i + 1 \in 1..Len(R)
         /\ IsTurn(s, T[i]) /\ IsTurn(s, T[i + 1])
         /\ Follows(s, T[i], Seen(R[i].reply), T[i + 1])
         /\ T[i + 1].at = T[i].at \/ T[i + 1].at = T[i].at + 1
         /\ T[i + 1].at = T[i].at => R[i + 1].method = R[i].method
         /\ T[i + 1].at = T[i].at + 1 /\ R[i + 1].method \in Declared =>
               R[i + 1].method # R[i].method
<1>1. Len(R) \in Nat
  <2>1. PICK V : R \in Seq(V)
    BY DEF Told
  <2> QED BY <2>1
<1>2. i + 1 \in 1..Len(R) /\ i \in Nat
  BY <1>1
<1>3. IsTurn(s, T[i]) /\ IsTurn(s, T[i + 1]) /\ Follows(s, T[i], Seen(R[i].reply), T[i + 1])
  BY <1>1, <1>2 DEF Told
<1>4. T[i + 1].at = T[i].at \/ T[i + 1].at = T[i].at + 1
  BY <1>3 DEF Follows, Turn
<1>5. R[i].method = Program[s][T[i].at].method /\ R[i + 1].method = Program[s][T[i + 1].at].method
  <2>1. \A k \in 1..Len(R) : R[k] = Record(Program[s][T[k].at], R[k].reply)
    BY DEF Told
  <2>2. \A c, came : Record(c, came).method = c.method
    BY DEF Record
  <2>3. R[i] = Record(Program[s][T[i].at], R[i].reply)
    BY <2>1
  <2>4. R[i + 1] = Record(Program[s][T[i + 1].at], R[i + 1].reply)
    BY <1>2, <2>1
  <2> QED BY <2>2, <2>3, <2>4
<1>6. T[i + 1].at = T[i].at + 1 /\ R[i + 1].method \in Declared =>
         R[i + 1].method # R[i].method
  BY <1>3, <1>5, DeclaredAssumption DEF IsTurn
<1> QED BY <1>1, <1>2, <1>3, <1>4, <1>5, <1>6

\* After a kept record that ends its call the next one is kept.  After one that
\* does not, the next is kept, or else the last of the call.
LEMMA KeptNeighbours ==
  ASSUME NEW s \in DOMAIN Program, NEW R, NEW T, Finished(s, R, T),
         NEW e, NEW W, Numbered(e, R, W), NEW u \in 1..Len(W), u < Len(W)
  PROVE  LET i == e[u]
             j == e[u + 1]
         IN  /\ i \in 1..Len(R) /\ i < Len(R) /\ j \in 1..Len(R)
             /\ T[i + 1].at = T[i].at + 1 => j = i + 1
             /\ T[i + 1].at = T[i].at =>
                   j = i + 1 \/ (T[j].at = T[i].at /\ EndsCall(R, T, j))
<1> DEFINE i == e[u]
           j == e[u + 1]
           n == Len(R)
<1>1. /\ Len(W) \in Nat /\ u \in Nat /\ u + 1 \in 1..Len(W)
      /\ i \in 1..n /\ j \in 1..n /\ i < j /\ ~Collapsed(R, i) /\ ~Collapsed(R, j)
      /\ \A k \in 1..n : i < k /\ k < j => Collapsed(R, k)
  <2>1. Len(W) \in Nat /\ u \in Nat /\ u + 1 \in 1..Len(W)
    BY DEF Numbered
  <2> QED BY <2>1 DEF Numbered
<1>2. Told(s, R, T, n)
  BY DEF Finished
<1>3. n \in Nat
  <2>1. PICK V : R \in Seq(V)
    BY <1>2 DEF Told
  <2> QED BY <2>1
<1>4. i < n /\ i + 1 \in 1..n
  BY <1>1, <1>3
<1> HIDE DEF i, j
<1>5. \A k \in 1..n : k < n =>
         /\ T[k + 1].at = T[k].at \/ T[k + 1].at = T[k].at + 1
         /\ T[k + 1].at = T[k].at => R[k + 1].method = R[k].method
         /\ T[k + 1].at = T[k].at + 1 /\ R[k + 1].method \in Declared =>
               R[k + 1].method # R[k].method
  BY <1>2, RunsAreCalls
<1>6. ASSUME j # i + 1
      PROVE  /\ R[i + 1].method \in Declared /\ R[i + 1].method = R[i].method
             /\ T[j].at = T[i + 1].at /\ EndsCall(R, T, j)
  <2> DEFINE M == R[i + 1].method
             S == {k \in Nat : i + 1 + k <= j =>
                      R[i + 1 + k].method = M /\ T[i + 1 + k].at = T[i + 1].at}
  <2>1. \A k \in 1..n : i < k /\ k < j =>
           /\ R[k].method \in Declared /\ R[k - 1].method = R[k].method
           /\ R[k + 1].method = R[k].method
    <3> SUFFICES ASSUME NEW k \in 1..n, i < k, k < j
                 PROVE  /\ R[k].method \in Declared /\ R[k - 1].method = R[k].method
                        /\ R[k + 1].method = R[k].method
      OBVIOUS
    <3>1. Collapsed(R, k)
      BY <1>1
    <3> QED BY <3>1 DEF Collapsed, StartsRun, EndsRun
  <2>2. i + 1 < j
    BY <1>1, <1>3, <1>6
  <2>3. M \in Declared /\ R[i].method = M
    <3>1. (i + 1) - 1 = i
      BY <1>1
    <3> QED BY <1>4, <1>1, <2>1, <2>2, <3>1
  <2>4. 0 \in S
    <3>1. i + 1 + 0 = i + 1
      BY <1>1
    <3> QED BY <3>1
  <2>5. ASSUME NEW k \in Nat, k \in S
        PROVE  k + 1 \in S
    <3> DEFINE p == i + 1 + k
    <3>1. i + 1 + (k + 1) = p + 1 /\ p \in Nat /\ i < p
      BY <1>1
    <3>2. CASE p + 1 <= j
      <4>1. p \in 1..n /\ p < n /\ p < j
        BY <1>1, <1>3, <3>1, <3>2
      <4>2. R[p].method = M /\ T[p].at = T[i + 1].at
        <5>1. i + 1 + k <= j
          BY <1>1, <1>3, <4>1
        <5> HIDE DEF M
        <5> QED BY <2>5, <5>1
      <4> HIDE DEF p
      <4>3. R[p + 1].method = M
        BY <2>1, <3>1, <4>1, <4>2
      <4>4. T[p + 1].at = T[p].at
        BY <1>5, <2>3, <4>1, <4>2, <4>3
      <4>5. R[i + 1 + (k + 1)].method = M /\ T[i + 1 + (k + 1)].at = T[i + 1].at
        BY <3>1, <4>2, <4>3, <4>4
      <4> QED BY <4>5
    <3>3. CASE ~(p + 1 <= j)
      <4>1. ~(i + 1 + (k + 1) <= j)
        BY <3>1, <3>3
      <4> QED BY <4>1
    <3> QED BY <3>2, <3>3
  <2> HIDE DEF S
  <2>6. Nat \subseteq S
    BY <2>4, <2>5, Induction
  <2>7. \A p \in 1..n : i < p /\ p <= j => R[p].method = M /\ T[p].at = T[i + 1].at
    <3> SUFFICES ASSUME NEW p \in 1..n, i < p, p <= j
                 PROVE  R[p].method = M /\ T[p].at = T[i + 1].at
      OBVIOUS
    <3>1. p - i - 1 \in Nat /\ i + 1 + (p - i - 1) = p
      BY <1>1
    <3>2. p - i - 1 \in S
      BY <2>6, <3>1
    <3> HIDE DEF M
    <3> QED BY <3>1, <3>2 DEF S
  <2>8. R[j].method = M /\ T[j].at = T[i + 1].at /\ R[j - 1].method = M
    <3>1. j - 1 \in 1..n /\ i < j - 1 /\ j - 1 <= j /\ j \in 1..n /\ i < j /\ j <= j
      BY <1>1, <1>3, <2>2
    <3> HIDE DEF M
    <3> QED BY <2>7, <3>1
  <2>9. EndsRun(R, j)
    <3>1. ~StartsRun(R, j)
      BY <1>1, <2>2, <2>8 DEF StartsRun
    <3> QED BY <1>1, <2>3, <2>8, <3>1 DEF Collapsed
  <2>10. EndsCall(R, T, j)
    <3>1. CASE j = n
      BY <3>1 DEF EndsCall
    <3>2. CASE j # n
      <4>1. R[j + 1].method # R[j].method
        BY <2>9, <3>2 DEF EndsRun
      <4>2. j < n
        BY <1>1, <1>3, <3>2
      <4>3. T[j + 1].at = T[j].at + 1
        BY <1>1, <1>5, <4>1, <4>2
      <4> QED BY <4>3 DEF EndsCall
    <3> QED BY <3>1, <3>2
  <2> QED BY <2>3, <2>8, <2>10
<1>7. T[i + 1].at = T[i].at + 1 => j = i + 1
  <2> SUFFICES ASSUME T[i + 1].at = T[i].at + 1, j # i + 1 PROVE FALSE
    OBVIOUS
  <2> QED BY <1>1, <1>4, <1>5, <1>6
<1>8. T[i + 1].at = T[i].at => j = i + 1 \/ (T[j].at = T[i].at /\ EndsCall(R, T, j))
  BY <1>6
<1> QED BY <1>1, <1>4, <1>7, <1>8 DEF i, j

\* The turn that the run is at.
ThisTurn == Turn(at, polls, Len(asks))

\* What the variables hold at any rate.
Shape ==
    /\ side \in {"live", "replay", "done"}
    /\ step \in DOMAIN Program /\ at \in DOMAIN Program[step]
    /\ polls \in Nat /\ drops \in Nat /\ valid \in Nat
    /\ DOMAIN kept = DOMAIN Program /\ DOMAIN ended = {"live", "replay"}
    /\ AskInv

\* Step s was made live as R and T tell.
PlayedAs(s, R, T) ==
    /\ Finished(s, R, T)
    /\ kept[s] = Written(R)
    /\ ended.live[s] = VerdictOf(Seen(R[Len(R)].reply))
    /\ \A i \in 1..Len(R) : CutBy(Seen(R[i].reply)) => drops > 0

\* The step is being made live, on the turns T.
Playing(T) ==
    LET R == kept[step]
        m == IF reply = None THEN Len(R) + 1 ELSE Len(R)
    IN  /\ Told(step, R, T, m) /\ T[m] = ThisTurn
        /\ reply # None => Len(R) >= 1 /\ reply = Seen(R[Len(R)].reply)
        /\ \A i \in 1..Len(R) : CutBy(Seen(R[i].reply)) => drops > 0

LiveInv ==
    side = "live" =>
        /\ ~unmatched /\ ended.replay = <<>>
        /\ (\E V : ended.live \in Seq(V)) /\ Len(ended.live) = step - 1
        /\ \A s \in DOMAIN Program : s < step => \E R, T : PlayedAs(s, R, T)
        /\ \A s \in DOMAIN Program : s > step => kept[s] = <<>>
        /\ \E T : Playing(T)

\* From the end of the live run on.
PastInv ==
    side # "live" =>
        /\ (\E V : ended.live \in Seq(V)) /\ Len(ended.live) = Len(Program)
        /\ \A s \in DOMAIN Program : \E R, T : PlayedAs(s, R, T)

\* The replay is at the turn that it was live, or at the last of the call.
Beside(R, T, i) ==
    at = T[i].at /\ (ThisTurn = T[i] \/ EndsCall(R, T, i))

\* It has used up u of the records that were kept, in the order they were made.
Replaying(R, T, e, u) ==
    /\ Numbered(e, R, kept[step]) /\ u \in 0..Len(kept[step]) /\ used = 1..u
    /\ reply # None =>
          /\ u >= 1 /\ reply \in Replies /\ Alike(reply, Seen(R[e[u]].reply))
          /\ Beside(R, T, e[u])
    /\ reply = None /\ u < Len(kept[step]) => Beside(R, T, e[u + 1])
    /\ reply = None /\ u = Len(kept[step]) =>
          \/ CutBy(Seen(R[Len(R)].reply))
          \/ LockedAt(step, T[Len(R)], Seen(R[Len(R)].reply))

ReplayInv ==
    side = "replay" /\ ~unmatched =>
        /\ (\E V : ended.replay \in Seq(V)) /\ Len(ended.replay) = step - 1
        /\ \A s \in 1..step - 1 : ended.replay[s] = ended.live[s]
        /\ \E R, T, e, u : PlayedAs(step, R, T) /\ Replaying(R, T, e, u)

DoneInv ==
    side = "done" =>
        /\ reply = None
        /\ ~unmatched => \A s \in DOMAIN ended.replay : ended.replay[s] = ended.live[s]

ShortInv == CleanReplayIsComplete /\ (side = "live" => ~unmatched)

ReplaysInv == Shape /\ LiveInv /\ PastInv /\ ReplayInv /\ DoneInv /\ ShortInv

\* Of a step that was not begun nothing is told but its first turn.
LEMMA NothingTold ==
  ASSUME NEW s \in DOMAIN Program
  PROVE  \E T : Told(s, <<>>, T, 1) /\ T[1] = Turn(1, 0, 0)
<1> DEFINE T == [i \in {1} |-> Turn(1, 0, 0)]
<1>1. T[1] = Turn(1, 0, 0) /\ IsTurn(s, T[1])
  BY ProgramIs DEF IsTurn, Turn
<1>2. <<>> \in Seq({}) /\ Len(<<>>) = 0 /\ \A i \in 1..1 : i = 1
  OBVIOUS
<1> HIDE DEF T
<1>3. Told(s, <<>>, T, 1)
  BY <1>1, <1>2 DEF Told
<1> QED BY <1>1, <1>3

\* It holds at the start, of a step not yet begun.
LEMMA ReplaysInvInit == Init => ReplaysInv
<1> SUFFICES ASSUME Init PROVE ReplaysInv
  OBVIOUS
<1> USE DEF Init
<1>1. Shape
  <2>1. AskInv
    BY AskInvInit
  <2>2. 1 \in DOMAIN Program /\ 1 \in DOMAIN Program[1]
    BY ProgramIs
  <2> QED BY <2>1, <2>2 DEF Shape
<1>2. LiveInv
  <2>1. kept[step] = <<>> /\ Len(kept[step]) = 0 /\ 1 \in DOMAIN Program
    BY ProgramIs
  <2>2. PICK T : Told(1, <<>>, T, 1) /\ T[1] = Turn(1, 0, 0)
    BY <2>1, NothingTold
  <2>3. ThisTurn = Turn(1, 0, 0)
    BY DEF ThisTurn
  <2>4. \E T0 : Playing(T0)
    BY <2>1, <2>2, <2>3 DEF Playing
  <2>6. ended.live = <<>> /\ ended.live \in Seq({}) /\ Len(ended.live) = 0 /\ ended.replay = <<>>
    OBVIOUS
  <2>7. \A s \in DOMAIN Program : ~(s < step) /\ kept[s] = <<>>
    BY ProgramIs
  <2> QED BY <2>4, <2>6, <2>7 DEF LiveInv
<1>3. PastInv /\ ReplayInv /\ DoneInv /\ ShortInv
  BY DEF PastInv, ReplayInv, DoneInv, ShortInv, CleanReplayIsComplete
<1> QED BY <1>1, <1>2, <1>3 DEF ReplaysInv

\* The shape is kept.
LEMMA ShapeStep == Shape /\ [Next]_vars => Shape'
<1> SUFFICES ASSUME Shape, [Next]_vars PROVE Shape'
  OBVIOUS
<1>1. AskInv'
  BY AskInvStep DEF Shape
<1>2. side \in {"live", "replay", "done"} /\ step \in DOMAIN Program /\ at \in DOMAIN Program[step]
      /\ polls \in Nat /\ drops \in Nat /\ valid \in Nat
      /\ DOMAIN kept = DOMAIN Program /\ DOMAIN ended = {"live", "replay"}
  BY DEF Shape
<1>3. CASE AskLive
  <2>1. \A r : AnswerTo(r).token # None => AnswerTo(r).token \in Nat
    BY <1>2 DEF AnswerTo, Answer, Rotated
  <2>2. valid' \in Nat /\ drops' \in Nat /\ DOMAIN kept' = DOMAIN kept
    BY <1>2, <1>3, <2>1 DEF AskLive
  <2> QED BY <1>1, <1>2, <1>3, <2>2 DEF AskLive, Shape
<1>4. CASE AskReplay
  BY <1>1, <1>2, <1>4 DEF AskReplay, Shape
<1>5. CASE Retry
  BY <1>1, <1>2, <1>5 DEF Retry, Shape
<1>6. CASE PollAgain
  BY <1>1, <1>2, <1>6 DEF PollAgain, Shape
<1>7. CASE NextCall
  <2>1. at + 1 \in DOMAIN Program[step]
    BY <1>2, <1>7, ProgramIs DEF NextCall
  <2> QED BY <1>1, <1>2, <1>7, <2>1 DEF NextCall, Shape
<1>8. CASE EndStep
  <2>1. step' \in DOMAIN Program /\ side' \in {"live", "replay", "done"}
    BY <1>2, <1>8, ProgramIs DEF EndStep
  <2>2. at' \in DOMAIN Program[step']
    BY <2>1, <1>8, ProgramIs DEF EndStep
  <2>3. DOMAIN kept' = DOMAIN kept /\ DOMAIN ended' = DOMAIN ended
    BY <1>8 DEF EndStep
  <2> QED BY <1>1, <1>2, <1>8, <2>1, <2>2, <2>3 DEF EndStep, Shape
<1>9. CASE Approve
  BY <1>1, <1>2, <1>9 DEF Approve, Shape
<1>10. CASE UNCHANGED vars
  BY <1>1, <1>2, <1>10 DEF vars, Shape
<1> QED
  BY <1>3, <1>4, <1>5, <1>6, <1>7, <1>8, <1>9, <1>10 DEF Next, RunStep

\* What the proxy sends on is what the client sent: its headers say who calls.
LEMMA ForwardedIs == Forwarded(Request(Call)) = Request(Call)
<1> DEFINE r == Request(Call)
           h == HeadersOf(r)
           names == {"client-type"} \cup IF r.token = None THEN {} ELSE {"authorization"}
<1>1. /\ r = [method |-> Call.method, request |-> Call.request,
              clientType |-> r.clientType, token |-> held]
      /\ r.token = held
  BY DEF Request
<1>2. /\ DOMAIN h = names
      /\ h["client-type"] = r.clientType
      /\ r.token # None => h["authorization"] = <<"backend", r.token>>
  BY DEF HeadersOf
<1> HIDE DEF h, r
<1>3. "client-type" \in DOMAIN h
  BY <1>2
<1>4. ContextFrom(h).clientType = r.clientType
  BY <1>2, <1>3 DEF ContextFrom
<1>5. ContextFrom(h).token = r.token
  BY <1>2 DEF ContextFrom
<1>6. Forwarded(r) = [r EXCEPT !.clientType = r.clientType, !.token = r.token]
  BY <1>4, <1>5 DEF Forwarded, h
<1> QED BY <1>1, <1>6 DEF r

\* What the backend answers to a call is an answer.
LEMMA AnswersAreReplies ==
  ASSUME Shape
  PROVE  AnswerTo(Forwarded(Request(Call))) \in Answers
<1> DEFINE r == Forwarded(Request(Call))
<1>1. r.method = Call.method /\ r.request = Call.request
  BY ForwardedIs DEF Request
<1>2. Call \in Calls
  BY ProgramIs DEF Shape, Call
<1>3. valid + 1 \in Nat
  BY DEF Shape
<1> HIDE DEF r
<1> DEFINE Pairs == {<<c.method, c.request>> : c \in Calls}
           Words == {"token", "granted", "locked"}
<1>4. <<r.method, r.request>> \in Pairs
  BY <1>1, <1>2
<1>5. Answers = Answered(Words) \cup Answered(Pairs)
  BY DEF Answers
<1> HIDE DEF Pairs
<1>6. \A what \in Words, t \in Nat \cup {None} : Answer(what, t) \in Answers
  BY <1>5 DEF Answer, Answered
<1>7. \A what \in Pairs, t \in Nat \cup {None} : Answer(what, t) \in Answers
  BY <1>5 DEF Answer, Answered
<1>9. Answer("token", Rotated(valid)) \in Answers
  BY <1>3, <1>6 DEF Rotated
<1>10. Answer(IF approved THEN "granted" ELSE "locked", None) \in Answers
  BY <1>6
<1>11. Answer(<<r.method, r.request>>, None) \in Answers
  BY <1>4, <1>7
<1>8. AnswerTo(r) \in Answers
  BY <1>9, <1>10, <1>11 DEF AnswerTo
<1> QED BY <1>8 DEF r

\* What becomes of a status is a failure.
LEMMA ErrorsAreReplies ==
  ASSUME NEW s \in Statuses
  PROVE  Failure(ToApiError(s)) \in Failures /\ ToApiError(s).status \in Int
         /\ ToApiError(s).code \in Int /\ ToApiError(s).cut \in BOOLEAN
<1>1. s.status \in Int /\ s.code \in Int /\ s.cut \in BOOLEAN
  BY DEF Statuses
<1>2. \A kind, n, code, cut :
         ApiError(kind, Status(n, code, cut)) =
            [kind |-> kind, status |-> n, code |-> code, cut |-> cut]
  BY DEF ApiError, Status
<1>3. ApiError("Backend", s) = [kind |-> "Backend", status |-> s.status, code |-> s.code, cut |-> s.cut]
  BY DEF ApiError
<1>4. /\ Unknown \in Int /\ NoCode \in Int /\ Unauthenticated \in Int
      /\ PermissionDenied \in Int /\ InvalidArgument \in Int
  BY Numbers DEF NoCode
<1>5. ToApiError(s) \in Errors
  <2>1. ApiError("Transport", Status(Unknown, NoCode, TRUE)) \in Errors
    BY <1>4 DEF Errors, ApiError, Status
  <2>2. ApiError("Unauthenticated", Status(Unauthenticated, s.code, FALSE)) \in Errors
    BY <1>1, <1>4 DEF Errors, ApiError, Status
  <2>3. ApiError("PermissionDenied", Status(PermissionDenied, s.code, FALSE)) \in Errors
    BY <1>1, <1>4 DEF Errors, ApiError, Status
  <2>4. ApiError("BadRequest", Status(InvalidArgument, s.code, s.cut)) \in Errors
    BY <1>1, <1>2, <1>4 DEF Errors
  <2>5. ApiError("Backend", s) \in Errors
    BY <1>1, <1>3 DEF Errors
  <2> QED BY <2>1, <2>2, <2>3, <2>4, <2>5 DEF ToApiError
<1> QED BY <1>5 DEF Failure, Failures, Errors

\* Only a response that was cut is the transport's.
LEMMA RefusalsAreWhole ==
  ASSUME NEW s, s.cut = FALSE
  PROVE  ToApiError(s).kind # "Transport"
  BY DEF ToApiError, ApiError, Status

\* Live, an attempt comes back as what is kept of it will be seen.
LEMMA LiveAsked ==
  ASSUME Shape, AskLive
  PROVE  \E came :
            /\ kept' = [kept EXCEPT ![step] = Append(kept[step], Record(Call, came))]
            /\ reply' = Seen(came) /\ Seen(came) \in Replies
            /\ CutBy(Seen(came)) => drops' > 0
            /\ drops' >= drops
<1> DEFINE r == Forwarded(Request(Call))
<1>0. PICK q \in {Forwarded(Request(Call))}, executed \in BOOLEAN, whole \in BOOLEAN :
        \E s \in IF Accepts(q) # {} THEN Accepts(q) ELSE Refusals :
            /\ executed => Accepts(q) = {}
            /\ ~whole => drops < MaxDrops
            /\ drops' = IF whole THEN drops ELSE drops + 1
            /\ valid' = IF executed /\ AnswerTo(q).token # None
                        THEN AnswerTo(q).token ELSE valid
            /\ \E error \in {ToApiError(IF whole THEN s ELSE Cut)} :
                  /\ reply' = IF executed /\ whole THEN AnswerTo(q)
                              ELSE Failure(ToApiError(WireError(error)))
                  /\ kept' = [kept EXCEPT ![step] = Append(@, Record(q,
                         IF executed /\ whole THEN AnswerTo(q)
                         ELSE Failure(RecordedError(error))))]
  BY DEF AskLive
<1>1. PICK s \in IF Accepts(r) # {} THEN Accepts(r) ELSE Refusals :
         /\ drops' = IF whole THEN drops ELSE drops + 1
         /\ \E error \in {ToApiError(IF whole THEN s ELSE Cut)} :
               /\ reply' = IF executed /\ whole THEN AnswerTo(r)
                           ELSE Failure(ToApiError(WireError(error)))
               /\ kept' = [kept EXCEPT ![step] = Append(@, Record(r,
                      IF executed /\ whole THEN AnswerTo(r)
                      ELSE Failure(RecordedError(error))))]
  BY <1>0
<1> DEFINE got == IF whole THEN s ELSE Cut
           error == ToApiError(got)
           came == IF executed /\ whole THEN AnswerTo(r) ELSE Failure(RecordedError(error))
<1>2. /\ reply' = IF executed /\ whole THEN AnswerTo(r) ELSE Failure(ToApiError(WireError(error)))
      /\ kept' = [kept EXCEPT ![step] = Append(kept[step], Record(r, came))]
  BY <1>1
<1>3. Record(r, came) = Record(Call, came)
  BY ForwardedIs DEF Record, Request
<1>4. s \in Statuses /\ s.cut = FALSE
  <2>1. Accepts(r) \subseteq [status : Int, code : Int, cut : {FALSE}]
    <3> DEFINE Whole == [status : Int, code : Int, cut : {FALSE}]
    <3>1. /\ Status(Unauthenticated, MISSING_CREDENTIALS, FALSE) \in Whole
          /\ Status(PermissionDenied, REJECTED_CREDENTIALS, FALSE) \in Whole
          /\ Status(InvalidArgument, InvalidSessionType, FALSE) \in Whole
      BY Numbers DEF Status, InvalidSessionType
    <3> HIDE DEF Whole, r
    <3>2. Accepts(r) \subseteq Whole
      BY <3>1 DEF Accepts
    <3> QED BY <3>2 DEF Whole
  <2>2. Refusals \subseteq [status : Int, code : Int, cut : {FALSE}]
    BY TransportAssumption
  <2>3. s \in [status : Int, code : Int, cut : {FALSE}]
    BY <2>1, <2>2
  <2> QED BY <2>3 DEF Statuses
<1>5. got \in Statuses
  <2>1. Cut \in Statuses
    BY Numbers DEF Cut, Status, Statuses, NoCode
  <2> QED BY <1>4, <2>1
<1>6. drops' \in Nat /\ drops' >= drops /\ (~whole => drops' > 0)
  BY <1>1 DEF Shape
<1>7. CASE executed /\ whole
  <2>1. came = AnswerTo(r) /\ AnswerTo(r) \in Answers /\ AnswerTo(r).ok
    BY <1>7, AnswersAreReplies, AnswersAreOk
  <2>2. Seen(came) = AnswerTo(r)
    BY <2>1 DEF Seen
  <2>3. reply' = Seen(came) /\ Seen(came) \in Replies /\ ~CutBy(Seen(came))
    BY <1>2, <1>7, <2>1, <2>2 DEF Replies, CutBy
  <2> HIDE DEF came, r
  <2> QED BY <1>2, <1>3, <1>6, <2>3
<1>8. CASE ~(executed /\ whole)
  <2>1. came = Failure(RecordedError(ToApiError(got)))
    BY <1>8
  <2>2. Seen(came) = Failure(ToApiError(WireError(Replayed(RecordedError(ToApiError(got))))))
    <3> DEFINE d == RecordedError(ToApiError(got))
    <3> HIDE DEF d
    <3>1. Failure(d).ok = FALSE /\ Failure(d).error = d
      BY DEF Failure
    <3>2. Seen(Failure(d)) = Failure(ToApiError(WireError(Replayed(d))))
      BY <3>1 DEF Seen
    <3> QED BY <2>1, <3>2 DEF d
  <2> HIDE DEF came, r, got
  <2>3. Seen(came) = Failure(ToApiError(WireError(ToApiError(got))))
    BY <1>5, <2>2, ReplayKeepsErrors
  <2>4. reply' = Seen(came)
    BY <1>2, <1>8, <2>3
  <2>5. Seen(came) = Failure(ToApiError(got))
    BY <1>5, <2>3, ProxyKeepsErrors
  <2>6. Seen(came) \in Replies
    BY <1>5, <2>5, ErrorsAreReplies DEF Replies
  <2>7. CutBy(Seen(came)) => ~whole
    <3>1. CutBy(Seen(came)) => ToApiError(got).kind = "Transport"
      BY <2>5 DEF CutBy, Failure
    <3>2. whole => got = s
      BY DEF got
    <3> QED BY <1>4, <3>1, <3>2, RefusalsAreWhole
  <2> QED BY <1>2, <1>3, <1>6, <2>4, <2>6, <2>7
<1> QED BY <1>7, <1>8

\* One more attempt is told of, on the turn that it was made.
LEMMA ToldAttempt ==
  ASSUME NEW s, NEW R, NEW T, Told(s, R, T, Len(R) + 1),
         NEW came, Seen(came) \in Replies
  PROVE  LET told == Append(R, Record(Program[s][T[Len(R) + 1].at], came))
         IN  /\ Len(told) = Len(R) + 1 /\ told[Len(told)].reply = came
             /\ \A i \in 1..Len(R) : told[i] = R[i]
             /\ Told(s, told, T, Len(told))
<1> DEFINE n == Len(R)
           record == Record(Program[s][T[n + 1].at], came)
           told == Append(R, record)
<1>1. PICK V : R \in Seq(V)
  BY DEF Told
<1>2. n \in Nat
  BY <1>1
<1> HIDE DEF record
<1>3. R \in Seq(V \cup {record}) /\ told \in Seq(V \cup {record})
  BY <1>1
<1>4. Len(told) = n + 1 /\ told[n + 1] = record /\ \A i \in 1..n : told[i] = R[i]
  BY <1>1, <1>3
<1>5. record.reply = came /\ record = Record(Program[s][T[n + 1].at], record.reply)
  BY DEF record, Record
<1> HIDE DEF told
<1>6. \A i \in 1..n + 1 : /\ told[i] = Record(Program[s][T[i].at], told[i].reply)
                          /\ Seen(told[i].reply) \in Replies
  <2> SUFFICES ASSUME NEW i \in 1..n + 1
               PROVE  /\ told[i] = Record(Program[s][T[i].at], told[i].reply)
                      /\ Seen(told[i].reply) \in Replies
    OBVIOUS
  <2>1. CASE i = n + 1
    BY <1>4, <1>5, <2>1
  <2>2. CASE i \in 1..n
    BY <1>4, <2>2 DEF Told
  <2> QED BY <1>2, <2>1, <2>2
<1>7. \A i \in 1..n + 1 : i < n + 1 => Follows(s, T[i], Seen(told[i].reply), T[i + 1])
  <2> SUFFICES ASSUME NEW i \in 1..n + 1, i < n + 1
               PROVE  Follows(s, T[i], Seen(told[i].reply), T[i + 1])
    OBVIOUS
  <2>1. i \in 1..n /\ told[i] = R[i]
    BY <1>2, <1>4
  <2> QED BY <2>1 DEF Told
<1>8. T[1] = Turn(1, 0, 0) /\ \A i \in 1..n + 1 : IsTurn(s, T[i])
  BY DEF Told
<1>9. Told(s, told, T, n + 1)
  BY <1>3, <1>4, <1>6, <1>7, <1>8 DEF Told
<1> QED BY <1>4, <1>5, <1>9 DEF told, record

\* One more turn follows.
LEMMA ToldTurn ==
  ASSUME NEW s \in DOMAIN Program, NEW R, NEW T, Told(s, R, T, Len(R)), Len(R) >= 1,
         NEW q, Follows(s, T[Len(R)], Seen(R[Len(R)].reply), q)
  PROVE  \E T2 : Told(s, R, T2, Len(R) + 1) /\ T2[Len(R) + 1] = q
<1> DEFINE n == Len(R)
           T2 == [i \in 1..n + 1 |-> IF i = n + 1 THEN q ELSE T[i]]
<1>1. n \in Nat
  <2>1. PICK V : R \in Seq(V)
    BY DEF Told
  <2> QED BY <2>1
<1>2. T2[n + 1] = q /\ \A i \in 1..n : T2[i] = T[i] /\ i \in 1..n + 1
  BY <1>1
<1>3. n \in 1..n /\ 1 \in 1..n
  BY <1>1
<1> HIDE DEF T2
<1>4. IsTurn(s, q)
  <2>1. IsTurn(s, T[n])
    BY <1>3 DEF Told
  <2> QED BY <2>1, FollowsIsTurn
<1>5. T2[1] = Turn(1, 0, 0)
  BY <1>2, <1>3 DEF Told
<1>6. \A i \in 1..n + 1 : IsTurn(s, T2[i])
  <2> SUFFICES ASSUME NEW i \in 1..n + 1 PROVE IsTurn(s, T2[i])
    OBVIOUS
  <2>1. CASE i = n + 1
    BY <1>2, <1>4, <2>1
  <2>2. CASE i \in 1..n
    BY <1>2, <2>2 DEF Told
  <2> QED BY <1>1, <2>1, <2>2
<1>7. \A i \in 1..n : /\ R[i] = Record(Program[s][T2[i].at], R[i].reply)
                      /\ Seen(R[i].reply) \in Replies
  BY <1>2 DEF Told
<1>8. \A i \in 1..n : i < n + 1 => Follows(s, T2[i], Seen(R[i].reply), T2[i + 1])
  <2> SUFFICES ASSUME NEW i \in 1..n
               PROVE  Follows(s, T2[i], Seen(R[i].reply), T2[i + 1])
    OBVIOUS
  <2>1. CASE i = n
    BY <1>2, <1>3, <2>1
  <2>2. CASE i < n
    <3>1. i + 1 \in 1..n
      BY <1>1, <2>2
    <3>2. Follows(s, T[i], Seen(R[i].reply), T[i + 1])
      BY <2>2 DEF Told
    <3> QED BY <1>2, <3>1, <3>2
  <2> QED BY <1>1, <2>1, <2>2
<1>9. Told(s, R, T2, n + 1)
  <2>1. \E V : R \in Seq(V)
    BY DEF Told
  <2> QED BY <1>5, <1>6, <1>7, <1>8, <2>1 DEF Told
<1> QED BY <1>2, <1>9

\* Retry, PollAgain and NextCall take the turn that follows.
LEMMA MovesFollow ==
  ASSUME Shape, Retry \/ PollAgain \/ NextCall
  PROVE  /\ reply # None /\ reply' = None
         /\ Follows(step, ThisTurn, reply, ThisTurn')
         /\ UNCHANGED <<side, step, kept, used, ended, drops, unmatched>>
<1>1. asks \in Seq({Failure(ToApiError(Cut))})
  BY DEF Shape, AskInv
<1>2. ThisTurn.at = at /\ ThisTurn.polls = polls /\ ThisTurn.tries = Len(asks)
  BY DEF ThisTurn, Turn
<1>3. ThisTurn' = Turn(at', polls', Len(asks'))
  BY DEF ThisTurn
<1>4. /\ CutBy(reply) <=> IsCut
      /\ LockedAt(step, ThisTurn, reply) <=> Locked
      /\ RetriedAt(step, ThisTurn, reply) <=> Retried
      /\ PolledAt(step, ThisTurn, reply) <=> ToPoll
  BY <1>2 DEF CutBy, IsCut, LockedAt, Locked, RetriedAt, Retried, PolledAt, ToPoll, Call
<1>5. CASE Retry
  <2> DEFINE cut == Failure(ToApiError(Cut))
  <2>1. Len(asks') = Len(asks) + 1
    BY <1>1, <1>5 DEF Retry
  <2>2. RetriedAt(step, ThisTurn, reply)
    BY <1>4, <1>5 DEF Retry
  <2>3. ThisTurn' = Turn(at, polls, Len(asks) + 1)
    BY <1>3, <1>5, <2>1 DEF Retry
  <2> QED BY <1>2, <1>5, <2>2, <2>3 DEF Retry, Follows
<1>6. CASE PollAgain
  <2>1. ThisTurn' = Turn(at, polls + 1, 0)
    BY <1>3, <1>6 DEF PollAgain
  <2>2. PolledAt(step, ThisTurn, reply)
    BY <1>4, <1>6 DEF PollAgain
  <2> QED BY <1>2, <1>6, <2>1, <2>2 DEF PollAgain, Follows
<1>7. CASE NextCall
  <2>1. ThisTurn' = Turn(at + 1, 0, 0)
    BY <1>3, <1>7 DEF NextCall
  <2>2. GoesOn(step, ThisTurn, reply)
    BY <1>2, <1>4, <1>7 DEF NextCall, GoesOn
  <2> QED BY <1>2, <1>7, <2>1, <2>2 DEF NextCall, Follows
<1> QED BY <1>5, <1>6, <1>7

\* EndStep is taken when none follows.
LEMMA EndStops ==
  ASSUME Shape, EndStep
  PROVE  /\ reply # None /\ reply' = None
         /\ StopsAt(step, ThisTurn, reply) /\ Verdict = VerdictOf(reply)
<1>1. ThisTurn.at = at /\ ThisTurn.polls = polls /\ ThisTurn.tries = Len(asks)
  BY DEF ThisTurn, Turn
<1>2. /\ LockedAt(step, ThisTurn, reply) <=> Locked
      /\ RetriedAt(step, ThisTurn, reply) <=> Retried
      /\ PolledAt(step, ThisTurn, reply) <=> ToPoll
  BY <1>1 DEF CutBy, IsCut, LockedAt, Locked, RetriedAt, Retried, PolledAt, ToPoll, Call
<1>3. reply # None /\ reply' = None /\ ~Retried /\ ~ToPoll /\ Over
  BY DEF EndStep
<1> QED BY <1>1, <1>2, <1>3 DEF StopsAt, Over, Verdict, VerdictOf

\* What was played stays so.
LEMMA PlayedStays ==
  ASSUME Shape, Shape', NEW s, NEW R, NEW T, PlayedAs(s, R, T),
         kept'[s] = kept[s], ended'.live[s] = ended.live[s], drops' >= drops
  PROVE  PlayedAs(s, R, T)'
<1>1. drops \in Nat /\ drops' \in Nat
  BY DEF Shape
<1>2. \A i \in 1..Len(R) : CutBy(Seen(R[i].reply)) => drops' > 0
  BY <1>1 DEF PlayedAs
<1> QED BY <1>2 DEF PlayedAs

\* An attempt, live.
LEMMA LiveAskStep ==
  ASSUME Shape, Shape', LiveInv, AskLive
  PROVE  LiveInv'
<1> DEFINE R == kept[step]
           n == Len(R)
<1>1. /\ side = "live" /\ reply = None
      /\ UNCHANGED <<side, step, at, polls, asks, ended, unmatched>>
  BY DEF AskLive
<1>2. /\ ~unmatched /\ ended.replay = <<>>
      /\ (\E V : ended.live \in Seq(V)) /\ Len(ended.live) = step - 1
      /\ \A s \in DOMAIN Program : s < step => \E R0, T0 : PlayedAs(s, R0, T0)
      /\ \A s \in DOMAIN Program : s > step => kept[s] = <<>>
  BY <1>1 DEF LiveInv
<1>3. PICK T : Playing(T)
  BY <1>1 DEF LiveInv
<1>4. /\ Told(step, R, T, n + 1) /\ T[n + 1] = ThisTurn
      /\ \A i \in 1..n : CutBy(Seen(R[i].reply)) => drops > 0
  BY <1>1, <1>3 DEF Playing
<1>5. PICK came :
            /\ kept' = [kept EXCEPT ![step] = Append(kept[step], Record(Call, came))]
            /\ reply' = Seen(came) /\ Seen(came) \in Replies
            /\ CutBy(Seen(came)) => drops' > 0
            /\ drops' >= drops
  BY LiveAsked
<1>6. Call = Program[step][T[n + 1].at]
  BY <1>4 DEF Call, ThisTurn, Turn
<1> DEFINE told == Append(R, Record(Program[step][T[n + 1].at], came))
<1>7. /\ Len(told) = n + 1 /\ told[Len(told)].reply = came
      /\ \A i \in 1..n : told[i] = R[i]
      /\ Told(step, told, T, Len(told))
  BY <1>4, <1>5, ToldAttempt
<1>8. step \in DOMAIN kept /\ step \in Nat /\ \A s \in DOMAIN Program : s \in Nat
  BY ProgramIs DEF Shape
<1>9. kept'[step] = told /\ \A s \in DOMAIN Program : s # step => kept'[s] = kept[s]
  <2>1. kept'[step] = Append(kept[step], Record(Call, came))
    BY <1>5, <1>8
  <2>2. \A s \in DOMAIN kept : s # step => kept'[s] = kept[s]
    BY <1>5
  <2> QED BY <1>6, <2>1, <2>2 DEF Shape
<1>10. n \in Nat
  <2>1. PICK V : R \in Seq(V)
    BY <1>4 DEF Told
  <2> QED BY <2>1
<1>11. reply' # None
  BY <1>5, RepliesAre
<1>12. ThisTurn' = ThisTurn
  BY <1>1 DEF ThisTurn
<1> HIDE DEF told
<1>13. \A i \in 1..Len(told) : CutBy(Seen(told[i].reply)) => drops' > 0
  <2> SUFFICES ASSUME NEW i \in 1..Len(told), CutBy(Seen(told[i].reply)) PROVE drops' > 0
    OBVIOUS
  <2>1. CASE i = Len(told)
    BY <1>5, <1>7, <2>1
  <2>2. CASE i # Len(told)
    <3>1. i \in 1..n
      BY <1>7, <1>10, <2>2
    <3>2. drops > 0 /\ drops \in Nat /\ drops' \in Nat
      BY <1>4, <1>7, <3>1 DEF Shape
    <3> QED BY <1>5, <3>2
  <2> QED BY <2>1, <2>2
<1>14. Playing(T)'
  <2>1. step' = step /\ kept'[step'] = told
    BY <1>1, <1>9
  <2>2. Len(told) >= 1
    BY <1>7, <1>10
  <2> QED BY <1>4, <1>5, <1>7, <1>11, <1>12, <1>13, <2>1, <2>2 DEF Playing
<1>15. ASSUME NEW s \in DOMAIN Program, s < step
       PROVE  \E R0, T0 : PlayedAs(s, R0, T0)'
  <2>1. PICK R0, T0 : PlayedAs(s, R0, T0)
    BY <1>2, <1>15
  <2>2. kept'[s] = kept[s] /\ ended'.live[s] = ended.live[s] /\ drops' >= drops
    BY <1>1, <1>5, <1>8, <1>9, <1>15
  <2> QED BY <2>1, <2>2, PlayedStays
<1>16. \A s \in DOMAIN Program : s > step => kept'[s] = <<>>
  BY <1>2, <1>8, <1>9
<1> QED BY <1>1, <1>2, <1>14, <1>15, <1>16 DEF LiveInv

\* Another turn, live.
LEMMA LiveMoveStep ==
  ASSUME Shape, Shape', LiveInv, Retry \/ PollAgain \/ NextCall
  PROVE  LiveInv'
<1> SUFFICES ASSUME side' = "live" PROVE LiveInv'
  BY DEF LiveInv
<1> DEFINE R == kept[step]
           n == Len(R)
<1>1. /\ reply # None /\ reply' = None
      /\ Follows(step, ThisTurn, reply, ThisTurn')
      /\ UNCHANGED <<side, step, kept, used, ended, drops, unmatched>>
  BY MovesFollow
<1>2. side = "live"
  BY <1>1
<1>3. PICK T : Playing(T)
  BY <1>2 DEF LiveInv
<1>4. /\ Told(step, R, T, n) /\ T[n] = ThisTurn /\ n >= 1 /\ reply = Seen(R[n].reply)
      /\ \A i \in 1..n : CutBy(Seen(R[i].reply)) => drops > 0
  BY <1>1, <1>3 DEF Playing
<1>5. PICK T2 : Told(step, R, T2, n + 1) /\ T2[n + 1] = ThisTurn'
  <2>1. step \in DOMAIN Program
    BY DEF Shape
  <2>2. Follows(step, T[n], Seen(R[n].reply), ThisTurn')
    BY <1>1, <1>4
  <2>3. ASSUME NEW q, Follows(step, T[n], Seen(R[n].reply), q)
        PROVE  \E T2 : Told(step, R, T2, n + 1) /\ T2[n + 1] = q
    <3>1. Told(step, R, T, Len(R)) /\ Len(R) >= 1
      BY <1>4
    <3>2. Follows(step, T[Len(R)], Seen(R[Len(R)].reply), q)
      BY <2>3
    <3> HIDE DEF R, n
    <3>3. \E T2 : Told(step, R, T2, Len(R) + 1) /\ T2[Len(R) + 1] = q
      BY <2>1, <3>1, <3>2, ToldTurn
    <3> QED BY <3>3 DEF n
  <2> QED BY <2>2, <2>3
<1>6. Playing(T2)'
  BY <1>1, <1>4, <1>5 DEF Playing
<1>7. \A s, R0, T0 : PlayedAs(s, R0, T0) => PlayedAs(s, R0, T0)'
  BY <1>1 DEF PlayedAs
<1>8. /\ ~unmatched /\ ended.replay = <<>>
      /\ (\E V : ended.live \in Seq(V)) /\ Len(ended.live) = step - 1
      /\ \A s \in DOMAIN Program : s < step => \E R0, T0 : PlayedAs(s, R0, T0)
      /\ \A s \in DOMAIN Program : s > step => kept[s] = <<>>
  BY <1>2 DEF LiveInv
<1>9. \A s \in DOMAIN Program : s < step => \E R0, T0 : PlayedAs(s, R0, T0)'
  BY <1>7, <1>8
<1> QED BY <1>1, <1>6, <1>8, <1>9 DEF LiveInv

\* What a step that ends leaves to the next one.
LEMMA Cleared ==
  ASSUME EndStep
  PROVE  /\ reply' = None /\ used' = {} /\ at' = 1 /\ ThisTurn' = Turn(1, 0, 0)
         /\ UNCHANGED <<drops, unmatched>>
<1>1. at' = 1 /\ polls' = 0 /\ asks' = <<>>
  BY DEF EndStep
<1>2. ThisTurn' = Turn(1, 0, 0)
  BY <1>1 DEF ThisTurn
<1> QED BY <1>2 DEF EndStep

\* A replay begins beside the live run.
LEMMA ReplayBegins ==
  ASSUME Shape', EndStep, NEW R, NEW T, PlayedAs(step, R, T)'
  PROVE  \E e, u : Replaying(R, T, e, u)'
<1> DEFINE W == kept'[step']
<1>1. Finished(step', R, T) /\ W = Written(R)
  BY DEF PlayedAs
<1>2. Told(step', R, T, Len(R)) /\ Len(R) >= 1
  BY <1>1 DEF Finished
<1>3. Len(R) \in Nat /\ DOMAIN R = 1..Len(R)
  <2>1. PICK V : R \in Seq(V)
    BY <1>2 DEF Told
  <2> QED BY <2>1
<1> HIDE DEF W
<1>4. PICK e : Numbered(e, R, W)
  <2>1. \E e : Numbered(e, R, Written(R))
    BY <1>2, <1>3, WrittenIs
  <2> QED BY <1>1, <2>1
<1>5. Len(W) \in Nat /\ Len(W) >= 1 /\ e[0 + 1] = 1 /\ used' = 1..0 /\ 0 \in 0..Len(W)
  <2>1. Len(W) \in Nat /\ Len(W) >= 1 /\ e[1] = 1
    BY <1>4 DEF Numbered
  <2>2. used' = {} /\ 1..0 = {}
    BY Cleared
  <2> QED BY <2>1, <2>2
<1>6. /\ reply' = None /\ at' = 1 /\ T[1] = Turn(1, 0, 0) /\ ThisTurn' = T[1]
      /\ T[1].at = 1
  <2>1. T[1] = Turn(1, 0, 0)
    BY <1>2 DEF Told
  <2> QED BY <2>1, Cleared DEF Turn
<1>7. Beside(R, T, e[0 + 1])'
  BY <1>5, <1>6 DEF Beside
<1>8. Replaying(R, T, e, 0)'
  BY <1>4, <1>5, <1>6, <1>7 DEF Replaying, W
<1> QED BY <1>8

\* The end of a step, live.
LEMMA LiveEndStep ==
  ASSUME Shape, Shape', LiveInv, EndStep, side = "live"
  PROVE  LiveInv' /\ PastInv' /\ ReplayInv'
<1> DEFINE R == kept[step]
           n == Len(R)
<1>1. /\ reply # None /\ reply' = None
      /\ StopsAt(step, ThisTurn, reply) /\ Verdict = VerdictOf(reply)
  BY EndStops
<1>2. PICK T : Playing(T)
  BY DEF LiveInv
<1>3. /\ Told(step, R, T, n) /\ T[n] = ThisTurn /\ n >= 1 /\ reply = Seen(R[n].reply)
      /\ \A i \in 1..n : CutBy(Seen(R[i].reply)) => drops > 0
  BY <1>1, <1>2 DEF Playing
<1>4. Finished(step, R, T)
  BY <1>1, <1>3 DEF Finished
<1>5. /\ ~unmatched /\ ended.replay = <<>>
      /\ (\E V : ended.live \in Seq(V)) /\ Len(ended.live) = step - 1
      /\ \A s \in DOMAIN Program : s < step => \E R0, T0 : PlayedAs(s, R0, T0)
      /\ \A s \in DOMAIN Program : s > step => kept[s] = <<>>
  BY DEF LiveInv
<1>6. step \in Nat /\ step >= 1 /\ \A s \in DOMAIN Program : s \in Nat /\ s >= 1
  BY ProgramIs DEF Shape
<1>7. kept' = [kept EXCEPT ![step] = Written(R)]
  BY DEF EndStep
<1> DEFINE told == ended.live
<1>8. ended' = [ended EXCEPT !["live"] = Append(told, Verdict)]
  <2>1. ended' = [ended EXCEPT ![side] = Append(ended[side], Verdict)]
    BY DEF EndStep
  <2> QED BY <2>1
<1>9. ended'.live = Append(told, Verdict) /\ ended'.replay = <<>>
  BY <1>5, <1>8 DEF Shape
<1>10. PICK V : told \in Seq(V)
  BY <1>5
<1>11. /\ ended'.live \in Seq(V \cup {Verdict}) /\ Len(ended'.live) = step
       /\ ended'.live[step] = Verdict
       /\ \A s \in 1..step - 1 : ended'.live[s] = ended.live[s]
  <2> DEFINE v == Verdict
  <2> HIDE DEF v, told
  <2>1. told \in Seq(V \cup {v}) /\ Len(told) = step - 1
    BY <1>5, <1>10 DEF told
  <2>2. /\ Append(told, v) \in Seq(V \cup {v}) /\ Len(Append(told, v)) = step
        /\ Append(told, v)[step] = v
        /\ \A s \in 1..step - 1 : Append(told, v)[s] = told[s]
    BY <1>6, <2>1
  <2> QED BY <1>9, <2>2 DEF v, told
<1>12. kept'[step] = Written(R) /\ \A s \in DOMAIN Program : s # step => kept'[s] = kept[s]
  <2>1. step \in DOMAIN kept
    BY DEF Shape
  <2>2. kept'[step] = Written(R) /\ \A s \in DOMAIN kept : s # step => kept'[s] = kept[s]
    BY <1>7, <2>1
  <2> QED BY <2>2 DEF Shape
<1>14. ASSUME NEW s \in DOMAIN Program, s < step
       PROVE  \E R0, T0 : PlayedAs(s, R0, T0)'
  <2>1. PICK R0, T0 : PlayedAs(s, R0, T0)
    BY <1>5, <1>14
  <2>2. s \in 1..step - 1 /\ s # step
    BY <1>6, <1>14
  <2>3. kept'[s] = kept[s] /\ ended'.live[s] = ended.live[s] /\ drops' >= drops
    <3>1. drops' = drops /\ drops \in Nat
      BY Cleared DEF Shape
    <3> QED BY <1>11, <1>12, <2>2, <3>1
  <2> QED BY <2>1, <2>3, PlayedStays
<1>15. \E R0, T0 : /\ Finished(step, R0, T0) /\ kept'[step] = Written(R0)
                   /\ ended'.live[step] = VerdictOf(Seen(R0[Len(R0)].reply))
                   /\ \A i \in 1..Len(R0) : CutBy(Seen(R0[i].reply)) => drops' > 0
  <2>1. ended'.live[step] = VerdictOf(Seen(R[n].reply))
    BY <1>1, <1>3, <1>11
  <2>2. drops' = drops
    BY Cleared
  <2> QED BY <1>3, <1>4, <1>12, <2>1, <2>2
<1>16. ASSUME NEW s \in DOMAIN Program, s <= step
       PROVE  \E R0, T0 : PlayedAs(s, R0, T0)'
  <2>1. CASE s < step
    BY <1>14, <2>1
  <2>2. CASE s = step
    BY <1>15, <2>2 DEF PlayedAs
  <2> QED BY <1>6, <1>16, <2>1, <2>2
<1>17. CASE step < Len(Program) /\ step' = step + 1 /\ UNCHANGED side
  <2>1. step' \in DOMAIN Program /\ step' > step /\ step' # step
    BY <1>6, <1>17 DEF Shape
  <2>2. kept'[step'] = <<>> /\ Len(kept'[step']) = 0
    BY <1>5, <1>12, <2>1
  <2>3. PICK T0 : Told(step', <<>>, T0, 1) /\ T0[1] = Turn(1, 0, 0)
    BY <2>1, NothingTold
  <2>5. Playing(T0)'
    BY <2>2, <2>3, Cleared DEF Playing
  <2>6. ~unmatched' /\ ended'.replay = <<>>
    BY <1>5, <1>9, Cleared
  <2>7. (\E X : ended'.live \in Seq(X)) /\ Len(ended'.live) = step' - 1
    BY <1>6, <1>11, <1>17
  <2>8. \A s \in DOMAIN Program : s < step' => \E R0, T1 : PlayedAs(s, R0, T1)'
    <3>1. \A s \in DOMAIN Program : s < step' => s <= step
      BY <1>6, <1>17
    <3> QED BY <1>16, <3>1
  <2>9. \A s \in DOMAIN Program : s > step' => kept'[s] = <<>>
    <3>1. \A s \in DOMAIN Program : s > step' => s > step /\ s # step
      BY <1>6, <1>17
    <3> QED BY <1>5, <1>12, <3>1
  <2>10. side' = "live"
    BY <1>17
  <2> QED BY <2>5, <2>6, <2>7, <2>8, <2>9, <2>10 DEF LiveInv, PastInv, ReplayInv
<1>18. CASE step = Len(Program) /\ step' = 1 /\ side' = "replay"
  <2>1. \A s \in DOMAIN Program : s <= step
    BY <1>6, <1>18, ProgramIs
  <2>2. \A s \in DOMAIN Program : \E R0, T0 : PlayedAs(s, R0, T0)'
    BY <1>16, <2>1
  <2>3. (\E X : ended'.live \in Seq(X)) /\ Len(ended'.live) = Len(Program)
    BY <1>11, <1>18
  <2>4. PastInv'
    BY <2>2, <2>3 DEF PastInv
  <2>5. PICK R0, T0 : PlayedAs(1, R0, T0)'
    <3>1. 1 \in DOMAIN Program
      BY <1>18 DEF Shape
    <3> QED BY <2>2, <3>1
  <2>6. PlayedAs(step, R0, T0)'
    <3>1. /\ Finished(1, R0, T0) /\ kept'[1] = Written(R0)
          /\ ended'.live[1] = VerdictOf(Seen(R0[Len(R0)].reply))
          /\ \A i \in 1..Len(R0) : CutBy(Seen(R0[i].reply)) => drops' > 0
      BY <2>5 DEF PlayedAs
    <3>2. step' = 1
      BY <1>18
    <3> QED BY <3>1, <3>2 DEF PlayedAs
  <2>7. \E e, u : Replaying(R0, T0, e, u)'
    BY <2>6, ReplayBegins
  <2>8. (\E X : ended'.replay \in Seq(X)) /\ Len(ended'.replay) = step' - 1
    <3>1. <<>> \in Seq({}) /\ Len(<<>>) = 0
      OBVIOUS
    <3> QED BY <1>9, <1>18, <3>1
  <2>9. \A s \in 1..step' - 1 : ended'.replay[s] = ended'.live[s]
    BY <1>18
  <2>10. ReplayInv'
    BY <2>6, <2>7, <2>8, <2>9 DEF ReplayInv
  <2>11. LiveInv'
    BY <1>18 DEF LiveInv
  <2> QED BY <2>4, <2>10, <2>11
<1>19. \/ step < Len(Program) /\ step' = step + 1 /\ UNCHANGED side
       \/ step = Len(Program) /\ step' = 1 /\ side' = "replay"
  BY DEF EndStep
<1> QED BY <1>17, <1>18, <1>19

\* What the run is at in a replay: the attempt, and how it was answered live.
LEMMA BesideLive ==
  ASSUME Shape, NEW R, NEW T, PlayedAs(step, R, T), NEW e, NEW u,
         Replaying(R, T, e, u), reply # None
  PROVE  /\ Finished(step, R, T) /\ Told(step, R, T, Len(R)) /\ Len(R) \in Nat
         /\ Numbered(e, R, kept[step]) /\ Len(kept[step]) \in Nat
         /\ u \in 1..Len(kept[step]) /\ used = 1..u
         /\ e[u] \in 1..Len(R) /\ IsTurn(step, T[e[u]])
         /\ Seen(R[e[u]].reply) \in Replies /\ reply \in Replies
         /\ Alike(reply, Seen(R[e[u]].reply)) /\ Beside(R, T, e[u])
         /\ e[u] < Len(R) => /\ u < Len(kept[step])
                             /\ Follows(step, T[e[u]], Seen(R[e[u]].reply), T[e[u] + 1])
         /\ e[u] = Len(R) => u = Len(kept[step])
<1> DEFINE m == Len(kept[step])
<1>1. Finished(step, R, T) /\ Told(step, R, T, Len(R))
  BY DEF PlayedAs, Finished
<1>2. Len(R) \in Nat
  <2>1. PICK V : R \in Seq(V)
    BY <1>1 DEF Told
  <2> QED BY <2>1
<1>3. Numbered(e, R, kept[step]) /\ u \in 0..m /\ used = 1..u /\ u >= 1 /\ reply \in Replies
      /\ Alike(reply, Seen(R[e[u]].reply)) /\ Beside(R, T, e[u])
  BY DEF Replaying
<1>4. m \in Nat /\ u \in 1..m
  <2>1. m \in Nat
    BY <1>3 DEF Numbered
  <2> QED BY <1>3, <2>1
<1>5. e[u] \in 1..Len(R) /\ e[m] = Len(R)
  BY <1>3, <1>4 DEF Numbered
<1>6. IsTurn(step, T[e[u]]) /\ Seen(R[e[u]].reply) \in Replies
  BY <1>1, <1>5 DEF Told
<1>7. ASSUME e[u] < Len(R)
      PROVE  u < m /\ Follows(step, T[e[u]], Seen(R[e[u]].reply), T[e[u] + 1])
  <2>1. u # m
    BY <1>2, <1>5, <1>7
  <2>2. u < m
    BY <1>4, <2>1
  <2> QED BY <1>1, <1>5, <1>7, <2>2 DEF Told
<1>8. ASSUME e[u] = Len(R) PROVE u = m
  <2> SUFFICES ASSUME u < m PROVE FALSE
    BY <1>4
  <2>1. step \in DOMAIN Program
    BY DEF Shape
  <2>2. e[u] < Len(R)
    BY <1>1, <1>3, <1>4, <2>1, KeptNeighbours
  <2> QED BY <1>2, <1>8, <2>2
<1> QED BY <1>1, <1>2, <1>3, <1>4, <1>5, <1>6, <1>7, <1>8

\* The same turn on like replies is followed by the same turn.
LEMMA FollowsAlike ==
  ASSUME NEW a \in Replies, NEW b \in Replies, Alike(a, b), NEW s, NEW t,
         NEW p, NEW q, Follows(s, t, a, p), Follows(s, t, b, q)
  PROVE  p = q
<1>1. /\ RetriedAt(s, t, a) <=> RetriedAt(s, t, b)
      /\ PolledAt(s, t, a) <=> PolledAt(s, t, b)
      /\ GoesOn(s, t, a) <=> GoesOn(s, t, b)
  BY AlikeDecides
<1>2. /\ RetriedAt(s, t, a) => ~PolledAt(s, t, a) /\ ~GoesOn(s, t, a)
      /\ PolledAt(s, t, a) => ~GoesOn(s, t, a)
  BY DEF RetriedAt, PolledAt, GoesOn, CutBy, LockedAt
<1>3. CASE RetriedAt(s, t, a)
  BY <1>1, <1>2, <1>3 DEF Follows
<1>4. CASE PolledAt(s, t, a)
  BY <1>1, <1>2, <1>4 DEF Follows
<1>5. CASE GoesOn(s, t, a)
  BY <1>1, <1>2, <1>5 DEF Follows
<1> QED BY <1>3, <1>4, <1>5 DEF Follows

\* A turn that is followed was no end.
LEMMA FollowsOrStops ==
  ASSUME NEW s \in DOMAIN Program, NEW t, IsTurn(s, t), NEW r, NEW q, Follows(s, t, r, q)
  PROVE  /\ ~StopsAt(s, t, r)
         /\ q.at = t.at + 1 => GoesOn(s, t, r)
         /\ ~GoesOn(s, t, r) => q.at = t.at
         /\ GoesOn(s, t, r) => q.at = t.at + 1
<1>1. t.at \in Nat /\ t.at # t.at + 1 /\ (t.at < Len(Program[s]) => t.at # Len(Program[s]))
  BY ProgramIs DEF IsTurn
<1>2. ~StopsAt(s, t, r)
  BY <1>1 DEF Follows, StopsAt, GoesOn
<1>3. CASE RetriedAt(s, t, r) /\ q = Turn(t.at, t.polls, t.tries + 1)
  <2>1. q.at = t.at /\ ~GoesOn(s, t, r)
    BY <1>3 DEF Turn, RetriedAt, GoesOn, CutBy
  <2> QED BY <1>1, <1>2, <2>1
<1>4. CASE PolledAt(s, t, r) /\ q = Turn(t.at, t.polls + 1, 0)
  <2>1. q.at = t.at /\ ~GoesOn(s, t, r)
    BY <1>4 DEF Turn, PolledAt, GoesOn
  <2> QED BY <1>1, <1>2, <2>1
<1>5. CASE GoesOn(s, t, r) /\ q = Turn(t.at + 1, 0, 0)
  <2>1. q.at = t.at + 1
    BY <1>5 DEF Turn
  <2> QED BY <1>1, <1>2, <1>5, <2>1
<1> QED BY <1>3, <1>4, <1>5 DEF Follows

\* The turn that is at a call decides by the call alone but for its counts.
LEMMA DecidedByCall ==
  ASSUME NEW s, NEW t, NEW t2, t.at = t2.at, NEW r
  PROVE  /\ LockedAt(s, t, r) <=> LockedAt(s, t2, r)
         /\ GoesOn(s, t, r) <=> GoesOn(s, t2, r)
  BY DEF LockedAt, GoesOn

\* The record that is taken is the next of those that were kept.
LEMMA TakeIsNext ==
  ASSUME Shape, NEW R, NEW T, PlayedAs(step, R, T), NEW e, NEW u,
         Numbered(e, R, kept[step]), u \in 0..Len(kept[step]), used = 1..u
  PROVE  /\ u = Len(kept[step]) => Take(Call) = {}
         /\ u < Len(kept[step]) /\ at = T[e[u + 1]].at =>
               /\ Take(Call) = {u + 1} /\ u + 1 \in 1..Len(kept[step])
               /\ Seen(kept[step][u + 1].reply) \in Replies
               /\ Alike(Seen(kept[step][u + 1].reply), Seen(R[e[u + 1]].reply))
<1> DEFINE W == kept[step]
           m == Len(W)
           left == {i \in DOMAIN W \ used : W[i].method = Call.method}
           same == {i \in left : W[i].request = Call.request}
           among == IF same # {} THEN same ELSE left
<1>1. m \in Nat /\ DOMAIN W = 1..m /\ u \in Nat
  BY DEF Numbered
<1>2. Take(Call) = {i \in among : \A j \in among : i <= j}
  BY DEF Take
<1>3. Told(step, R, T, Len(R))
  BY DEF PlayedAs, Finished
<1>4. \A i \in 1..m :
         /\ e[i] \in 1..Len(R) /\ W[i] = Scrub(Record(Program[step][T[e[i]].at], R[e[i]].reply))
         /\ Seen(R[e[i]].reply) \in Replies
  <2> SUFFICES ASSUME NEW i \in 1..m
               PROVE  /\ e[i] \in 1..Len(R)
                      /\ W[i] = Scrub(Record(Program[step][T[e[i]].at], R[e[i]].reply))
                      /\ Seen(R[e[i]].reply) \in Replies
    OBVIOUS
  <2>1. e[i] \in 1..Len(R) /\ W[i] = Scrub(R[e[i]])
    BY DEF Numbered
  <2>2. R[e[i]] = Record(Program[step][T[e[i]].at], R[e[i]].reply) /\ Seen(R[e[i]].reply) \in Replies
    BY <1>3, <2>1 DEF Told
  <2> QED BY <2>1, <2>2
<1>5. \A i \in 1..m : /\ W[i].method = Program[step][T[e[i]].at].method
                      /\ Program[step][T[e[i]].at].request # "email" =>
                            W[i].request = Program[step][T[e[i]].at].request
                      /\ W[i].request # "email"
                      /\ Seen(W[i].reply) \in Replies
                      /\ Alike(Seen(W[i].reply), Seen(R[e[i]].reply))
  <2> SUFFICES ASSUME NEW i \in 1..m
               PROVE  /\ W[i].method = Program[step][T[e[i]].at].method
                      /\ Program[step][T[e[i]].at].request # "email" =>
                           W[i].request = Program[step][T[e[i]].at].request
                      /\ W[i].request # "email"
                      /\ Seen(W[i].reply) \in Replies
                      /\ Alike(Seen(W[i].reply), Seen(R[e[i]].reply))
    OBVIOUS
  <2> DEFINE c == Program[step][T[e[i]].at]
             came == R[e[i]].reply
  <2>1. W[i] = Scrub(Record(c, came)) /\ Seen(came) \in Replies
    BY <1>4
  <2> HIDE DEF c, came, W
  <2>2. /\ W[i].method = c.method
        /\ c.request # "email" => W[i].request = c.request
        /\ W[i].request # "email"
        /\ Seen(W[i].reply) \in Replies /\ Alike(Seen(W[i].reply), Seen(came))
    BY <2>1, ScrubbedIs
  <2> QED BY <2>2 DEF c, came
<1> HIDE DEF W, m
<1>8. \A i : i \in left <=> i \in DOMAIN W /\ i \notin used /\ W[i].method = Call.method
  OBVIOUS
<1>9. \A i : i \in same <=> i \in left /\ W[i].request = Call.request
  OBVIOUS
<1> HIDE DEF left, same
<1>6. ASSUME u = m PROVE Take(Call) = {}
  <2>1. DOMAIN W \ used = {}
    BY <1>1, <1>6
  <2>2. left = {} /\ same = {}
    BY <1>8, <1>9, <2>1
  <2> QED BY <1>2, <2>2
<1>7. ASSUME NEW k \in 1..m, k = u + 1, at = T[e[k]].at
      PROVE  Take(Call) = {k} /\ Seen(W[k].reply) \in Replies
             /\ Alike(Seen(W[k].reply), Seen(R[e[k]].reply))
  <2>1. k \in Nat /\ k \notin used /\ \A i \in DOMAIN W \ used : i \in Nat /\ k <= i
    BY <1>1, <1>7
  <2>2. Call = Program[step][T[e[k]].at]
    BY <1>7 DEF Call
  <2>3. /\ W[k].method = Program[step][T[e[k]].at].method
        /\ Program[step][T[e[k]].at].request # "email" =>
              W[k].request = Program[step][T[e[k]].at].request
        /\ Seen(W[k].reply) \in Replies
        /\ Alike(Seen(W[k].reply), Seen(R[e[k]].reply))
    BY <1>5
  <2>4. k \in left /\ \A i \in left : i \in Nat /\ k <= i
    BY <1>1, <1>8, <2>1, <2>2, <2>3
  <2>5. k \in among
    <3>1. CASE Call.request = "email"
      <4>1. \A i \in left : W[i].request # "email"
        BY <1>1, <1>5, <1>8
      <4>2. same = {}
        BY <1>9, <3>1, <4>1
      <4> QED BY <2>4, <4>2
    <3>2. CASE Call.request # "email"
      <4>1. k \in same
        BY <1>9, <2>2, <2>3, <2>4, <3>2
      <4> QED BY <4>1
    <3> QED BY <3>1, <3>2
  <2>6. \A i \in among : i \in Nat /\ k <= i
    BY <1>9, <2>4
  <2> HIDE DEF among
  <2>7. \A i \in among : (\A j \in among : i <= j) => i = k
    <3> SUFFICES ASSUME NEW i \in among, \A j \in among : i <= j PROVE i = k
      OBVIOUS
    <3>1. i <= k /\ k <= i /\ i \in Nat
      BY <2>5, <2>6
    <3> QED BY <2>1, <3>1
  <2>8. \A j \in among : k <= j
    BY <2>6
  <2>9. {i \in among : \A j \in among : i <= j} = {k}
    BY <2>5, <2>7, <2>8
  <2> QED BY <1>2, <2>3, <2>9
<1>10. ASSUME u < m, at = T[e[u + 1]].at
       PROVE  /\ Take(Call) = {u + 1} /\ u + 1 \in 1..m
              /\ Seen(W[u + 1].reply) \in Replies
              /\ Alike(Seen(W[u + 1].reply), Seen(R[e[u + 1]].reply))
  <2> DEFINE k == u + 1
  <2>1. k \in 1..m /\ k = u + 1
    BY <1>1, <1>10
  <2>2. at = T[e[k]].at
    BY <1>10
  <2> HIDE DEF k
  <2>3. /\ Take(Call) = {k} /\ Seen(W[k].reply) \in Replies
        /\ Alike(Seen(W[k].reply), Seen(R[e[k]].reply))
    BY <1>7, <2>1, <2>2
  <2> QED BY <2>1, <2>3 DEF k
<1> QED BY <1>6, <1>10 DEF W, m

\* An attempt, replayed.
LEMMA ReplayAskStep ==
  ASSUME Shape, Shape', PastInv, ReplayInv, ShortInv, AskReplay
  PROVE  ReplayInv' /\ ShortInv'
<1>1. /\ side = "replay" /\ reply = None
      /\ UNCHANGED <<side, step, at, polls, asks, kept, ended, drops>>
  BY DEF AskReplay
<1>2. (unmatched' = unmatched) \/ (unmatched' = TRUE)
  BY DEF AskReplay
<1>3. CASE unmatched
  <2>1. unmatched'
    BY <1>2, <1>3
  <2> QED BY <1>1, <1>3, <2>1 DEF ReplayInv, ShortInv, CleanReplayIsComplete
<1>4. CASE ~unmatched
  <2>1. PICK R, T, e, u : PlayedAs(step, R, T) /\ Replaying(R, T, e, u)
    BY <1>1, <1>4 DEF ReplayInv
  <2> DEFINE W == kept[step]
             m == Len(W)
  <2>2. /\ Numbered(e, R, W) /\ u \in 0..m /\ used = 1..u
        /\ u < m => Beside(R, T, e[u + 1])
        /\ u = m => \/ CutBy(Seen(R[Len(R)].reply))
                    \/ LockedAt(step, T[Len(R)], Seen(R[Len(R)].reply))
    BY <1>1, <2>1 DEF Replaying
  <2>3. m \in Nat /\ u \in Nat
    BY <2>2 DEF Numbered
  <2>4. CASE u = m
    <3>1. Take(Call) = {}
      BY <2>1, <2>2, <2>4, TakeIsNext
    <3>2. unmatched' = TRUE
      BY <3>1 DEF AskReplay
    <3>3. drops > 0 \/ ended.live[step] = "locked"
      <4>1. PICK V : R \in Seq(V)
        BY <2>1 DEF PlayedAs, Finished, Told
      <4>2. Len(R) \in 1..Len(R)
        BY <2>1, <4>1 DEF PlayedAs, Finished
      <4>3. CASE CutBy(Seen(R[Len(R)].reply))
        BY <2>1, <4>2, <4>3 DEF PlayedAs
      <4>4. CASE LockedAt(step, T[Len(R)], Seen(R[Len(R)].reply))
        BY <2>1, <4>4 DEF PlayedAs, LockedAt, VerdictOf
      <4> QED BY <2>2, <2>4, <4>3, <4>4
    <3>4. step \in DOMAIN ended.live
      <4>1. PICK V : ended.live \in Seq(V)
        BY <1>1 DEF PastInv
      <4>2. Len(ended.live) = Len(Program)
        BY <1>1 DEF PastInv
      <4> QED BY <4>1, <4>2, ProgramIs DEF Shape
    <3> QED BY <1>1, <3>2, <3>3, <3>4 DEF ReplayInv, ShortInv, CleanReplayIsComplete
  <2>5. CASE u < m
    <3>1. /\ Take(Call) = {u + 1} /\ u + 1 \in 1..m
          /\ Seen(W[u + 1].reply) \in Replies
          /\ Alike(Seen(W[u + 1].reply), Seen(R[e[u + 1]].reply))
      <4>1. at = T[e[u + 1]].at
        BY <2>2, <2>5 DEF Beside
      <4> QED BY <2>1, <2>2, <2>5, <4>1, TakeIsNext
    <3>2. /\ reply' = Seen(W[u + 1].reply) /\ used' = used \cup {u + 1}
          /\ unmatched' = unmatched
      <4>1. Take(Call) # {}
        BY <3>1
      <4>2. \E i \in Take(Call) :
               LET kepts == W[i].reply
               IN /\ reply' = IF kepts.ok THEN kepts
                              ELSE Failure(ToApiError(WireError(Replayed(kepts.error))))
                  /\ used' = used \cup {i} /\ UNCHANGED unmatched
        BY <4>1 DEF AskReplay
      <4> HIDE DEF W
      <4>3. PICK i \in {u + 1} :
               /\ reply' = Seen(W[i].reply)
               /\ used' = used \cup {i} /\ UNCHANGED unmatched
        BY <3>1, <4>2 DEF Seen
      <4> QED BY <4>3
    <3>3. used' = 1..u + 1 /\ u + 1 \in 0..m /\ u + 1 >= 1
      BY <2>2, <2>3, <3>1, <3>2
    <3>4. reply' # None /\ reply' \in Replies /\ Alike(reply', Seen(R[e[u + 1]].reply))
      <4>1. \A r \in Replies : r # None
        BY RepliesAre
      <4> QED BY <3>1, <3>2, <4>1
    <3>5. Beside(R, T, e[u + 1])'
      <4>1. ThisTurn' = ThisTurn
        BY <1>1 DEF ThisTurn
      <4>2. Beside(R, T, e[u + 1])
        BY <2>2, <2>5
      <4> QED BY <1>1, <4>1, <4>2 DEF Beside
    <3>6. kept'[step'] = W
      BY <1>1
    <3> HIDE DEF W
    <3>7. Replaying(R, T, e, u + 1)'
      BY <2>2, <3>3, <3>4, <3>5, <3>6 DEF Replaying
    <3>8. PlayedAs(step, R, T)'
      BY <1>1, <2>1 DEF PlayedAs
    <3>9. \E R0, T0, e0, u0 : PlayedAs(step, R0, T0)' /\ Replaying(R0, T0, e0, u0)'
      BY <3>7, <3>8
    <3>10. ReplayInv'
      BY <1>1, <1>4, <3>9 DEF ReplayInv
    <3>11. ShortInv'
      BY <1>1, <1>4, <3>2 DEF ShortInv, CleanReplayIsComplete
    <3> QED BY <3>10, <3>11
  <2> QED BY <2>2, <2>3, <2>4, <2>5
<1> QED BY <1>3, <1>4

\* Another turn, replayed.
LEMMA ReplayMoveStep ==
  ASSUME Shape, Shape', ReplayInv, Retry \/ PollAgain \/ NextCall
  PROVE  ReplayInv'
<1> SUFFICES ASSUME side' = "replay", ~unmatched' PROVE ReplayInv'
  BY DEF ReplayInv
<1>1. /\ reply # None /\ reply' = None
      /\ Follows(step, ThisTurn, reply, ThisTurn')
      /\ UNCHANGED <<side, step, kept, used, ended, drops, unmatched>>
  BY MovesFollow
<1>2. side = "replay" /\ ~unmatched
  BY <1>1
<1>3. PICK R, T, e, u : PlayedAs(step, R, T) /\ Replaying(R, T, e, u)
  BY <1>2 DEF ReplayInv
<1> DEFINE W == kept[step]
           m == Len(W)
           n == Len(R)
           i == e[u]
           seen == Seen(R[i].reply)
<1>4. /\ Finished(step, R, T) /\ Told(step, R, T, n) /\ n \in Nat
      /\ Numbered(e, R, W) /\ m \in Nat
      /\ u \in 1..m /\ used = 1..u
      /\ i \in 1..n /\ IsTurn(step, T[i])
      /\ seen \in Replies /\ reply \in Replies
      /\ Alike(reply, seen) /\ Beside(R, T, i)
      /\ i < n => u < m /\ Follows(step, T[i], seen, T[i + 1])
      /\ i = n => u = m
  BY <1>1, <1>3, BesideLive
<1>5. step \in DOMAIN Program
  BY DEF Shape
<1>6. IsTurn(step, ThisTurn) /\ ThisTurn.at = at /\ at = T[i].at
  <2>1. Len(asks) \in Nat
    BY DEF Shape, AskInv
  <2>2. ThisTurn.at = at /\ ThisTurn.polls = polls /\ ThisTurn.tries = Len(asks)
    BY DEF ThisTurn, Turn
  <2>3. at = T[i].at
    BY <1>4 DEF Beside
  <2> QED BY <2>1, <2>2, <2>3 DEF IsTurn, Shape
<1>7. GoesOn(step, ThisTurn, reply) <=> GoesOn(step, T[i], seen)
  <2>1. GoesOn(step, ThisTurn, reply) <=> GoesOn(step, T[i], reply)
    BY <1>6, DecidedByCall
  <2>2. GoesOn(step, T[i], reply) <=> GoesOn(step, T[i], seen)
    BY <1>4, AlikeDecides
  <2> QED BY <2>1, <2>2
<1>8. ThisTurn'.at = at'
  BY DEF ThisTurn, Turn
<1>9. ASSUME i = n PROVE Replaying(R, T, e, u)'
  <2>1. StopsAt(step, T[i], seen)
    BY <1>4, <1>9 DEF Finished
  <2>2. ~GoesOn(step, ThisTurn, reply)
    BY <1>7, <2>1, <1>5, ProgramIs, <1>4 DEF StopsAt, GoesOn, IsTurn
  <2>3. CutBy(reply) \/ LockedAt(step, ThisTurn, reply)
    BY <1>1, <2>2 DEF Follows, RetriedAt, PolledAt
  <2>4. LockedAt(step, ThisTurn, reply) <=> LockedAt(step, T[i], reply)
    BY <1>6, DecidedByCall
  <2>5. CutBy(seen) \/ LockedAt(step, T[i], seen)
    BY <1>4, <2>3, <2>4, AlikeDecides
  <2>6. CutBy(Seen(R[n].reply)) \/ LockedAt(step, T[n], Seen(R[n].reply))
    BY <1>9, <2>5
  <2>7. kept'[step'] = W /\ u = m /\ used' = 1..u
    BY <1>1, <1>4, <1>9
  <2>8. step' = step /\ u \in 0..m /\ ~(u < m)
    BY <1>1, <1>4, <2>7
  <2>9. Numbered(e, R, W) /\ reply' = None
    BY <1>1, <1>4
  <2> HIDE DEF W
  <2>10. /\ Numbered(e, R, kept'[step']) /\ u \in 0..Len(kept'[step']) /\ used' = 1..u
         /\ ~(u < Len(kept'[step']))
    BY <2>7, <2>8, <2>9
  <2>11. \/ CutBy(Seen(R[Len(R)].reply))
         \/ LockedAt(step', T[Len(R)], Seen(R[Len(R)].reply))
    BY <2>6, <2>8
  <2> QED BY <2>9, <2>10, <2>11 DEF Replaying
<1>10. ASSUME i < n PROVE Replaying(R, T, e, u)'
  <2> DEFINE j == e[u + 1]
  <2>1. u < m /\ Follows(step, T[i], seen, T[i + 1])
    BY <1>4, <1>10
  <2>2. /\ T[i + 1].at = T[i].at + 1 => j = i + 1
        /\ T[i + 1].at = T[i].at =>
              j = i + 1 \/ (T[j].at = T[i].at /\ EndsCall(R, T, j))
    BY <1>4, <1>5, <2>1, KeptNeighbours
  <2>3. Beside(R, T, j)'
    <3>1. CASE GoesOn(step, ThisTurn, reply)
      <4>1. T[i + 1] = Turn(T[i].at + 1, 0, 0)
        <5>1. GoesOn(step, T[i], reply)
          BY <1>6, <3>1, DecidedByCall
        <5>2. Follows(step, T[i], reply, Turn(T[i].at + 1, 0, 0))
          BY <5>1 DEF Follows
        <5> HIDE DEF seen
        <5> QED BY <1>4, <2>1, <5>2, FollowsAlike
      <4>2. ThisTurn' = Turn(ThisTurn.at + 1, 0, 0)
        <5>1. Follows(step, ThisTurn, reply, Turn(ThisTurn.at + 1, 0, 0))
          BY <3>1 DEF Follows
        <5>2. Alike(reply, reply)
          BY DEF Alike
        <5>3. \A p, q : Follows(step, ThisTurn, reply, p) /\ Follows(step, ThisTurn, reply, q) => p = q
          BY <1>4, <5>2, FollowsAlike
        <5> QED BY <1>1, <5>1, <5>3
      <4>3. ThisTurn' = T[i + 1] /\ T[i + 1].at = T[i].at + 1
        BY <1>6, <4>1, <4>2 DEF Turn
      <4>4. j = i + 1
        BY <2>2, <4>3
      <4>5. ThisTurn' = T[j]
        BY <4>3, <4>4
      <4>6. at' = T[j].at
        BY <1>8, <4>5
      <4> QED BY <4>5, <4>6 DEF Beside
    <3>2. CASE ~GoesOn(step, ThisTurn, reply)
      <4>1. T[i + 1].at = T[i].at
        <5> HIDE DEF seen
        <5> QED BY <1>4, <1>5, <1>7, <2>1, <3>2, FollowsOrStops
      <4>2. ThisTurn = T[i]
        <5>1. ~EndsCall(R, T, i)
          <6>1. T[i].at \in Nat
            BY <1>4, <1>5, ProgramIs DEF IsTurn
          <6> QED BY <1>4, <1>10, <4>1, <6>1 DEF EndsCall
        <5> QED BY <1>4, <5>1 DEF Beside
      <4>3. ThisTurn' = T[i + 1]
        <5>1. Follows(step, T[i], reply, ThisTurn')
          BY <1>1, <4>2
        <5> HIDE DEF seen
        <5>2. \A p : Follows(step, T[i], reply, p) => p = T[i + 1]
          BY <1>4, <2>1, FollowsAlike
        <5> QED BY <5>1, <5>2
      <4>4. at' = T[i].at
        BY <1>8, <4>1, <4>3
      <4>5. CASE j = i + 1
        BY <4>1, <4>3, <4>4, <4>5 DEF Beside
      <4>6. CASE T[j].at = T[i].at /\ EndsCall(R, T, j)
        BY <4>4, <4>6 DEF Beside
      <4> QED BY <2>2, <4>1, <4>5, <4>6
    <3> QED BY <3>1, <3>2
  <2>4. kept'[step'] = W /\ used' = 1..u
    BY <1>1, <1>4
  <2>5. u \in 0..m /\ u # m
    BY <1>4, <2>1
  <2>6. Numbered(e, R, W) /\ reply' = None
    BY <1>1, <1>4
  <2> HIDE DEF W
  <2>7. /\ Numbered(e, R, kept'[step']) /\ u \in 0..Len(kept'[step']) /\ used' = 1..u
        /\ u # Len(kept'[step'])
    BY <2>4, <2>5, <2>6
  <2> QED BY <2>3, <2>6, <2>7 DEF Replaying
<1>11. Replaying(R, T, e, u)'
  <2>1. i = n \/ i < n
    <3> HIDE DEF i, n
    <3> QED BY <1>4
  <2> QED BY <1>9, <1>10, <2>1
<1>12. PlayedAs(step, R, T)'
  BY <1>1, <1>3 DEF PlayedAs
<1>13. (\E V : ended.replay \in Seq(V)) /\ Len(ended.replay) = step - 1
       /\ \A s \in 1..step - 1 : ended.replay[s] = ended.live[s]
  BY <1>2 DEF ReplayInv
<1> QED BY <1>1, <1>11, <1>12, <1>13 DEF ReplayInv

\* After the live run what was kept of it stays.
LEMMA PastStep ==
  ASSUME Shape, Shape', PastInv, [Next]_vars, side # "live"
  PROVE  /\ PastInv' /\ side' # "live"
         /\ kept' = kept /\ drops' = drops /\ ended'.live = ended.live
<1>1. kept' = kept /\ drops' = drops /\ ended'.live = ended.live /\ side' # "live"
  <2>1. CASE EndStep
    <3>1. kept' = kept /\ drops' = drops /\ side' # "live"
      BY <2>1 DEF EndStep
    <3>2. ended' = [ended EXCEPT ![side] = Append(@, Verdict)]
      BY <2>1 DEF EndStep
    <3>3. ended'.live = ended.live
      BY <3>2 DEF Shape
    <3> QED BY <3>1, <3>3
  <2>2. CASE AskReplay
    BY <2>2 DEF AskReplay
  <2>3. CASE Retry \/ PollAgain \/ NextCall
    BY <2>3 DEF Retry, PollAgain, NextCall
  <2>4. CASE UNCHANGED vars
    BY <2>4 DEF vars
  <2>5. ~AskLive /\ ~Approve
    BY DEF AskLive, Approve
  <2> QED BY <2>1, <2>2, <2>3, <2>4, <2>5 DEF Next, RunStep
<1>2. \A s, R, T : PlayedAs(s, R, T) => PlayedAs(s, R, T)'
  BY <1>1 DEF PlayedAs
<1>3. PastInv'
  BY <1>1, <1>2 DEF PastInv
<1> QED BY <1>1, <1>3

\* A replay ends a step where the live run did, and as it did.
LEMMA EndsAlike ==
  ASSUME Shape, NEW R, NEW T, PlayedAs(step, R, T), NEW e, NEW u,
         Replaying(R, T, e, u), EndStep
  PROVE  Verdict = ended.live[step]
<1> DEFINE n == Len(R)
           i == e[u]
           seen == Seen(R[i].reply)
<1>1. reply # None /\ StopsAt(step, ThisTurn, reply) /\ Verdict = VerdictOf(reply)
  BY EndStops
<1>2. /\ n \in Nat /\ i \in 1..n /\ IsTurn(step, T[i])
      /\ seen \in Replies /\ reply \in Replies
      /\ Alike(reply, seen) /\ Beside(R, T, i)
      /\ i < n => Follows(step, T[i], seen, T[i + 1])
  BY <1>1, BesideLive
<1>3. step \in DOMAIN Program
  BY DEF Shape
<1>4. ThisTurn.at = T[i].at
  BY <1>2 DEF Beside, ThisTurn, Turn
<1>5. ASSUME i < n PROVE FALSE
  <2>1. Follows(step, T[i], seen, T[i + 1])
    BY <1>2, <1>5
  <2>2. /\ ~StopsAt(step, T[i], seen)
        /\ T[i + 1].at = T[i].at + 1 => GoesOn(step, T[i], seen)
    <3> HIDE DEF seen
    <3> QED BY <1>2, <1>3, <2>1, FollowsOrStops
  <2>3. CASE ThisTurn = T[i]
    <3>1. StopsAt(step, T[i], reply)
      BY <1>1, <2>3
    <3>2. StopsAt(step, T[i], seen)
      BY <1>2, <3>1, AlikeDecides
    <3> QED BY <2>2, <3>2
  <2>4. CASE EndsCall(R, T, i)
    <3>1. GoesOn(step, T[i], seen)
      BY <1>2, <1>5, <2>2, <2>4 DEF EndsCall
    <3>2. GoesOn(step, T[i], reply)
      BY <1>2, <3>1, AlikeDecides
    <3>3. GoesOn(step, ThisTurn, reply)
      BY <1>4, <3>2, DecidedByCall
    <3> QED BY <1>1, <1>3, <3>3, ProgramIs DEF StopsAt, GoesOn
  <2> QED BY <1>2, <2>3, <2>4 DEF Beside
<1>6. i = n
  <2> HIDE DEF i, n
  <2> QED BY <1>2, <1>5
<1>7. VerdictOf(reply) = VerdictOf(seen)
  BY <1>2, AlikeDecides
<1> QED BY <1>1, <1>6, <1>7 DEF PlayedAs

\* The end of a step, replayed.
LEMMA ReplayEndStep ==
  ASSUME Shape, Shape', PastInv, PastInv', ReplayInv, EndStep, side = "replay",
         ended'.live = ended.live
  PROVE  ReplayInv' /\ DoneInv'
<1>1. reply' = None
  BY Cleared
<1>2. CASE unmatched
  <2>1. unmatched'
    BY <1>2, Cleared
  <2> QED BY <1>1, <2>1 DEF ReplayInv, DoneInv
<1>3. CASE ~unmatched
  <2>1. /\ (\E V : ended.replay \in Seq(V)) /\ Len(ended.replay) = step - 1
        /\ \A s \in 1..step - 1 : ended.replay[s] = ended.live[s]
    BY <1>3 DEF ReplayInv
  <2>2. Verdict = ended.live[step]
    <3>1. PICK R, T, e, u : PlayedAs(step, R, T) /\ Replaying(R, T, e, u)
      BY <1>3 DEF ReplayInv
    <3> QED BY <3>1, EndsAlike
  <2> DEFINE told == ended.replay
             v == Verdict
  <2>3. ended'.replay = Append(told, v)
    <3>1. ended' = [ended EXCEPT !["replay"] = Append(ended["replay"], Verdict)]
      BY DEF EndStep
    <3> QED BY <3>1 DEF Shape
  <2>4. step \in Nat /\ step >= 1
    BY ProgramIs DEF Shape
  <2>5. PICK V : told \in Seq(V)
    BY <2>1
  <2>6. /\ ended'.replay \in Seq(V \cup {v}) /\ Len(ended'.replay) = step
        /\ DOMAIN ended'.replay = 1..step
        /\ \A s \in 1..step : ended'.replay[s] = ended'.live[s]
    <3>1. told \in Seq(V \cup {v}) /\ Len(told) = step - 1
      BY <2>1, <2>5
    <3>2. v = ended.live[step] /\ \A s \in 1..step - 1 : told[s] = ended.live[s]
      BY <2>1, <2>2
    <3> HIDE DEF told, v
    <3>3. /\ Append(told, v) \in Seq(V \cup {v}) /\ Len(Append(told, v)) = step
          /\ Append(told, v)[step] = v
          /\ \A s \in 1..step - 1 : Append(told, v)[s] = told[s]
      BY <2>4, <3>1
    <3>4. \A s \in 1..step : Append(told, v)[s] = ended.live[s]
      <4> SUFFICES ASSUME NEW s \in 1..step PROVE Append(told, v)[s] = ended.live[s]
        OBVIOUS
      <4>1. CASE s = step
        BY <3>2, <3>3, <4>1
      <4>2. CASE s \in 1..step - 1
        BY <3>2, <3>3, <4>2
      <4>3. s = step \/ s \in 1..step - 1
        BY <2>4
      <4> QED BY <4>1, <4>2, <4>3
    <3>5. DOMAIN Append(told, v) = 1..step
      BY <3>3
    <3> QED BY <2>3, <3>3, <3>4, <3>5
  <2>7. CASE step' = step + 1 /\ side' = "replay"
    <3>1. PICK R, T : PlayedAs(step, R, T)'
      <4>1. step' \in DOMAIN Program
        BY DEF Shape
      <4>2. \A s \in DOMAIN Program : \E R, T : PlayedAs(s, R, T)'
        BY <2>7 DEF PastInv
      <4>3. PICK s \in DOMAIN Program : s = step'
        BY <4>1
      <4>4. PICK R, T : PlayedAs(s, R, T)'
        BY <4>2
      <4>5. /\ Finished(s, R, T) /\ kept'[s] = Written(R)
            /\ ended'.live[s] = VerdictOf(Seen(R[Len(R)].reply))
            /\ \A i \in 1..Len(R) : CutBy(Seen(R[i].reply)) => drops' > 0
        BY <4>4 DEF PlayedAs
      <4>6. PlayedAs(step, R, T)'
        BY <4>3, <4>5 DEF PlayedAs
      <4> QED BY <4>6
    <3>2. \E e, u : Replaying(R, T, e, u)'
      BY <3>1, ReplayBegins
    <3>3. step' - 1 = step
      BY <2>4, <2>7
    <3>4. ReplayInv'
      BY <2>6, <3>1, <3>2, <3>3 DEF ReplayInv
    <3>5. DoneInv'
      BY <2>7 DEF DoneInv
    <3> QED BY <3>4, <3>5
  <2>8. CASE side' = "done"
    <3>1. DoneInv'
      BY <1>1, <2>6 DEF DoneInv
    <3> QED BY <2>8, <3>1 DEF ReplayInv
  <2>9. (step' = step + 1 /\ side' = "replay") \/ side' = "done"
    BY DEF EndStep
  <2> QED BY <2>7, <2>8, <2>9
<1> QED BY <1>2, <1>3

\* Every step keeps it.
LEMMA ReplaysInvStep == ReplaysInv /\ [Next]_vars => ReplaysInv'
<1> SUFFICES ASSUME ReplaysInv, [Next]_vars PROVE ReplaysInv'
  OBVIOUS
<1>1. Shape /\ LiveInv /\ PastInv /\ ReplayInv /\ DoneInv /\ ShortInv
  BY DEF ReplaysInv
<1>2. Shape'
  BY <1>1, ShapeStep
<1>3. CASE UNCHANGED vars \/ Approve
  <2>1. UNCHANGED <<side, step, at, polls, reply, asks, kept, used, ended, drops, unmatched>>
    BY <1>3 DEF vars, Approve
  <2>2. ThisTurn' = ThisTurn
    BY <2>1 DEF ThisTurn
  <2>3. \A s, R, T : PlayedAs(s, R, T)' <=> PlayedAs(s, R, T)
    BY <2>1 DEF PlayedAs
  <2>4. \A T : Playing(T)' <=> Playing(T)
    BY <2>1, <2>2 DEF Playing
  <2>5. \A R, T, i : Beside(R, T, i)' <=> Beside(R, T, i)
    BY <2>1, <2>2 DEF Beside
  <2>6. \A R, T, e, u : Replaying(R, T, e, u)' <=> Replaying(R, T, e, u)
    BY <2>1, <2>5 DEF Replaying
  <2>7. LiveInv'
    BY <1>1, <2>1, <2>3, <2>4 DEF LiveInv
  <2>8. PastInv'
    BY <1>1, <2>1, <2>3 DEF PastInv
  <2>9. \A R, T : PlayedAs(step, R, T) => PlayedAs(step, R, T)'
    BY <2>1 DEF PlayedAs
  <2>10. ReplayInv'
    BY <1>1, <2>1, <2>6, <2>9 DEF ReplayInv
  <2>11. DoneInv' /\ ShortInv'
    BY <1>1, <2>1 DEF DoneInv, ShortInv, CleanReplayIsComplete
  <2> QED BY <1>2, <2>7, <2>8, <2>10, <2>11 DEF ReplaysInv
<1>4. CASE AskLive
  <2>1. LiveInv'
    BY <1>1, <1>2, <1>4, LiveAskStep
  <2>2. side = "live" /\ side' = "live" /\ unmatched' = unmatched
    BY <1>4 DEF AskLive
  <2>3. ~unmatched'
    BY <1>1, <2>2 DEF ShortInv
  <2>4. PastInv' /\ ReplayInv' /\ DoneInv' /\ ShortInv'
    BY <2>2, <2>3 DEF PastInv, ReplayInv, DoneInv, ShortInv, CleanReplayIsComplete
  <2> QED BY <1>2, <2>1, <2>4 DEF ReplaysInv
<1>5. CASE AskReplay
  <2>1. ReplayInv' /\ ShortInv'
    BY <1>1, <1>2, <1>5, ReplayAskStep
  <2>2. side = "replay" /\ side' = "replay"
    BY <1>5 DEF AskReplay
  <2>3. PastInv'
    BY <1>1, <1>2, <2>2, PastStep
  <2>4. LiveInv' /\ DoneInv'
    BY <2>2 DEF LiveInv, DoneInv
  <2> QED BY <1>2, <2>1, <2>3, <2>4 DEF ReplaysInv
<1>6. CASE Retry \/ PollAgain \/ NextCall
  <2>1. /\ reply # None
        /\ UNCHANGED <<side, step, kept, used, ended, drops, unmatched>>
    BY <1>1, <1>6, MovesFollow
  <2>2. LiveInv' /\ ReplayInv'
    BY <1>1, <1>2, <1>6, LiveMoveStep, ReplayMoveStep
  <2>3. PastInv'
    <3>1. \A s, R, T : PlayedAs(s, R, T) => PlayedAs(s, R, T)'
      BY <2>1 DEF PlayedAs
    <3> QED BY <1>1, <2>1, <3>1 DEF PastInv
  <2>4. side' # "done"
    BY <1>1, <2>1 DEF DoneInv
  <2>5. DoneInv' /\ ShortInv'
    BY <1>1, <2>1, <2>4 DEF DoneInv, ShortInv, CleanReplayIsComplete
  <2> QED BY <1>2, <2>2, <2>3, <2>5 DEF ReplaysInv
<1>7. CASE EndStep
  <2>1. reply # None /\ side # "done" /\ side \in {"live", "replay", "done"}
    BY <1>1, <1>7 DEF EndStep, DoneInv, Shape
  <2>2. UNCHANGED <<drops, unmatched>>
    BY <1>7, Cleared
  <2>3. CASE side = "live"
    <3>1. LiveInv' /\ PastInv' /\ ReplayInv'
      BY <1>1, <1>2, <1>7, <2>3, LiveEndStep
    <3>2. ~unmatched' /\ side' # "done"
      BY <1>1, <1>7, <2>2, <2>3 DEF ShortInv, EndStep
    <3>3. DoneInv' /\ ShortInv'
      BY <3>2 DEF DoneInv, ShortInv, CleanReplayIsComplete
    <3> QED BY <1>2, <3>1, <3>3 DEF ReplaysInv
  <2>4. CASE side = "replay"
    <3>1. PastInv' /\ side' # "live" /\ ended'.live = ended.live
      BY <1>1, <1>2, <2>4, PastStep
    <3>2. ReplayInv' /\ DoneInv'
      BY <1>1, <1>2, <1>7, <2>4, <3>1, ReplayEndStep
    <3>3. LiveInv' /\ ShortInv'
      BY <1>1, <2>2, <3>1 DEF LiveInv, ShortInv, CleanReplayIsComplete
    <3> QED BY <1>2, <3>1, <3>2, <3>3 DEF ReplaysInv
  <2> QED BY <2>1, <2>3, <2>4
<1> QED BY <1>3, <1>4, <1>5, <1>6, <1>7 DEF Next, RunStep

\* It is an invariant of every scenario.
LEMMA ReplaysInvHolds == Spec => []ReplaysInv
BY ReplaysInvInit, ReplaysInvStep, PTL DEF Spec

\* Unless it is short of a record, the replay of any scenario ends every step as
\* the live run did, whatever was refused, cut, retried, polled and collapsed
\* (record.rs collapse, corpus.rs RecordedApi).
THEOREM ReplaysAgree == Spec => []ReplayAgrees
<1>1. ReplaysInv => ReplayAgrees
  <2> SUFFICES ASSUME ReplaysInv, ~unmatched, NEW s \in DOMAIN ended.replay
               PROVE  ended.replay[s] = ended.live[s]
    BY DEF ReplayAgrees
  <2>1. side \in {"live", "replay", "done"}
    BY DEF ReplaysInv, Shape
  <2>2. CASE side = "live"
    <3>1. ended.replay = <<>>
      BY <2>2 DEF ReplaysInv, LiveInv
    <3> QED BY <3>1
  <2>3. CASE side = "replay"
    <3>1. /\ (\E V : ended.replay \in Seq(V)) /\ Len(ended.replay) = step - 1
          /\ \A i \in 1..step - 1 : ended.replay[i] = ended.live[i]
      BY <2>3 DEF ReplaysInv, ReplayInv
    <3>2. DOMAIN ended.replay = 1..step - 1
      BY <3>1
    <3> QED BY <3>1, <3>2
  <2>4. CASE side = "done"
    BY <2>4 DEF ReplaysInv, DoneInv
  <2> QED BY <2>1, <2>2, <2>3, <2>4
<1> QED BY <1>1, ReplaysInvHolds, PTL

\* A replay is short of a record only where the live run waited in vain, or
\* had a response cut (record.rs collapse: the ends of a run drive the loop).
THEOREM CleanReplaysAreComplete == Spec => []CleanReplayIsComplete
<1>1. ReplaysInv => CleanReplayIsComplete
  BY DEF ReplaysInv, ShortInv
<1> QED BY <1>1, ReplaysInvHolds, PTL
-----------------------------------------------------------------------------
(* That no identity is refused, in a scenario that has lost no token.          *)

\* The call that the scenario logs in with.
LOGIN == CHOOSE i \in DOMAIN Program[1] : LogsInAt(i)

\* There is one, and what comes before it needs no token and waits for nobody.
LEMMA LoginIs ==
  /\ LOGIN \in DOMAIN Program[1] /\ Program[1][LOGIN].method = "CreateTokens"
  /\ \A j \in 1..LOGIN : Program[1][j].method \in Open /\ ~Program[1][j].polled
<1>1. LOGIN \in DOMAIN Program[1] /\ LogsInAt(LOGIN)
  BY LoginAssumption DEF LOGIN
<1> HIDE DEF LOGIN
<1> QED BY <1>1 DEF LogsInAt

\* A step before this one failed.
Lost == \E s \in 1..step - 1 : ~kept[s][Len(kept[s])].reply.ok

\* The context has the token that the backend takes, or needs none yet.
Holds == held = valid \/ (step = 1 /\ at <= LOGIN)

\* As long as no step failed, the context holds the token before each attempt, or
\* gets it with the answer; and no attempt is refused for who makes it.
TakenInv ==
    side = "live" /\ ~Lost =>
        /\ reply = None => Holds
        /\ reply # None /\ reply.ok /\ reply.token # None =>
              reply.token = valid /\ reply.what = "token"
        /\ reply # None /\ reply.ok /\ reply.token = None =>
              Holds /\ Call.method # "CreateTokens"
        /\ reply # None /\ ~reply.ok =>
              reply.error.code \notin IdentityCodes /\ (Retried => Holds)

\* The context has no token at the start, and needs none to log in.
LEMMA TakenInvInit == Init => TakenInv
<1>1. 1 <= LOGIN
  BY LoginIs, ProgramIs
<1> QED BY <1>1 DEF Init, TakenInv, Holds

\* What the context holds is taken.
LEMMA HeldIsTaken ==
  ASSUME Shape, Holds
  PROVE  Accepts(Forwarded(Request(Call))) = {}
<1> DEFINE r == Request(Call)
<1>1. /\ r.method = Call.method /\ r.request = Call.request /\ r.token = held
      /\ r.clientType = AsClientType(Call)
  BY DEF Request
<1>2. r.method \in Open \/ (r.token # None /\ r.token = valid)
  <2>1. CASE held = valid
    BY <1>1, <2>1, NoneAssumption DEF Shape
  <2>2. CASE step = 1 /\ at <= LOGIN
    <3>1. at \in 1..LOGIN
      BY <2>2, LoginIs, ProgramIs DEF Shape
    <3> QED BY <1>1, <2>2, <3>1, LoginIs DEF Call
  <2> QED BY <2>1, <2>2 DEF Holds
<1>3. ~(r.method = "CreateTokens" /\ r.request = "BACKUP_CODE"
           /\ r.clientType # CLIENT_TYPE_RECOVERY)
  BY <1>1 DEF AsClientType
<1> HIDE DEF r
<1>4. Accepts(r) = {}
  BY <1>2, <1>3 DEF Accepts
<1> QED BY <1>4, ForwardedIs DEF r

\* An error has the code of the status, or none.
LEMMA CodesAreKept ==
  ASSUME NEW s
  PROVE  ToApiError(s).code \in {s.code, NoCode}
  BY DEF ToApiError, ApiError, Status

\* An attempt, live.
LEMMA TakenAskStep ==
  ASSUME Shape, TakenInv, AskLive
  PROVE  TakenInv'
<1> DEFINE r == Forwarded(Request(Call))
<1>1. /\ side = "live" /\ reply = None
      /\ UNCHANGED <<side, step, at, polls, asks, held>>
  BY DEF AskLive
<1>2. Call' = Call
  BY <1>1 DEF Call
<1>3. (Lost' <=> Lost) /\ \A s \in 1..step - 1 : kept'[s] = kept[s]
  <2>1. \A s \in 1..step - 1 : s # step /\ s \in DOMAIN kept
    BY ProgramIs DEF Shape
  <2>2. PICK entry : kept' = [kept EXCEPT ![step] = entry]
    BY DEF AskLive
  <2>3. \A s \in 1..step - 1 : kept'[s] = kept[s]
    BY <2>1, <2>2
  <2> QED BY <1>1, <2>3 DEF Lost
<1> SUFFICES ASSUME ~Lost PROVE TakenInv'
  BY <1>3 DEF TakenInv
<1>4. Holds
  BY <1>1 DEF TakenInv
<1>5. PICK q \in {r}, executed \in BOOLEAN, whole \in BOOLEAN :
        \E s \in IF Accepts(q) # {} THEN Accepts(q) ELSE Refusals :
            /\ valid' = IF executed /\ AnswerTo(q).token # None
                        THEN AnswerTo(q).token ELSE valid
            /\ \E error \in {ToApiError(IF whole THEN s ELSE Cut)} :
                  reply' = IF executed /\ whole THEN AnswerTo(q)
                           ELSE Failure(ToApiError(WireError(error)))
  BY DEF AskLive
<1>6. Accepts(r) = {}
  BY <1>4, HeldIsTaken
<1>7. r.method = Call.method
  BY ForwardedIs DEF Request
<1> HIDE DEF r
<1>8. PICK s \in Refusals :
         /\ valid' = IF executed /\ AnswerTo(r).token # None
                     THEN AnswerTo(r).token ELSE valid
         /\ reply' = IF executed /\ whole THEN AnswerTo(r)
                     ELSE Failure(ToApiError(WireError(ToApiError(
                                     IF whole THEN s ELSE Cut))))
  BY <1>5, <1>6
<1> DEFINE got == IF whole THEN s ELSE Cut
<1>9. /\ AnswerTo(r).ok /\ AnswerTo(r) # None
      /\ Call.method \in {"CreateTokens", "RefreshToken"} =>
            /\ AnswerTo(r).token = valid + 1 /\ AnswerTo(r).token # None
            /\ AnswerTo(r).what = "token"
      /\ Call.method \notin {"CreateTokens", "RefreshToken"} => AnswerTo(r).token = None
  <2>1. AnswerTo(r) # None
    BY AnswersAreReplies, NoneAssumption DEF r
  <2>2. valid + 1 \in Nat /\ valid + 1 # None
    BY NoneAssumption DEF Shape
  <2>3. CASE Call.method \in {"CreateTokens", "RefreshToken"}
    <3>1. AnswerTo(r) = Answer("token", valid + 1)
      BY <1>7, <2>3 DEF AnswerTo, Rotated
    <3> QED BY <2>1, <2>2, <2>3, <3>1 DEF Answer
  <2>4. CASE Call.method \notin {"CreateTokens", "RefreshToken"}
    <3>1. AnswerTo(r).token = None
      BY <1>7, <2>4 DEF AnswerTo, Answer
    <3> QED BY <2>1, <2>4, <3>1, AnswersAreOk
  <2> QED BY <2>3, <2>4
<1>10. Call.method \notin {"CreateTokens", "RefreshToken"} => Holds'
  <2>1. Call.method \notin {"CreateTokens", "RefreshToken"} => valid' = valid
    BY <1>8, <1>9
  <2> QED BY <1>1, <1>4, <2>1 DEF Holds
<1>11. CASE executed /\ whole
  <2>1. reply' = AnswerTo(r)
    BY <1>8, <1>11
  <2>2. AnswerTo(r).token # None => valid' = AnswerTo(r).token
    BY <1>8, <1>11
  <2>3. /\ reply' # None /\ reply'.ok
        /\ reply'.token # None => reply'.token = valid' /\ reply'.what = "token"
        /\ reply'.token = None => Holds' /\ Call'.method # "CreateTokens"
    BY <1>2, <1>9, <1>10, <2>1, <2>2
  <2> QED BY <2>3 DEF TakenInv
<1>12. CASE ~(executed /\ whole)
  <2>1. reply' = Failure(ToApiError(WireError(ToApiError(got))))
    BY <1>8, <1>12
  <2>2. got \in Statuses /\ got.code \notin IdentityCodes
    <3>1. Cut \in Statuses /\ Cut.code = NoCode
      BY Numbers DEF Cut, Status, Statuses, NoCode
    <3>2. NoCode \notin IdentityCodes
      BY Numbers DEF IdentityCodes, InvalidSessionType, NoCode
    <3>3. s \in Statuses /\ s.code \notin IdentityCodes
      BY TransportAssumption DEF Statuses
    <3> QED BY <3>1, <3>2, <3>3
  <2> HIDE DEF got
  <2>3. reply' = Failure(ToApiError(got))
    BY <2>1, <2>2, ProxyKeepsErrors
  <2>4. reply' # None
    BY <2>2, <2>3, ErrorsAreReplies, NoneAssumption
  <2>5. ~reply'.ok /\ reply'.error.code \notin IdentityCodes
    <3>1. NoCode \notin IdentityCodes
      BY Numbers DEF IdentityCodes, InvalidSessionType, NoCode
    <3> QED BY <2>2, <2>3, <3>1, CodesAreKept DEF Failure
  <2>6. Retried' => Holds'
    <3>1. Retried' => Call.method \in Reads
      BY <1>2 DEF Retried
    <3>2. Call.method \in Reads => Call.method \notin {"CreateTokens", "RefreshToken"}
      BY TransportAssumption
    <3> QED BY <1>10, <3>1, <3>2
  <2> QED BY <2>4, <2>5, <2>6 DEF TakenInv
<1> QED BY <1>11, <1>12

\* A step that ends well leaves a token that is taken to the next one.
LEMMA TakenEndStep ==
  ASSUME Shape, Shape', LiveInv, TakenInv, EndStep
  PROVE  TakenInv'
<1> SUFFICES ASSUME side' = "live", ~Lost' PROVE TakenInv'
  BY DEF TakenInv
<1> DEFINE R == kept[step]
           W == Written(R)
<1>1. /\ side \in {"live", "replay", "done"} /\ step \in DOMAIN Program
      /\ step \in Nat /\ step >= 1 /\ at \in Nat
  BY ProgramIs DEF Shape
<1>2. /\ reply # None /\ ~ToPoll /\ Over /\ reply' = None /\ valid' = valid
      /\ held' = IF reply.ok /\ reply.token # None THEN reply.token ELSE held
      /\ \/ step' = step + 1 /\ side' = side
         \/ side' # "live"
      /\ kept' = IF side = "live" THEN [kept EXCEPT ![step] = Written(@)] ELSE kept
  BY DEF EndStep, Adopt
<1>3. side = "live" /\ step' = step + 1
  BY <1>2
<1>4. kept' = [kept EXCEPT ![step] = W]
  BY <1>2, <1>3
<1> HIDE DEF W
<1>5. kept'[step] = W /\ \A s \in 1..step - 1 : kept'[s] = kept[s]
  <2>1. step \in DOMAIN kept /\ \A s \in 1..step - 1 : s # step /\ s \in DOMAIN kept
    BY <1>1, ProgramIs DEF Shape
  <2> QED BY <1>4, <2>1
<1>6. ~Lost /\ W[Len(W)].reply.ok
  <2>1. step \in 1..step' - 1 /\ \A s \in 1..step - 1 : s \in 1..step' - 1
    BY <1>1, <1>3
  <2>2. \A s \in 1..step' - 1 : kept'[s][Len(kept'[s])].reply.ok
    BY DEF Lost
  <2>3. \A s \in 1..step - 1 : kept[s][Len(kept[s])].reply.ok
    BY <1>5, <2>1, <2>2
  <2> QED BY <1>5, <2>1, <2>2, <2>3 DEF Lost
<1>7. reply.ok
  <2>1. PICK T : Playing(T)
    BY <1>3 DEF LiveInv
  <2> DEFINE n == Len(R)
  <2>2. /\ Told(step, R, T, n) /\ n >= 1 /\ reply = Seen(R[n].reply)
    BY <1>2, <2>1 DEF Playing
  <2>3. n \in Nat /\ DOMAIN R = 1..n
    <3>1. PICK V : R \in Seq(V)
      BY <2>2 DEF Told
    <3> QED BY <3>1
  <2>4. n \in 1..n
    BY <2>2, <2>3
  <2>5. R[n] = Record(Program[step][T[n].at], R[n].reply) /\ Seen(R[n].reply) \in Replies
    BY <2>2, <2>4 DEF Told
  <2>6. PICK e : Numbered(e, R, W)
    <3>1. \E e : Numbered(e, R, Written(R))
      BY <2>2, <2>3, WrittenIs
    <3> QED BY <3>1 DEF W
  <2>7. W[Len(W)] = Scrub(R[n])
    <3>1. Len(W) \in 1..Len(W) /\ e[Len(W)] = n
      BY <2>6 DEF Numbered
    <3> QED BY <2>6, <3>1 DEF Numbered
  <2> DEFINE w == Scrub(Record(Program[step][T[n].at], R[n].reply))
  <2>8. Alike(Seen(w.reply), Seen(R[n].reply))
    <3> HIDE DEF R, n
    <3> QED BY <2>5, ScrubbedIs
  <2>9. w.reply.ok
    BY <1>6, <2>5, <2>7
  <2> HIDE DEF w
  <2>10. Seen(w.reply).ok
    BY <2>9 DEF Seen
  <2> QED BY <2>2, <2>8, <2>10 DEF Alike
<1>8. held' = valid'
  <2>1. CASE reply.token # None
    BY <1>2, <1>3, <1>6, <1>7, <2>1 DEF TakenInv
  <2>2. CASE reply.token = None
    <3>1. Holds /\ Call.method # "CreateTokens"
      BY <1>2, <1>3, <1>6, <1>7, <2>2 DEF TakenInv
    <3>2. ASSUME step = 1, at <= LOGIN PROVE FALSE
      <4>1. at # LOGIN
        BY <3>1, <3>2, LoginIs DEF Call
      <4>2. at < LOGIN /\ at < Len(Program[step]) /\ at \in 1..LOGIN
        BY <1>1, <3>2, <4>1, LoginIs, ProgramIs DEF Shape
      <4>3. ~Locked
        BY <3>2, <4>2, LoginIs DEF Locked, Call
      <4> QED BY <1>1, <1>2, <1>7, <4>2, <4>3, ProgramIs DEF Over
    <3> QED BY <1>2, <2>2, <3>1, <3>2 DEF Holds
  <2> QED BY <2>1, <2>2
<1> QED BY <1>2, <1>8 DEF TakenInv, Holds

\* Every step keeps it.
LEMMA TakenInvStep ==
  ASSUME ReplaysInv, ReplaysInv', TakenInv, [Next]_vars
  PROVE  TakenInv'
<1>1. Shape /\ Shape' /\ LiveInv
  BY DEF ReplaysInv
<1>2. CASE AskLive
  BY <1>1, <1>2, TakenAskStep
<1>3. CASE AskReplay
  BY <1>3 DEF AskReplay, TakenInv
<1>4. CASE EndStep
  BY <1>1, <1>4, TakenEndStep
<1>5. CASE Retry \/ PollAgain \/ NextCall
  <2>1. reply # None /\ reply' = None /\ UNCHANGED <<side, step, kept>>
    BY <1>1, <1>5, MovesFollow
  <2>2. valid' = valid
    BY <1>5 DEF Retry, PollAgain, NextCall
  <2>3. Lost' <=> Lost
    BY <2>1 DEF Lost
  <2> SUFFICES ASSUME side = "live", ~Lost PROVE Holds'
    BY <2>1, <2>3 DEF TakenInv
  <2>4. CASE Retry
    <3>1. Holds
      BY <2>1, <2>4 DEF TakenInv, Retry, Retried, IsCut
    <3> QED BY <2>1, <2>2, <2>4, <3>1 DEF Retry, Holds
  <2>5. CASE PollAgain
    <3>1. reply.ok /\ reply.what = "locked"
      BY <2>5 DEF PollAgain, ToPoll, Locked
    <3>2. Holds
      BY <2>1, <3>1 DEF TakenInv
    <3> QED BY <2>1, <2>2, <2>5, <3>2 DEF PollAgain, Holds
  <2>6. CASE NextCall
    <3>1. /\ reply.ok /\ at' = at + 1
          /\ held' = IF reply.ok /\ reply.token # None THEN reply.token ELSE held
      BY <2>6 DEF NextCall, Adopt
    <3>2. CASE reply.token # None
      BY <2>1, <2>2, <3>1, <3>2 DEF TakenInv, Holds
    <3>3. CASE reply.token = None
      <4>1. Holds /\ Call.method # "CreateTokens" /\ held' = held
        BY <2>1, <3>1, <3>3 DEF TakenInv
      <4>2. step = 1 /\ at <= LOGIN => at + 1 <= LOGIN
        <5>1. step = 1 => at # LOGIN
          BY <4>1, LoginIs DEF Call
        <5> QED BY <1>1, <5>1, LoginIs, ProgramIs DEF Shape
      <4> QED BY <2>1, <2>2, <3>1, <4>1, <4>2 DEF Holds
    <3> QED BY <3>2, <3>3
  <2> QED BY <1>5, <2>4, <2>5, <2>6
<1>6. CASE Approve \/ UNCHANGED vars
  <2>1. UNCHANGED <<side, step, at, reply, asks, held, valid, kept>>
    BY <1>6 DEF Approve, vars
  <2>2. (Lost' <=> Lost) /\ (Holds' <=> Holds) /\ Call' = Call /\ (Retried' <=> Retried)
    BY <2>1 DEF Lost, Holds, Call, Retried, IsCut
  <2> QED BY <2>1, <2>2 DEF TakenInv
<1> QED BY <1>2, <1>3, <1>4, <1>5, <1>6 DEF Next, RunStep

\* In any scenario that logs in, against any backend that refuses no identity for
\* its own reasons, no call is refused for who makes it, unless a step before it
\* failed, and may have lost a token (server.rs context_from, domain.rs
\* set_access_token).
THEOREM IdentitiesAreTaken == Spec => []IdentityIsTaken
<1>1. TakenInv => IdentityIsTaken
  BY DEF TakenInv, IdentityIsTaken, Lost
<1>2. ReplaysInv /\ ReplaysInv' /\ TakenInv /\ [Next]_vars => TakenInv'
  BY TakenInvStep
<1> QED BY <1>1, <1>2, TakenInvInit, ReplaysInvHolds, PTL DEF Spec
=============================================================================
