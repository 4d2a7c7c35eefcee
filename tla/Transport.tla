----------------------------- MODULE Transport -----------------------------
(***************************************************************************)
(* A scenario: invocations of `heyl`, each a list of calls of the port,    *)
(* run against heylogin through the recording proxy and then again from    *)
(* what was kept.  A call goes DomainApi -> GrpcClient -> Server -> the    *)
(* proxy's own GrpcClient -> backend, and a reply comes back the same way  *)
(* (heyl-grpc domain.rs, client.rs, request.rs, server.rs, corpus.rs;      *)
(* tools/heyl-fixtures record.rs).  The backend is external.               *)
(***************************************************************************)
EXTENDS ApiErrors, Selection, TLC

CONSTANTS
    Program,      \* step -> the calls it makes: method, request, whether polled
    Reads,        \* the methods that DomainApi retries
    Mutating,     \* the methods that change the account
    Open,         \* the methods that need no token
    Declared,     \* the methods that every step says to collapse
    Refusals,     \* statuses the backend may refuse any call with, whoever makes it
    READ_RETRIES,
    MaxPolls,     \* bound: polls of a step that is not approved
    MaxDrops,     \* bound: responses cut short, in the whole run
    None

\* What the backend says to an identity that it does not take.
IdentityCodes == {MISSING_CREDENTIALS, REJECTED_CREDENTIALS, InvalidSessionType}

ASSUME TransportAssumption ==
    /\ Reads \cap Mutating = {}
    /\ {"CreateTokens", "RefreshToken"} \subseteq Mutating
    /\ {READ_RETRIES, MaxPolls, MaxDrops} \subseteq Nat
    /\ Refusals \subseteq [status : Int, code : Int \ IdentityCodes, cut : {FALSE}]

\* A scenario runs something, and every invocation of it calls something.
Calls == UNION {{Program[s][i] : i \in DOMAIN Program[s]} : s \in DOMAIN Program}

ASSUME ProgramAssumption ==
    Program \in Seq(Seq(Calls) \ {<<>>}) \ {<<>>}

\* Until it has logged in, it makes calls that need no token, and waits for nobody.
LogsInAt(i) ==
    /\ Program[1][i].method = "CreateTokens"
    /\ \A j \in 1..i : Program[1][j].method \in Open /\ ~Program[1][j].polled

ASSUME LoginAssumption == \E i \in DOMAIN Program[1] : LogsInAt(i)

\* A declared method is made over by polling and retrying alone: two calls of it
\* one after the other would be collapsed as if they were one (record.rs collapse).
ASSUME DeclaredAssumption ==
    \A s \in DOMAIN Program : \A i \in DOMAIN Program[s] :
        i + 1 \in DOMAIN Program[s] /\ Program[s][i].method \in Declared
            => Program[s][i + 1].method # Program[s][i].method

\* What may come back; None is none of it.
Answered(whats) == [ok : {TRUE}, what : whats, token : Nat \cup {None}]
Answers == Answered({"token", "granted", "locked"})
             \cup Answered({<<c.method, c.request>> : c \in Calls})
Errors == [kind : {"Transport", "Unauthenticated", "PermissionDenied", "BadRequest", "Backend"},
           status : Int, code : Int, cut : BOOLEAN]
Failures == [ok : {FALSE}, error : Errors]

ASSUME NoneAssumption == None \notin Answers \cup Failures \cup Nat

CLIENT_TYPE_CLI      == 400
CLIENT_TYPE_RECOVERY == 200

VARIABLES
    side,       \* "live", "replay" or "done"
    step, at,   \* the invocation, and which of its calls is being made
    polls,      \* how often the call has been made over
    reply,      \* what has come back of the attempt, or None
    asks,       \* how the attempts before it came back
    held,       \* the access token of the context
    valid,      \* backend: the access token that it takes
    approved,   \* backend: whether the phone has unlocked the session
    kept,       \* step -> the records of it
    used,       \* which records of the step the replay has used up
    ended,      \* side -> how each step ended
    drops,      \* responses cut short
    unmatched   \* whether a replayed call found no record

vars == <<side, step, at, polls, reply, asks, held, valid, approved, kept, used, ended,
          drops, unmatched>>

Call == Program[step][at]

\* The identity that goes with the call: of the context, but for a recovery.
AsClientType(c) ==
    IF c.method = "CreateTokens" /\ c.request = "BACKUP_CODE"
    THEN CLIENT_TYPE_RECOVERY ELSE CLIENT_TYPE_CLI

Request(c) == [method |-> c.method, request |-> c.request,
               clientType |-> AsClientType(c), token |-> held]

\* The headers that a client puts on the wire for an identity; a call without a
\* token has no authorization.
HeadersOf(i) == [name \in {"client-type"} \cup IF i.token = None THEN {} ELSE {"authorization"}
                   |-> IF name = "client-type" THEN i.clientType ELSE <<"backend", i.token>>]

\* Mutated: the proxy has a client type of its own.
MutContextFrom(headers) ==
    [clientType |-> CLIENT_TYPE_CLI,
     token |-> IF "authorization" \in DOMAIN headers THEN headers["authorization"][2] ELSE None]

\* The proxy rebuilds an identity from the headers that came, with its own client
\* type for want of one, and no token unless it is one for the backend.
ContextFrom(headers) ==
    [clientType |-> IF "client-type" \in DOMAIN headers THEN headers["client-type"]
                    ELSE CLIENT_TYPE_CLI,
     token |-> IF "authorization" \in DOMAIN headers /\ headers["authorization"][1] = "backend"
               THEN headers["authorization"][2] ELSE None]

\* And sends the message on under it, over a client of its own.
Forwarded(r) ==
    LET i == ContextFrom(HeadersOf(r))
    IN  [r EXCEPT !.clientType = i.clientType, !.token = i.token]

\* External: what the backend does with a request, and answers.
Accepts(r) ==
    IF r.method \notin Open /\ r.token = None
    THEN {Status(Unauthenticated, MISSING_CREDENTIALS, FALSE)}
    ELSE IF r.method \notin Open /\ r.token # valid
    THEN {Status(PermissionDenied, REJECTED_CREDENTIALS, FALSE)}
    ELSE IF r.method = "CreateTokens" /\ r.request = "BACKUP_CODE"
            /\ r.clientType # CLIENT_TYPE_RECOVERY
    THEN {Status(InvalidArgument, InvalidSessionType, FALSE)}
    ELSE {}

Answer(what, token) == [ok |-> TRUE, what |-> what, token |-> token]
Failure(e) == [ok |-> FALSE, error |-> e]
Rotated(t) == t + 1

AnswerTo(r) ==
    CASE r.method \in {"CreateTokens", "RefreshToken"} -> Answer("token", Rotated(valid))
      [] r.method = "Sync" -> Answer(IF approved THEN "granted" ELSE "locked", None)
      [] OTHER -> Answer(<<r.method, r.request>>, None)

Cut == Status(Unknown, NoCode, TRUE)

-----------------------------------------------------------------------------
\* One record: the message asked, and the message or the error that came back.
Record(r, came) == [method |-> r.method, request |-> r.request, reply |-> came]

\* Call i starts, or ends, a run of consecutive calls of its method.
StartsRun(calls, i) == i = 1 \/ calls[i - 1].method # calls[i].method
EndsRun(calls, i) == i = Len(calls) \/ calls[i + 1].method # calls[i].method

\* Mutated: a run is collapsed to its first answer.
MutCollapsed(calls, i) ==
    calls[i].method \in Declared /\ ~StartsRun(calls, i)

\* The middle of a run of a declared method is dropped.
Collapsed(calls, i) ==
    calls[i].method \in Declared /\ ~StartsRun(calls, i) /\ ~EndsRun(calls, i)

\* The token and the address are replaced.
Scrub(record) ==
    [record EXCEPT !.request = IF @ = "email" THEN "fixture email" ELSE @,
                   !.reply = IF @.ok /\ @.token # None THEN [@ EXCEPT !.token = 0] ELSE @]

Written(calls) ==
    LET ends == Pick([i \in DOMAIN calls |-> i], {i \in DOMAIN calls : ~Collapsed(calls, i)})
    IN  [n \in DOMAIN ends |-> Scrub(calls[ends[n]])]

\* The record that answers: the same request first, else the next of the method.
Take(c) ==
    LET left == {i \in DOMAIN kept[step] \ used : kept[step][i].method = c.method}
        same == {i \in left : kept[step][i].request = c.request}
        among == IF same # {} THEN same ELSE left
    IN  {i \in among : \A j \in among : i <= j}

-----------------------------------------------------------------------------
Init ==
    /\ side = "live" /\ step = 1 /\ at = 1 /\ polls = 0 /\ reply = None /\ asks = <<>>
    /\ held = None /\ valid = 0 /\ approved = FALSE
    /\ kept = [s \in DOMAIN Program |-> <<>>] /\ used = {}
    /\ ended = [x \in {"live", "replay"} |-> <<>>]
    /\ drops = 0 /\ unmatched = FALSE

\* An attempt, live: it is refused, or executed; the reply comes whole, or it is
\* cut on its way to the proxy.  What the proxy's client makes of it is kept,
\* and is sent on to the binary's client.
AskLive ==
    /\ side = "live" /\ reply = None
    /\ \E r \in {Forwarded(Request(Call))}, executed \in BOOLEAN, whole \in BOOLEAN :
       \E s \in IF Accepts(r) # {} THEN Accepts(r) ELSE Refusals :
            /\ executed => Accepts(r) = {}
            /\ ~whole => drops < MaxDrops
            /\ drops' = IF whole THEN drops ELSE drops + 1
            /\ valid' = IF executed /\ AnswerTo(r).token # None
                        THEN AnswerTo(r).token ELSE valid
            /\ \E error \in {ToApiError(IF whole THEN s ELSE Cut)} :
                  /\ reply' = IF executed /\ whole THEN AnswerTo(r)
                              ELSE Failure(ToApiError(WireError(error)))
                  /\ kept' = [kept EXCEPT ![step] = Append(@, Record(r,
                         IF executed /\ whole THEN AnswerTo(r)
                         ELSE Failure(RecordedError(error))))]
    /\ UNCHANGED <<side, step, at, polls, asks, held, approved, used, ended, unmatched>>

\* The same attempt, answered from the corpus; without a record, loudly.
AskReplay ==
    /\ side = "replay" /\ reply = None
    /\ \/ /\ Take(Call) = {} /\ unmatched' = TRUE /\ UNCHANGED used
          /\ reply' = Failure(ToApiError(Status(Unimplemented, NoCode, FALSE)))
       \/ \E i \in Take(Call) :
             LET kepts == kept[step][i].reply
             IN /\ reply' = IF kepts.ok THEN kepts
                            ELSE Failure(ToApiError(WireError(Replayed(kepts.error))))
                /\ used' = used \cup {i} /\ UNCHANGED unmatched
    /\ UNCHANGED <<side, step, at, polls, asks, held, valid, approved, kept, ended, drops>>

IsCut == ~reply.ok /\ reply.error.kind = "Transport"
Locked == reply.ok /\ Call.polled /\ reply.what = "locked"
ToPoll == Locked /\ polls < MaxPolls

\* Mutated: a mutation is retried like a read.
MutRetried == IsCut /\ Len(asks) < READ_RETRIES

\* Retried while it is the transport's, if it is a read.
Retried == Call.method \in Reads /\ IsCut /\ Len(asks) < READ_RETRIES

Retry ==
    /\ reply # None /\ Retried
    /\ asks' = Append(asks, reply) /\ reply' = None
    /\ UNCHANGED <<side, step, at, polls, held, valid, approved, kept, used, ended,
                   drops, unmatched>>

PollAgain ==
    /\ reply # None /\ ToPoll
    /\ polls' = polls + 1 /\ asks' = <<>> /\ reply' = None
    /\ UNCHANGED <<side, step, at, held, valid, approved, kept, used, ended, drops,
                   unmatched>>

\* A new token is the context's from then on.
Adopt == held' = IF reply.ok /\ reply.token # None THEN reply.token ELSE held

NextCall ==
    /\ reply # None /\ reply.ok /\ ~Locked /\ at < Len(Program[step])
    /\ at' = at + 1 /\ polls' = 0 /\ asks' = <<>> /\ reply' = None /\ Adopt
    /\ UNCHANGED <<side, step, valid, approved, kept, used, ended, drops, unmatched>>

\* How a step ended, as far as its documents and its exit code tell.
Verdict == IF reply.ok THEN reply.what ELSE <<reply.error.kind, reply.error.code>>

Over == ~reply.ok \/ Locked \/ at = Len(Program[step])

\* A step is over with its first failure, with a wait that timed out, or with its
\* last call; live, its calls are written down then.
EndStep ==
    /\ reply # None /\ ~Retried /\ ~ToPoll
    /\ Over
    /\ ended' = [ended EXCEPT ![side] = Append(@, Verdict)]
    /\ kept' = IF side = "live" THEN [kept EXCEPT ![step] = Written(@)] ELSE kept
    /\ at' = 1 /\ polls' = 0 /\ asks' = <<>> /\ used' = {} /\ reply' = None /\ Adopt
    /\ \/ step < Len(Program) /\ step' = step + 1 /\ UNCHANGED side
       \/ /\ step = Len(Program) /\ step' = 1
          /\ side' = IF side = "live" THEN "replay" ELSE "done"
    /\ UNCHANGED <<valid, approved, drops, unmatched>>

\* A person, at the phone.
Approve ==
    /\ side = "live" /\ ~approved /\ approved' = TRUE
    /\ UNCHANGED <<side, step, at, polls, reply, asks, held, valid, kept, used, ended,
                   drops, unmatched>>

RunStep == AskLive \/ AskReplay \/ Retry \/ PollAgain \/ NextCall \/ EndStep
Next == RunStep \/ Approve
Spec == Init /\ [][Next]_vars

-----------------------------------------------------------------------------
\* A call that changes the account is made once: a spent challenge is not
\* answered again and a token not rotated twice, however the reply got lost; and
\* a read is made again only after a response that was cut, never after a
\* refusal, which is an answer, and never for more than READ_RETRIES times
\* (domain.rs retrying_read).
RetriesOnlyDrops ==
    asks # <<>> => /\ Call.method \notin Mutating
                   /\ Len(asks) <= READ_RETRIES
                   /\ \A i \in DOMAIN asks : asks[i].error = ToApiError(Cut)

\* Who calls survives two clients, a proxy and the rotation of the token: the
\* recovery's CreateTokens is never refused for its client type, and no command
\* for its token, unless one before it failed of something else, and may have
\* lost a token on the way (server.rs context_from, domain.rs set_access_token).
IdentityIsTaken ==
    side = "live" /\ reply # None /\ ~reply.ok /\ reply.error.code \in IdentityCodes
        => \E s \in 1..step - 1 : ~kept[s][Len(kept[s])].reply.ok

\* Unless it failed loudly for want of a record, a replay ends every step as the
\* live run did: cut responses, refusals and collapsed polls included.
ReplayAgrees ==
    ~unmatched => \A s \in DOMAIN ended.replay : ended.replay[s] = ended.live[s]

\* A step that polled no more than it had to, and dropped nothing, is never short
\* of a record.
CleanReplayIsComplete ==
    unmatched => drops > 0 \/ \E s \in DOMAIN ended.live : ended.live[s] = "locked"
=============================================================================
