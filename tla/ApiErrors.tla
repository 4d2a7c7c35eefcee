----------------------------- MODULE ApiErrors -----------------------------
(***************************************************************************)
(* What becomes of a refusal on its way up: the status of the wire, the    *)
(* error of the port, the error a recording keeps, and the status that a   *)
(* proxy or a replay sends in its turn (heyl-grpc status.rs, corpus.rs,    *)
(* server.rs).  Of a message only one thing matters: that it says the      *)
(* trailers never came.                                                    *)
(***************************************************************************)
EXTENDS Integers

NoCode == 0
MISSING_CREDENTIALS  == 30100
REJECTED_CREDENTIALS == 30420
BAD_REQUEST          == 10400
InvalidSessionType   == 30460

Unknown == 2
InvalidArgument == 3
PermissionDenied == 7
Unimplemented == 12
Unauthenticated == 16

\* On the wire: a gRPC status, the code of the DomainError in its details, and
\* whether the message is that of a response cut short.
Status(n, code, cut) == [status |-> n, code |-> code, cut |-> cut]

ApiError(kind, s) == [kind |-> kind, status |-> s.status, code |-> s.code, cut |-> s.cut]

\* A cut response is the transport's, whatever the status says; then the code
\* says more than the status.  Only Backend keeps the status.
ToApiError(s) ==
    IF s.status = Unknown /\ s.cut
    THEN ApiError("Transport", Status(Unknown, NoCode, TRUE))
    ELSE IF s.code = MISSING_CREDENTIALS \/ s.status = Unauthenticated
    THEN ApiError("Unauthenticated", Status(Unauthenticated, s.code, FALSE))
    ELSE IF s.code = REJECTED_CREDENTIALS \/ s.status = PermissionDenied
    THEN ApiError("PermissionDenied", Status(PermissionDenied, s.code, FALSE))
    ELSE IF s.code = BAD_REQUEST
    THEN ApiError("BadRequest", Status(InvalidArgument, s.code, s.cut))
    ELSE ApiError("Backend", s)

\* What is kept of an error, what a replay raises for it, and what the server
\* sends for either: each has its number, the rest are 2 with their text.
RecordedError(e) == Status(e.status, e.code, e.cut)

Replayed(r) ==
    IF r.status = Unauthenticated THEN ApiError("Unauthenticated", r)
    ELSE IF r.status = PermissionDenied THEN ApiError("PermissionDenied", r)
    ELSE IF r.status = InvalidArgument THEN ApiError("BadRequest", r)
    ELSE ApiError("Backend", r)

\* Mutated: an error that is nobody's answer loses its text.
MutWireError(e) == Status(e.status, e.code, e.cut /\ e.kind # "Backend")

WireError(e) == Status(e.status, e.code, e.cut)
=============================================================================
