---------------------------- MODULE MCTransport ----------------------------
(* A recovery, then an unlock and two vaults that differ only by id, then
   a command that meets a token lost by the one before.                     *)
EXTENDS Transport

C(method, request) == [method |-> method, request |-> request, polled |-> FALSE]
MCProgram ==
    <<<<C("CreateChallenge", "email"), C("CreateTokens", "BACKUP_CODE")>>,
      <<C("RefreshToken", ""), C("RequestSessionUnlock", ""),
        [C("Sync", "") EXCEPT !.polled = TRUE],
        C("ListCommits", "v1"), C("ListCommits", "v2")>>,
      <<C("ListCommits", "v1")>>>>
MCRefusals == {Status(13, BAD_REQUEST, FALSE), Status(InvalidArgument, NoCode, FALSE)}
=============================================================================
