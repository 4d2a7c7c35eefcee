---------------------------- MODULE MCAlgorithms ----------------------------
(***************************************************************************)
(* The pure parts over bounded inputs: every log of up to MaxLen commits,  *)
(* grown a commit at a time; every window that may be typed; every hour of *)
(* a week around a change of the clocks; every SyncUpdate of a few parts.  *)
(* An element carries the number of the commit it came with, so that no    *)
(* two are equal.                                                          *)
(***************************************************************************)
EXTENDS Heymerge, Durations, WireMap

CONSTANTS Elements, Times, MaxLen, Numbers, Junk

ASSUME InputsAssumption ==
    Times \subseteq Nat /\ Numbers \subseteq Nat /\ Absent \notin Nat

VARIABLES
    log,      \* the commits
    input     \* what else is tried: <<what, its arguments ...>>

vars == <<log, input>>

Documents(tag) ==
    UNION {{[d \in ids |-> [time |-> time[d], tag |-> tag]] : time \in [ids -> Times]}
             : ids \in SUBSET Elements}

Nothing == <<"nothing">>

\* Zones with summer time, west and east, in both directions; one that skips
\* 02:00 from 01:30; one that goes back to midnight; one without.
Zones == {[change |-> 146, before |-> 2, after |-> 4],
          [change |-> 146, before |-> 4, after |-> 2],
          [change |-> 158, before |-> -10, after |-> -8],
          [change |-> 156, before |-> -8, after |-> -10],
          [change |-> 147, before |-> 0, after |-> 2],
          [change |-> 148, before |-> -2, after |-> -4],
          [change |-> 0, before |-> 11, after |-> 11]}
ASSUME ZonesAssumption == \A zone \in Zones : Zone(zone)

V(id, type, commit, pair, profiles) ==
    [id |-> id, type |-> type, commit |-> commit, pair |-> pair, profiles |-> profiles]
WireVaults ==
    LET i == CHOOSE x \in Ids : TRUE  t == CHOOSE x \in Types : TRUE
    IN  {V(i, t, Absent, Absent, <<i>>), V(i, t, i, i, <<>>), V(Junk, Junk, Junk, Junk, <<>>),
         V(Junk, t, i, i, <<>>), V(Absent, t, i, i, <<>>), V(i, t, Junk, i, <<>>),
         V(i, t, i, Junk, <<>>), V(i, t, i, i, <<i, Absent>>)}
UpTo(n, S) == UNION {[1..k -> S] : k \in 0..n}
WireLocks == [profile : Ids \cup {Absent, Junk}, authenticator : Ids \cup {Absent},
              generation : {Absent, 2}]
WireProfiles == [id : Ids \cup {Junk}, generation : {1}, locks : UpTo(1, WireLocks)]
Updates == [unlock : UpTo(1, {Absent, CHOOSE x \in Ids : TRUE}),
            sessions : UpTo(1, {Absent, CHOOSE x \in Ids : TRUE}), vaults : UpTo(2, WireVaults),
            profiles : UpTo(1, WireProfiles)]

Init == log = <<>> /\ input = Nothing

Commit ==
    /\ input = Nothing /\ Len(log) < MaxLen
    /\ \E document \in Documents(Len(log) + 1) : log' = Append(log, document)
    /\ UNCHANGED input

Try(what, S) == log = <<>> /\ input = Nothing
                /\ \E x \in S : input' = <<what, x>> /\ UNCHANGED log

Type == Try("timeout", [number : Numbers \cup {NoNumber}, unit : Units])
GrantNow == Try("deadline", (60..300) \X Zones)
Receive == Try("update", Updates)

Next == Commit \/ Type \/ GrantNow \/ Receive

Spec == Init /\ [][Next]_vars

Swapped(i) == [log EXCEPT ![i] = log[i + 1], ![i + 1] = log[i]]

Tie(left, right) == \E d \in DOMAIN left \cap DOMAIN right : left[d].time = right[d].time

\* The fold is, of each element ever committed, the version with the greatest
\* updateTime, the later commit's among equals, and the missing updateTime is
\* the oldest (heyl-vault/src/merge.rs).
FoldIsLatest == Fold(log) = Latest(log)

\* Only a tie makes the order of commits matter: without one, the backend may
\* have created two of them the other way round.
OrderMattersOnlyInTies == \A i \in 1..(Len(log) - 1) :
    ~Tie(log[i], log[i + 1]) => Fold(Swapped(i)) = Fold(log)

\* TimeoutHonoured of every window typed.
TimeoutIsHonoured == input[1] = "timeout" => TimeoutHonoured(input[2])

\* EndsTomorrowNight of every instant and zone.
GrantEndsTomorrowNight ==
    input[1] = "deadline" => EndsTomorrowNight(input[2][1], input[2][2])

\* WholeOrNothing of every update.
SnapshotIsWhole == input[1] = "update" => WholeOrNothing(input[2])
=============================================================================
