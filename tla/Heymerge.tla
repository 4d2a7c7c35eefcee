------------------------------ MODULE Heymerge ------------------------------
(***************************************************************************)
(* heymerge: the state of a vault is its commits folded oldest first, an   *)
(* element at a time, the newer updateTime winning (heyl-vault/src/merge). *)
(* A document is a function from the ids of the elements it holds to those *)
(* elements; the level of list names above it merges the same way and is   *)
(* left out.  A time is a number, 0 the updateTime that is missing.        *)
(***************************************************************************)
EXTENDS Naturals, Sequences

Empty == [d \in {} |-> d]

\* The document with the element d put in, or in the place of the one it held.
With(document, d, element) ==
    [x \in DOMAIN document \cup {d} |-> IF x = d THEN element ELSE document[x]]

\* Bugs that the properties catch: a tie goes to the earlier commit, and the
\* latest commit is taken for the whole vault.
MutMerge(acc, next) ==
    [d \in DOMAIN acc \cup DOMAIN next |->
        IF d \in DOMAIN acc /\ (d \notin DOMAIN next \/ acc[d].time >= next[d].time)
        THEN acc[d] ELSE next[d]]

MutFold(log) == IF log = <<>> THEN Empty ELSE log[Len(log)]

Merge(acc, next) ==
    [d \in DOMAIN acc \cup DOMAIN next |->
        IF d \in DOMAIN acc /\ (d \notin DOMAIN next \/ acc[d].time > next[d].time)
        THEN acc[d] ELSE next[d]]

Fold(log) ==
    LET fold[n \in 0..Len(log)] ==
            IF n = 0 THEN Empty ELSE Merge(fold[n - 1], log[n])
    IN  fold[Len(log)]

\* What the fold should come to, said without folding: of all the commits that
\* hold d, the last of those with the greatest time.
Winner(log, d) ==
    LET holding == {i \in DOMAIN log : d \in DOMAIN log[i]}
    IN  CHOOSE i \in holding : \A j \in holding :
            \/ log[j][d].time < log[i][d].time
            \/ log[j][d].time = log[i][d].time /\ j <= i

Latest(log) ==
    [d \in UNION {DOMAIN log[i] : i \in DOMAIN log} |-> log[Winner(log, d)][d]]
=============================================================================
