----------------------------- MODULE Selection -----------------------------
(***************************************************************************)
(* The members of a sequence that are in a set, in the order they have: an *)
(* iterator's `filter`, said so that what it returns can be proved.        *)
(***************************************************************************)
EXTENDS Naturals, Sequences, FiniteSets

\* The k-th is the one that has k of them up to its place.
Pick(seq, S) ==
    LET upTo(i) == Cardinality({j \in 1..i : seq[j] \in S})
        at(k) == CHOOSE i \in DOMAIN seq : seq[i] \in S /\ upTo(i) = k
    IN  [k \in 1..upTo(Len(seq)) |-> seq[at(k)]]
=============================================================================
