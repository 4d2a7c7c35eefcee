--------------------------- MODULE ConfirmedAccess ---------------------------
(***************************************************************************)
(* What an unlock promises, whoever runs and whatever fails: nobody holds  *)
(* the seed but out of a window that was approved, and on a strict slot    *)
(* every access takes an approval of its own ("confirm every access",      *)
(* session/lifecycle.rs).                                                  *)
(***************************************************************************)
CONSTANTS
    Invocations,  \* CLI processes
    Strict        \* TRUE: an approval is good for one access

VARIABLES
    window,       \* an approval is there to be used
    holders       \* invocations that hold the seed

Init == window \in BOOLEAN /\ holders = {}

Approve == window' = TRUE /\ UNCHANGED holders

Lapse == window' = FALSE /\ UNCHANGED holders

Access(p) ==
    /\ window
    /\ window' = ~Strict
    /\ holders' = holders \cup {p}

\* The seed is zeroized when the command ends.
Leave(p) == holders' = holders \ {p} /\ window' \in {window, FALSE}

Next ==
    \/ Approve
    \/ Lapse
    \/ \E p \in Invocations : Access(p) \/ Leave(p)

Spec == Init /\ [][Next]_<<window, holders>>
=============================================================================
