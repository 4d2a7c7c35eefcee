--------------------------- MODULE MCSlotLifecycle ---------------------------
(* Small instances of SlotLifecycle: slots, invocations and sessions are    *)
(* model values, the last two interchangeable in every safety property.     *)
EXTENDS SlotLifecycle, TLC

Interchangeable == Permutations(Invocations) \cup Permutations(Sessions)
=============================================================================
