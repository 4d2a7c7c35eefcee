------------------------- MODULE MCSessionSettings -------------------------
(* A small instance of SessionSettings: everything is a model value.        *)
EXTENDS SessionSettings
=============================================================================
