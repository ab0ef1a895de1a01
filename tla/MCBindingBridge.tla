--------------------------- MODULE MCBindingBridge ---------------------------
(* BindingBridge on a small instance, as it is.                            *)
EXTENDS BindingBridge
=============================================================================
