------------------------- MODULE MCBindingExchange -------------------------
(***************************************************************************)
(* BindingExchange on small instances.  References and exits are           *)
(* interchangeable, so the safety runs may permute them.                   *)
(***************************************************************************)
EXTENDS BindingExchange, TLC

Interchangeable == Permutations(Ref) \cup Permutations(Exit)
=============================================================================
