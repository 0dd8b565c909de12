-------------------------- MODULE MCHindsightStore --------------------------
(* The instance of HindsightStore that is checked: its values are in the cfg. *)
EXTENDS HindsightStore
=============================================================================
