----------------------------- MODULE MCRowSync ------------------------------
(***************************************************************************)
(* RowSync for TLC.  Payload values are interchangeable: no action and no  *)
(* safety property tells one from another.                                 *)
(***************************************************************************)
EXTENDS RowSync, TLC

ValueSymmetry == Permutations(Value)

=============================================================================
