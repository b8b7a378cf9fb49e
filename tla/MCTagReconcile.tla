--------------------------- MODULE MCTagReconcile ---------------------------
(* TagReconcile on small instances. *)
EXTENDS TagReconcile, TLC

\* The names the users type are interchangeable.
Symmetry == Permutations(Value)

CreateAndTag == {"create", "member"}
CreateAndDelete == {"create", "delete"}
CreateRenameAndTag == {"create", "rename", "member"}
=============================================================================
