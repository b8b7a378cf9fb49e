--------------------------- MODULE MCPaperColumns ---------------------------
(***************************************************************************)
(* PaperColumns for TLC.  Values are interchangeable, and so are columns.  *)
(***************************************************************************)
EXTENDS PaperColumns, TLC

ColumnSymmetry == Permutations(Col)

ValueSymmetry == Permutations(Value)

\* A paper device 1 has added and every device has merged.
Synced ==
    [q \in Part |-> [ua |-> 1, ub |-> 1, deleted |-> FALSE,
                     val |-> IF q = Flag THEN NoValue ELSE CHOOSE v \in Value : TRUE]]

NewPaper == {NoPaper}

NewOrSynced == {NoPaper, Synced}

Symmetry == ColumnSymmetry \union ValueSymmetry

=============================================================================
