------------------------- MODULE MCTombstoneReaper -------------------------
(* TombstoneReaper for TLC: small devices, papers and PDFs.                *)
EXTENDS TombstoneReaper

CONSTANTS p1, p2, h1, h2

OwnPaths == [p \in Paper |-> p]      \* every paper has a path of its own
OnePdf == {<<1, p1, h1>>, <<2, p2, h1>>}     \* two papers with the same PDF
TwoPdfs == {<<1, p1, h1>>, <<2, p2, h2>>}
JustOne == {<<1, p1, h1>>}
OnePath == [p \in Paper |-> p1]      \* the same paper, added on two devices
=============================================================================
