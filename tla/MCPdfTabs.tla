----------------------------- MODULE MCPdfTabs -----------------------------
(* PdfTabs for TLC: a document that overflows the window and a short one.  *)
EXTENDS PdfTabs, TLC

Long == "a"
Short == "b"
Docs == {Long, Short}
Pages == Long :> 2 @@ Short :> 1
TaskSymmetry == Permutations(Tasks)
=============================================================================
