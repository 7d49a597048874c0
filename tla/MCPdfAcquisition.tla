--------------------------- MODULE MCPdfAcquisition ---------------------------
EXTENDS PdfAcquisition, TLC
Symmetry == Permutations(Request) \cup Permutations(Inode)
==============================================================================
