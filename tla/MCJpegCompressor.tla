--------------------------- MODULE MCJpegCompressor ---------------------------
(* Small instances of JpegCompressor for TLC.  Loops are interchangeable,  *)
(* and so are members, and sizes.                                          *)
EXTENDS JpegCompressor, TLC

Symmetry == Permutations(Loops) \cup Permutations(Clients)
                \cup Permutations(Sizes)
=============================================================================
