--------------------------- MODULE MCSnapshotStream ---------------------------
(* Instances of SnapshotStream for TLC.                                      *)
EXTENDS SnapshotStream, TLC

\* Windows are interchangeable.
Symmetry == Permutations(Windows)
=============================================================================
