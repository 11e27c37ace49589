---------------------------- MODULE MCS3Objects -----------------------------
(* Instances of S3Objects for TLC.                                         *)
EXTENDS S3Objects, TLC

\* Goroutines differ only in what they may begin; object ids not at all.
Symmetry == Permutations(Oids)
SymmetryW == Permutations(Workers) \cup Permutations(Oids)
=============================================================================
