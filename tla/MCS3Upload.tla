----------------------------- MODULE MCS3Upload -----------------------------
(* Small instances of S3Upload.  Workers, upload ids, part ids and part     *)
(* numbers are only compared for equality, so their permutations are        *)
(* symmetries of the invariants' runs.                                      *)
EXTENDS S3Upload, TLC

Symmetry == Permutations(Workers) \cup Permutations(Ids) \cup Permutations(PIds)
            \cup Permutations(PartNos)
=============================================================================
