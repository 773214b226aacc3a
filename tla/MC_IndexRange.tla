----------------------------- MODULE MC_IndexRange -----------------------------
(* Model-checking instance of IndexRange: bytes 0..2, values and keys of  *)
(* up to two bytes, the attribute's prefix byte 1.                         *)
EXTENDS IndexRange

=============================================================================
