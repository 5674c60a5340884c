--------------------------- MODULE MCCodedValue ---------------------------
(* Small instances of CodedValue for TLC. *)
EXTENDS CodedValue

OddCounts == {1, 3, 5}
\* Below 2 ^ FloatBits, where a float is exact.
ExactSizes == 1..15
===========================================================================
