------------------------------ MODULE MCSsFile ------------------------------
(* SsFile for TLC: a byte that ends a line (NUL and newline are told apart *)
(* nowhere, and are one value here) and a byte that does not.              *)
EXTENDS SsFile

CONSTANTS a

MCBytes == {NUL, a}
=============================================================================
