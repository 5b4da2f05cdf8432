----------------------------- MODULE MCSsCrypto -----------------------------
(* SsCrypto for TLC: blocks of two bytes, buffers of up to seven: empty,   *)
(* whole blocks and partial ones.                                          *)
EXTENDS SsCrypto
=============================================================================
