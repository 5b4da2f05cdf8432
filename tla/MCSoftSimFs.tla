---------------------------- MODULE MCSoftSimFs ----------------------------
(***************************************************************************)
(* SoftSimFs for TLC: three files, one of them commit-on-close, over two   *)
(* slots, so that the third open evicts; three contents of two sizes.      *)
(***************************************************************************)
EXTENDS SoftSimFs, TLC

CONSTANTS imsi, seq, loci, short1, short2, long

MCFiles == {imsi, seq, loci}
MCDirBlob == <<imsi, seq, loci>>
MCCommitFiles == {seq}
MCContents == {short1, short2, long}
MCSizeOf == [c \in MCContents |-> IF c = long THEN 2 ELSE 1]

(* the two contents of one size are interchangeable *)
MCSymmetry == Permutations({short1, short2})
=============================================================================
