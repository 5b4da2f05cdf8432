-------------------------- MODULE MCSoftSimHandler --------------------------
(* SoftSimHandler for TLC: an ordinary file and a commit-on-close file.    *)
EXTENDS SoftSimHandler, TLC

CONSTANTS loci, seq, old, new

MCFiles == {loci, seq}
MCCommitFiles == {seq}
MCOneFile == {seq}
MCContents == {old, new}
MCSymmetry == Permutations(MCContents)
=============================================================================
