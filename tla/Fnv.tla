-------------------------------- MODULE Fnv --------------------------------
(***************************************************************************)
(* The FNV-1a hash of lib/ss_cache.c, on HASH_BITS bits.  The code has 32, *)
(* an offset basis of 2166136261 and a prime of 16777619; fewer bits make  *)
(* short names collide, which is the case that matters.                    *)
(***************************************************************************)
EXTENDS Integers, Sequences
LOCAL INSTANCE Bitwise
LOCAL INSTANCE SequencesExt

CONSTANTS FNV_BASIS, FNV_PRIME, HASH_BITS

(* hash = (hash ^ data[i]) * prime, modulo the width of the hash           *)
FnvHash(data) ==
  LET Mix(hash, byte) == ((hash ^^ byte) * FNV_PRIME) % (2 ^ HASH_BITS)
  IN  FoldLeft(Mix, FNV_BASIS, data)
=============================================================================
