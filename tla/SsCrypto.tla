------------------------------ MODULE SsCrypto ------------------------------
(***************************************************************************)
(* The cipher and checksum operations of lib/ss_crypto.c, call by call     *)
(* into PSA: AES-CBC in place, block by block, and AES-CMAC over two       *)
(* pieces of data.  Any PSA call may fail, a key may be missing, and an    *)
(* update may hold output back until a later call.                         *)
(*                                                                         *)
(* Data abstraction: a byte of a buffer is <<"in", j>>, byte j of what the *)
(* caller passed, <<"out", j>>, byte j of the right result, or zero or     *)
(* junk.  PSA is external: it enforces a key's policy, gives out whole     *)
(* blocks in order, and refuses to finish in the middle of one.            *)
(***************************************************************************)
EXTENDS Integers, Sequences, FiniteSetsExt

CONSTANTS
  AES_BLOCKSIZE,  \* 16
  MAX_LEN         \* bound of the model: length of a buffer

ASSUME CryptoAssumption == AES_BLOCKSIZE \in Nat \ {0} /\ MAX_LEN \in Nat

VARIABLES
  pc,        \* where the call is, "idle" or "returned"
  call,      \* "encrypt", "decrypt", "3des" or "cc"
  key_id,    \* the key its tag stands for
  keys,      \* the keys that are in the key store
  op,        \* the PSA operation: "none", "active" or "failed"
  status,    \* PSA_SUCCESS
  buf,       \* the buffer, enciphered in place
  done,      \* bytes_written or bytes_processed
  out_len,   \* *output_len
  fed,       \* what the PSA operation was given so far
  data,      \* data1 and data2 of a checksum
  cc         \* the caller's checksum: untouched, or the one PSA computed

call_vars == <<call, key_id, keys, data>>
vars == <<pc, call_vars, op, status, buf, done, out_len, fed, cc>>

KeyIds == {"KI", "KIC", "KID"}
Zero   == <<"zero", 0>>
Junk   == <<"junk", 0>>

Input(what, n) == [j \in 1..n |-> <<what, j>>]

Init ==
  /\ pc = "idle" /\ call = "3des" /\ key_id = "UNKNOWN" /\ keys = {}
  /\ op = "none" /\ status = TRUE
  /\ buf = <<>> /\ done = 0 /\ out_len = 0 /\ fed = <<>>
  /\ data = <<<<>>, <<>>>> /\ cc = "untouched"

-----------------------------------------------------------------------------
(* Keys.  A tag in a file stands for a key of the key store.               *)
Tags == {"KI_TAG", "KIC_TAG", "KID_TAG", "other"}

key_tag_to_psa_id(tag) ==
  CASE tag = "KI_TAG"  -> "KI"
    [] tag = "KID_TAG" -> "KID"
    [] tag = "KIC_TAG" -> "KIC"
    [] OTHER           -> "UNKNOWN"

(* Fault: every AES key may do both.                                       *)
usage_flags_wide(id) == IF id = "KID" THEN {"cc"} ELSE {"encrypt", "decrypt"}

(* What ss_utils_setup_key imports a key for.                              *)
usage_flags(id) ==
  CASE id = "KI"  -> {"encrypt"}
    [] id = "KIC" -> {"encrypt", "decrypt"}
    [] OTHER      -> {"cc"}

(* PSA sets an operation up with a key that exists and is meant for it.    *)
MaySetUp == key_id \in keys /\ call \in usage_flags(key_id)

-----------------------------------------------------------------------------
(* Entry of ss_utils_aes_encrypt and ss_utils_aes_decrypt on n bytes: an   *)
(* unknown tag leaves a zeroed buffer.                                     *)
enter_cipher(direction, tag, existing, n) ==
  LET id == key_tag_to_psa_id(tag) IN
  /\ pc = "idle"
  /\ call' = direction /\ key_id' = id /\ keys' = existing
  /\ pc' = IF id = "UNKNOWN" THEN "returned" ELSE "setup"
  /\ buf' = IF id = "UNKNOWN" THEN [j \in 1..n |-> Zero] ELSE Input("in", n)
  /\ UNCHANGED <<op, status, done, out_len, fed, data, cc>>

ss_utils_aes_decrypt(tag, existing, n) == enter_cipher("decrypt", tag, existing, n)

ss_utils_aes_encrypt(tag, existing, n) == enter_cipher("encrypt", tag, existing, n)

(* The 3DES functions do nothing.                                          *)
ss_utils_3des(n) ==
  /\ pc = "idle"
  /\ call' = "3des" /\ buf' = Input("in", n)
  /\ pc' = "returned"
  /\ UNCHANGED <<key_id, keys, op, status, done, out_len, fed, data, cc>>

Failed(next) == status' = FALSE /\ pc' = next

cipher_setup ==
  /\ pc = "setup"
  /\ \/ MaySetUp /\ op' = "active" /\ pc' = "iv" /\ UNCHANGED status
     \/ Failed("exit") /\ UNCHANGED op
  /\ UNCHANGED <<call_vars, buf, done, out_len, fed, cc>>

(* The result is not looked at: after an error PSA refuses what follows.   *)
set_iv ==
  /\ pc = "iv"
  /\ op' \in {"active", "failed"}
  /\ pc' = "update"
  /\ UNCHANGED <<call_vars, status, buf, done, out_len, fed, cc>>

(* Byte j of the output: right if it was computed from the right bytes, up *)
(* to the end of its block (the blocks are chained).                       *)
Output(input, j) ==
  IF \A k \in DOMAIN input : (k - 1) \div AES_BLOCKSIZE <= (j - 1) \div AES_BLOCKSIZE
                               => input[k] = <<"in", k>>
    THEN <<"out", j>> ELSE Junk

(* Fault: output goes where the input was read.                            *)
OutAtInput == done

(* Output goes behind the output so far.                                   *)
OutAt == out_len

(* PSA writes the next n bytes of output.                                  *)
Written(input, n) ==
  [j \in DOMAIN buf |-> IF j - OutAt \in 1..n THEN Output(input, out_len + j - OutAt) ELSE buf[j]]

(* A call that fails may leave anything in its output window.              *)
MayScribble(n) ==
  buf' \in {buf, [j \in DOMAIN buf |-> IF j - OutAt \in 1..n THEN Junk ELSE buf[j]]}

(* One psa_cipher_update, of a block or of the rest, with room for as much *)
(* output as it is given input.                                            *)
cipher_update ==
  LET part  == Min({AES_BLOCKSIZE, Len(buf) - done})
      input == fed \o SubSeq(buf, done + 1, done + part)
  IN
  /\ pc = "update" /\ done # Len(buf)
  /\ \/ /\ op = "active"
        /\ \E n \in 0..part :
             /\ n % AES_BLOCKSIZE = 0 /\ out_len + n <= Len(input)
             /\ buf' = Written(input, n)
             /\ out_len' = out_len + n
        /\ fed' = input /\ done' = done + part
        /\ UNCHANGED <<pc, status>>
     \/ /\ MayScribble(part)
        /\ Failed("exit")
        /\ UNCHANGED <<out_len, fed, done>>
  /\ UNCHANGED <<call_vars, op, cc>>

(* psa_cipher_finish gives out what was held back; without padding it      *)
(* fails in the middle of a block.                                         *)
cipher_finish ==
  LET rest == Len(buf) - out_len IN
  /\ pc = "update" /\ done = Len(buf)
  /\ \/ /\ op = "active" /\ Len(fed) % AES_BLOCKSIZE = 0
        /\ buf' = Written(fed, rest)
        /\ out_len' = out_len + rest
        /\ pc' = "exit"
        /\ UNCHANGED status
     \/ /\ MayScribble(rest)
        /\ Failed("exit")
        /\ UNCHANGED out_len
  /\ UNCHANGED <<call_vars, op, done, fed, cc>>

(* Fault: a failed operation returns without an abort.                     *)
AbortedOnSuccess == IF status THEN "none" ELSE op

Aborted == "none"

Wiped == [j \in DOMAIN buf |-> Zero]

(* exit: a failed call wipes the buffer; the operation is aborted.         *)
cipher_exit ==
  /\ pc = "exit"
  /\ buf' = IF status THEN buf ELSE Wiped
  /\ op' = Aborted
  /\ pc' = "returned"
  /\ UNCHANGED <<call_vars, status, done, out_len, fed, cc>>

-----------------------------------------------------------------------------
(* ss_utils_ota_calc_cc on n1 and n2 bytes: AES-CMAC with KID only.  That  *)
(* n1 is a multiple of the block is the caller's duty (an assertion).      *)
ss_utils_ota_calc_cc(cmac, tag, existing, n1, n2) ==
  LET id == key_tag_to_psa_id(tag) IN
  /\ pc = "idle" /\ n1 % AES_BLOCKSIZE = 0
  /\ call' = "cc" /\ key_id' = id /\ keys' = existing
  /\ data' = <<Input("data1", n1), Input("data2", n2)>>
  /\ IF cmac /\ id = "KID" THEN pc' = "mac_setup" /\ UNCHANGED status
                           ELSE Failed("returned")
  /\ UNCHANGED <<op, buf, done, out_len, fed, cc>>

mac_setup ==
  /\ pc = "mac_setup"
  /\ \/ MaySetUp /\ op' = "active" /\ pc' = "data1" /\ UNCHANGED status
     \/ Failed("mac_exit") /\ UNCHANGED op
  /\ UNCHANGED <<call_vars, buf, done, out_len, fed, cc>>

(* psa_mac_update with the next n bytes of piece d                         *)
mac_update(d, n) ==
  /\ \/ /\ fed' = fed \o SubSeq(data[d], done + 1, done + n)
        /\ done' = done + n
        /\ UNCHANGED <<pc, status>>
     \/ Failed("mac_exit") /\ UNCHANGED <<fed, done>>
  /\ UNCHANGED <<call_vars, op, buf, out_len, cc>>

(* Fault: data2 is not taken from its start.                               *)
ResetProcessedNot == done

(* bytes_processed = 0                                                     *)
ResetProcessed == 0

(* Whole blocks of data1, then from the start of data2.                    *)
mac_data1 ==
  /\ pc = "data1"
  /\ \/ /\ done + AES_BLOCKSIZE <= Len(data[1])
        /\ mac_update(1, AES_BLOCKSIZE)
     \/ /\ done + AES_BLOCKSIZE > Len(data[1])
        /\ pc' = "data2" /\ done' = ResetProcessed
        /\ UNCHANGED <<call_vars, op, status, buf, out_len, fed, cc>>

(* data2 goes in blocks while more than a block is left.                   *)
MoreBlocks(rest) == rest > AES_BLOCKSIZE

mac_data2 ==
  /\ pc = "data2" /\ MoreBlocks(Len(data[2]) - done)
  /\ mac_update(2, AES_BLOCKSIZE)

(* The rest, the end of the computation and the copy to the caller; each   *)
(* of the two PSA calls may fail.                                          *)
mac_finish ==
  LET rest == Len(data[2]) - done IN
  /\ pc = "data2" /\ ~MoreBlocks(rest)
  /\ \/ /\ fed' = fed \o SubSeq(data[2], done + 1, done + rest)
        /\ cc' = "mac"
        /\ pc' = "mac_exit"
        /\ UNCHANGED status
     \/ Failed("mac_exit") /\ UNCHANGED <<fed, cc>>
  /\ UNCHANGED <<call_vars, op, buf, done, out_len>>

mac_exit ==
  /\ pc = "mac_exit"
  /\ op' = Aborted
  /\ pc' = "returned"
  /\ UNCHANGED <<call_vars, status, buf, done, out_len, fed, cc>>

(* The caller has the result; nothing is left of the call but what it left *)
(* in PSA.                                                                 *)
return ==
  /\ pc = "returned"
  /\ pc' = "idle" /\ call' = "3des" /\ key_id' = "UNKNOWN" /\ keys' = {}
  /\ status' = TRUE
  /\ buf' = <<>> /\ done' = 0 /\ out_len' = 0 /\ fed' = <<>>
  /\ data' = <<<<>>, <<>>>> /\ cc' = "untouched"
  /\ UNCHANGED op

Next ==
  \/ \E n \in 0..MAX_LEN :
       \/ ss_utils_3des(n)
       \/ \E tag \in Tags, existing \in SUBSET KeyIds :
            \/ ss_utils_aes_decrypt(tag, existing, n)
            \/ ss_utils_aes_encrypt(tag, existing, n)
            \/ \E cmac \in BOOLEAN, n1 \in 0..MAX_LEN :
                 ss_utils_ota_calc_cc(cmac, tag, existing, n1, n)
  \/ cipher_setup \/ set_iv \/ cipher_update \/ cipher_finish \/ cipher_exit
  \/ mac_setup \/ mac_data1 \/ mac_data2 \/ mac_finish \/ mac_exit
  \/ return

Spec == Init /\ [][Next]_vars

-----------------------------------------------------------------------------
(* Properties.                                                             *)

IsCipher == call \in {"encrypt", "decrypt"}

(* An AES call leaves the whole right result in the buffer or only zeros,  *)
(* whichever call into PSA failed and however output was held back (code:  *)
(* "a half-ciphered buffer must not reach the air", "a half-deciphered     *)
(* command must not be parsed").                                           *)
CipherAllOrNothing ==
  pc = "returned" /\ IsCipher =>
    \/ buf = Input("out", Len(buf))
    \/ \A j \in DOMAIN buf : buf[j] = Zero

(* A key does only what it is for (ss_utils_setup_key: "KI only used for   *)
(* encryption", "KIC only used for encryption/decrypt AES operations",     *)
(* "KID only used for CMAC operations"): there is a result only with such  *)
(* a key, and the key is there.                                            *)
KeyForItsPurpose ==
  pc = "returned" =>
    /\ IsCipher /\ buf # <<>> /\ buf = Input("out", Len(buf)) =>
         key_id \in keys \cap (IF call = "decrypt" THEN {"KIC"} ELSE {"KI", "KIC"})
    /\ call = "cc" /\ status => key_id \in keys \cap {"KID"}

(* No call returns with a PSA operation still set up.                      *)
OpReleased == pc \in {"idle", "returned"} => op = "none"

(* A checksum is of data1 and then data2, every byte once; the caller's    *)
(* buffer is written exactly when the call returns 0.                      *)
MacCoversData ==
  pc = "returned" /\ call = "cc" =>
    /\ status => fed = data[1] \o data[2]
    /\ cc = IF status THEN "mac" ELSE "untouched"

-----------------------------------------------------------------------------
(* The inductive invariant, for the proofs.                                *)

Byte == {"in", "out", "zero", "junk", "data1", "data2"} \X Nat

CipherPcs == {"setup", "iv", "update", "exit"}
MacPcs    == {"mac_setup", "data1", "data2", "mac_exit"}

TypeOK ==
  /\ pc \in CipherPcs \cup MacPcs \cup {"idle", "returned"}
  /\ call \in {"encrypt", "decrypt", "3des", "cc"}
  /\ key_id \in KeyIds \cup {"UNKNOWN"} /\ keys \subseteq KeyIds
  /\ op \in {"none", "active", "failed"} /\ status \in BOOLEAN
  /\ buf \in Seq(Byte) /\ fed \in Seq(Byte)
  /\ done \in Nat /\ out_len \in Nat
  /\ data \in Seq(Byte) \X Seq(Byte)
  /\ cc \in {"untouched", "mac"}

(* Who is at work, and that PSA admitted the key where it matters.         *)
CallState ==
  /\ pc \in CipherPcs => IsCipher
  /\ pc \in MacPcs => call = "cc" /\ key_id = "KID"
  /\ pc \in {"idle", "setup", "mac_setup", "returned"} => op = "none"
  /\ pc \in (CipherPcs \cup MacPcs \cup {"idle"}) \ {"exit", "mac_exit"} =>
       status /\ cc = "untouched"
  /\ pc \in {"iv", "update", "data1", "data2"} \/ (pc \in {"exit", "mac_exit"} /\ status) => MaySetUp
  /\ pc \in {"idle", "setup", "iv", "mac_setup"} => done = 0 /\ out_len = 0 /\ fed = <<>>

(* The buffer is enciphered in place: it begins with the output so far,    *)
(* what PSA has been given is the input so far, and what it will be given  *)
(* is still in the buffer.                                                 *)
CipherProgress ==
  /\ pc \in {"setup", "iv"} => buf = Input("in", Len(buf))
  /\ pc = "update" =>
       /\ out_len <= done /\ done <= Len(buf)
       /\ fed = Input("in", done)
       /\ \A j \in 1..out_len : buf[j] = <<"out", j>>
       /\ \A j \in (done + 1)..Len(buf) : buf[j] = <<"in", j>>
  /\ pc = "exit" /\ status => buf = Input("out", Len(buf))

(* PSA has been given the pieces of a checksum up to the current position. *)
MacProgress ==
  /\ pc \in {"mac_setup", "data1"} => Len(data[1]) % AES_BLOCKSIZE = 0
  /\ pc = "data1" =>
       /\ done <= Len(data[1]) /\ (Len(data[1]) - done) % AES_BLOCKSIZE = 0
       /\ fed = SubSeq(data[1], 1, done)
  /\ pc = "data2" =>
       /\ done <= Len(data[2])
       /\ fed = data[1] \o SubSeq(data[2], 1, done)
  /\ pc = "mac_exit" =>
       /\ status => fed = data[1] \o data[2]
       /\ cc = IF status THEN "mac" ELSE "untouched"

CryptoInv ==
  /\ TypeOK /\ CallState /\ CipherProgress /\ MacProgress
  /\ CipherAllOrNothing /\ KeyForItsPurpose /\ MacCoversData
=============================================================================
