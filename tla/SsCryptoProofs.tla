--------------------------- MODULE SsCryptoProofs ---------------------------
(***************************************************************************)
(* Proofs about SsCrypto, for every block size and every length of the     *)
(* buffers: what the AES calls leave in the caller's buffer, what a        *)
(* checksum is computed over, which keys give a result, and that no PSA    *)
(* operation is left behind.                                               *)
(***************************************************************************)
EXTENDS SsCrypto, SequenceTheorems, TLAPS

USE CryptoAssumption

-----------------------------------------------------------------------------
(* Arithmetic and sequences.                                               *)

LEMMA LastBlock ==
  ASSUME NEW a \in Nat, a % AES_BLOCKSIZE = 0, a < AES_BLOCKSIZE
  PROVE  a = 0
OBVIOUS

LEMMA SmallMultiple ==
  ASSUME NEW b \in Nat \ {0}, NEW x \in Int, 0 <= b * x, b * x < b
  PROVE  b * x = 0
<1>1. x < 1
  <2>1. x >= 1 => b * x >= b
    OBVIOUS
  <2> QED
    BY <2>1
<1>2. x > -1
  <2>1. x <= -1 => b * x <= -b
    OBVIOUS
  <2> QED
    BY <2>1
<1> QED
  BY <1>1, <1>2

LEMMA OneBlockLess ==
  ASSUME NEW a \in Nat, a % AES_BLOCKSIZE = 0, a >= AES_BLOCKSIZE
  PROVE  (a - AES_BLOCKSIZE) % AES_BLOCKSIZE = 0
<1> DEFINE b == AES_BLOCKSIZE
           q == a \div b
           c == a - b
           t == c \div b
           r == c % b
<1>1. b \in Nat \ {0} /\ q \in Int /\ t \in Int /\ r \in Int /\ c \in Nat
  OBVIOUS
<1>2. a = b * q
  OBVIOUS
<1>3. c = b * t + r /\ 0 <= r /\ r < b
  OBVIOUS
<1>4. r = b * (q - 1 - t)
  <2> HIDE DEF q, t, r
  <2> QED
    BY <1>1, <1>2, <1>3
<1>5. r = 0
  <2> HIDE DEF b, q, t, r
  <2> QED
    BY <1>1, <1>3, <1>4, SmallMultiple
<1> QED
  BY <1>5

(* The part of the buffer an update is given.                              *)
LEMMA PartValue ==
  ASSUME NEW n \in Nat
  PROVE  Min({AES_BLOCKSIZE, n}) = IF AES_BLOCKSIZE <= n THEN AES_BLOCKSIZE ELSE n
BY DEF Min

LEMMA InputFacts ==
  ASSUME NEW what \in {"in", "out", "data1", "data2"}, NEW n \in Nat
  PROVE  /\ Input(what, n) \in Seq(Byte)
         /\ Len(Input(what, n)) = n
         /\ \A j \in 1..n : Input(what, n)[j] = <<what, j>>
BY DEF Input, Byte

(* Reading on from where the bytes so far end.                             *)
LEMMA Extends ==
  ASSUME NEW s \in Seq(Byte), NEW d \in Nat, NEW n \in Nat, d + n <= Len(s)
  PROVE  SubSeq(s, 1, d) \o SubSeq(s, d + 1, d + n) = SubSeq(s, 1, d + n)
BY ConcatAdjacentSubSeq


-----------------------------------------------------------------------------
(* Entry and return.                                                       *)

LEMMA TagFacts ==
  ASSUME NEW tag \in Tags
  PROVE  key_tag_to_psa_id(tag) \in KeyIds \cup {"UNKNOWN"}
BY DEF key_tag_to_psa_id, Tags, KeyIds

LEMMA EnterCipher ==
  ASSUME CryptoInv, NEW direction \in {"encrypt", "decrypt"}, NEW tag \in Tags,
         NEW existing \in SUBSET KeyIds, NEW n \in Nat, enter_cipher(direction, tag, existing, n)
  PROVE  CryptoInv'
<1> DEFINE id == key_tag_to_psa_id(tag)
<1>1. /\ pc = "idle" /\ call' = direction /\ key_id' = id /\ keys' = existing
      /\ UNCHANGED <<op, status, done, out_len, fed, data, cc>>
      /\ op = "none" /\ status /\ cc = "untouched" /\ done = 0 /\ out_len = 0 /\ fed = <<>>
  BY DEF enter_cipher, CryptoInv, CallState
<1>2. id \in KeyIds \cup {"UNKNOWN"}
  BY TagFacts
<1>3. CASE id = "UNKNOWN"
  <2>1. pc' = "returned" /\ buf' = [j \in 1..n |-> Zero]
    BY <1>3 DEF enter_cipher
  <2>2. buf' \in Seq(Byte) /\ Len(buf') = n /\ \A j \in DOMAIN buf' : buf'[j] = Zero
    BY <2>1 DEF Zero, Byte
  <2>3. TypeOK'
    BY <1>1, <1>2, <2>1, <2>2 DEF CryptoInv, TypeOK
  <2>4. CipherAllOrNothing'
    BY <2>2 DEF CipherAllOrNothing
  <2>5. KeyForItsPurpose'
    <3>1. buf' # <<>> => buf' # Input("out", Len(buf'))
      <4> SUFFICES ASSUME buf' # <<>>, buf' = Input("out", Len(buf')) PROVE FALSE
        OBVIOUS
      <4>1. 1 \in DOMAIN buf' /\ 1 \in 1..Len(buf')
        BY <2>2
      <4>2. buf'[1] = <<"out", 1>>
        <5>1. n \in Nat /\ 1 \in 1..n /\ buf' = Input("out", n)
          BY <2>2, <4>1
        <5> QED
          BY <5>1 DEF Input
      <4> QED
        BY <2>2, <4>1, <4>2 DEF Zero
    <3> QED
      BY <1>1, <3>1 DEF KeyForItsPurpose
  <2> QED
    BY <1>1, <2>1, <2>3, <2>4, <2>5
    DEF CryptoInv, CallState, CipherProgress, MacProgress, MacCoversData, CipherPcs, MacPcs
<1>4. CASE id # "UNKNOWN"
  <2>1. pc' = "setup" /\ buf' = Input("in", n)
    BY <1>4 DEF enter_cipher
  <2>2. buf' \in Seq(Byte) /\ Len(buf') = n
    BY <2>1, InputFacts
  <2>3. TypeOK'
    BY <1>1, <1>2, <2>1, <2>2 DEF CryptoInv, TypeOK, CipherPcs
  <2> QED
    BY <1>1, <2>1, <2>2, <2>3
    DEF CryptoInv, CallState, CipherProgress, MacProgress, MacCoversData, CipherAllOrNothing,
        KeyForItsPurpose, CipherPcs, MacPcs, IsCipher
<1> QED
  BY <1>3, <1>4

LEMMA Enter3des ==
  ASSUME CryptoInv, NEW n \in Nat, ss_utils_3des(n)
  PROVE  CryptoInv'
<1>1. buf' \in Seq(Byte)
  BY InputFacts DEF ss_utils_3des
<1>2. TypeOK'
  BY <1>1 DEF CryptoInv, TypeOK, ss_utils_3des
<1>3. pc' = "returned" /\ call' = "3des" /\ op' = "none"
  BY DEF CryptoInv, CallState, ss_utils_3des
<1> QED
  BY <1>2, <1>3
  DEF CryptoInv, CallState, CipherProgress, MacProgress, MacCoversData, CipherAllOrNothing,
      KeyForItsPurpose, CipherPcs, MacPcs, IsCipher

LEMMA EnterCc ==
  ASSUME CryptoInv, NEW cmac \in BOOLEAN, NEW tag \in Tags, NEW existing \in SUBSET KeyIds,
         NEW n1 \in Nat, NEW n2 \in Nat, ss_utils_ota_calc_cc(cmac, tag, existing, n1, n2)
  PROVE  CryptoInv'
<1> DEFINE id == key_tag_to_psa_id(tag)
<1>1. /\ pc = "idle" /\ call' = "cc" /\ key_id' = id /\ keys' = existing
      /\ data' = <<Input("data1", n1), Input("data2", n2)>>
      /\ n1 % AES_BLOCKSIZE = 0
      /\ UNCHANGED <<op, buf, done, out_len, fed, cc>>
      /\ op = "none" /\ status /\ cc = "untouched" /\ done = 0 /\ out_len = 0 /\ fed = <<>>
  BY DEF ss_utils_ota_calc_cc, CryptoInv, CallState
<1>2. id \in KeyIds \cup {"UNKNOWN"}
  BY TagFacts
<1>3. data' \in Seq(Byte) \X Seq(Byte) /\ Len(data'[1]) = n1
  BY <1>1, InputFacts
<1>4. \/ id = "KID" /\ pc' = "mac_setup" /\ status' = status
      \/ pc' = "returned" /\ status' = FALSE
  BY DEF ss_utils_ota_calc_cc, Failed
<1>5. TypeOK'
  <2>1. status' \in BOOLEAN
    BY <1>4, Zenon DEF CryptoInv, TypeOK
  <2>2. pc' \in CipherPcs \cup MacPcs \cup {"idle", "returned"}
    BY <1>4 DEF MacPcs
  <2> QED
    BY <1>1, <1>2, <1>3, <2>1, <2>2 DEF CryptoInv, TypeOK
<1>6. CASE id = "KID" /\ pc' = "mac_setup" /\ status' = status
  BY <1>1, <1>3, <1>5, <1>6
  DEF CryptoInv, CallState, CipherProgress, MacProgress, MacCoversData, CipherAllOrNothing,
      KeyForItsPurpose, CipherPcs, MacPcs, IsCipher
<1>7. CASE pc' = "returned" /\ status' = FALSE
  BY <1>1, <1>5, <1>7
  DEF CryptoInv, CallState, CipherProgress, MacProgress, MacCoversData, CipherAllOrNothing,
      KeyForItsPurpose, CipherPcs, MacPcs, IsCipher
<1> QED
  BY <1>4, <1>6, <1>7, Zenon

LEMMA Returns ==
  ASSUME CryptoInv, return
  PROVE  CryptoInv'
<1>1. <<>> \in Seq(Byte) /\ <<<<>>, <<>>>> \in Seq(Byte) \X Seq(Byte)
  BY EmptySeq, Zenon
<1>2. TypeOK'
  BY <1>1 DEF CryptoInv, TypeOK, return
<1> QED
  BY <1>2
  DEF return, CryptoInv, CallState, CipherProgress, MacProgress, MacCoversData, CipherAllOrNothing,
      KeyForItsPurpose, CipherPcs, MacPcs, IsCipher


-----------------------------------------------------------------------------
(* The cipher calls.                                                       *)

LEMMA WrittenFacts ==
  ASSUME TypeOK, NEW m \in Nat, NEW n \in Nat
  PROVE  /\ Written(Input("in", m), n) \in Seq(Byte)
         /\ Len(Written(Input("in", m), n)) = Len(buf)
         /\ \A j \in 1..Len(buf) : out_len < j /\ j <= out_len + n =>
              Written(Input("in", m), n)[j] = <<"out", j>>
         /\ \A j \in 1..Len(buf) : j <= out_len \/ out_len + n < j =>
              Written(Input("in", m), n)[j] = buf[j]
<1>1. \A j : Output(Input("in", m), j) = <<"out", j>>
  <2>1. \A k \in DOMAIN Input("in", m) : Input("in", m)[k] = <<"in", k>>
    BY DEF Input
  <2> QED
    BY <2>1 DEF Output
<1>2. buf \in Seq(Byte) /\ Len(buf) \in Nat /\ DOMAIN buf = 1..Len(buf) /\ out_len \in Nat
  BY LenProperties DEF TypeOK
<1>3. \A j \in 1..Len(buf) : buf[j] \in Byte /\ <<"out", j>> \in Byte
  BY <1>2, ElementOfSeq DEF Byte
<1> DEFINE w == [j \in 1..Len(buf) |-> IF j > out_len /\ j <= out_len + n THEN <<"out", j>> ELSE buf[j]]
<1>4. Written(Input("in", m), n) = w
  <2>1. \A j \in 1..Len(buf) : /\ j - out_len \in 1..n <=> j > out_len /\ j <= out_len + n
                               /\ out_len + j - out_len = j
    BY <1>2
  <2> QED
    BY <1>1, <1>2, <2>1 DEF Written, OutAt
<1>5. w \in [1..Len(buf) -> Byte]
  BY <1>2, <1>3
<1>6. w \in Seq(Byte) /\ Len(w) = Len(buf)
  BY <1>2, <1>5
<1>7. /\ \A j \in 1..Len(buf) : out_len < j /\ j <= out_len + n => w[j] = <<"out", j>>
      /\ \A j \in 1..Len(buf) : j <= out_len \/ out_len + n < j => w[j] = buf[j]
  BY <1>2
<1> QED
  BY <1>4, <1>6, <1>7, Zenon

LEMMA ScribbleType ==
  ASSUME TypeOK, NEW n, MayScribble(n)
  PROVE  buf' \in Seq(Byte)
<1>1. buf \in Seq(Byte) /\ Len(buf) \in Nat /\ DOMAIN buf = 1..Len(buf)
  BY LenProperties DEF TypeOK
<1>2. \A j \in 1..Len(buf) : buf[j] \in Byte /\ Junk \in Byte
  BY <1>1, ElementOfSeq DEF Byte, Junk
<1> DEFINE w == [j \in 1..Len(buf) |-> IF j - OutAt \in 1..n THEN Junk ELSE buf[j]]
<1>3. w \in [1..Len(buf) -> Byte]
  BY <1>2
<1>4. buf' = buf \/ buf' = w
  BY <1>1 DEF MayScribble
<1>5. w \in Seq(Byte)
  BY <1>1, <1>3
<1> QED
  BY <1>1, <1>4, <1>5

(* A cipher call that has failed on its way to the exit.                   *)
LEMMA CipherFails ==
  ASSUME CryptoInv, TypeOK', pc \in CipherPcs, Failed("exit"), UNCHANGED <<call_vars, cc>>
  PROVE  CryptoInv'
BY DEF Failed, call_vars, CryptoInv, CallState, CipherProgress, MacProgress, MacCoversData,
       CipherAllOrNothing, KeyForItsPurpose, CipherPcs, MacPcs, IsCipher

LEMMA CipherSetup ==
  ASSUME CryptoInv, cipher_setup \/ set_iv
  PROVE  CryptoInv'
<1>1. TypeOK'
  <2>1. status' \in BOOLEAN
    BY Zenon DEF CryptoInv, TypeOK, cipher_setup, set_iv, Failed
  <2>2. op' \in {"none", "active", "failed"}
    BY DEF CryptoInv, TypeOK, cipher_setup, set_iv
  <2>3. pc' \in CipherPcs
    BY DEF cipher_setup, set_iv, Failed, CipherPcs
  <2> QED
    BY <2>1, <2>2, <2>3 DEF CryptoInv, TypeOK, cipher_setup, set_iv, call_vars
<1>2. CASE cipher_setup /\ Failed("exit")
  BY <1>1, <1>2, CipherFails DEF cipher_setup, CipherPcs
<1>3. CASE cipher_setup /\ MaySetUp /\ pc' = "iv" /\ status' = status
  BY <1>1, <1>3
  DEF cipher_setup, call_vars, CryptoInv, CallState, CipherProgress, MacProgress, MacCoversData,
      CipherAllOrNothing, KeyForItsPurpose, CipherPcs, MacPcs, IsCipher, MaySetUp
<1>4. CASE set_iv
  <2>1. Len(buf) \in Nat /\ buf' = buf /\ buf = Input("in", Len(buf)) /\ done' = 0 /\ out_len' = 0
    BY <1>4 DEF set_iv, CryptoInv, TypeOK, CipherProgress, CallState
  <2>2. \A j \in 1..Len(buf) : buf[j] = <<"in", j>>
    BY <2>1 DEF Input
  <2>3. fed' = Input("in", 0)
    <3>1. fed' = <<>>
      BY <1>4 DEF set_iv, CryptoInv, CallState
    <3>2. Input("in", 0) \in Seq(Byte) /\ Len(Input("in", 0)) = 0
      BY InputFacts
    <3> QED
      BY <3>1, <3>2, EmptySeq
  <2>4. CipherProgress'
    BY <1>4, <2>1, <2>2, <2>3 DEF CipherProgress, set_iv
  <2> QED
    BY <1>1, <1>4, <2>4
    DEF set_iv, call_vars, CryptoInv, CallState, MacProgress, MacCoversData,
        CipherAllOrNothing, KeyForItsPurpose, CipherPcs, MacPcs, IsCipher, MaySetUp
<1> QED
  BY <1>2, <1>3, <1>4 DEF cipher_setup

(* The input of an update is the input so far and the next part of it.     *)
LEMMA NextInput ==
  ASSUME CryptoInv, pc = "update", NEW part \in Nat, done + part <= Len(buf)
  PROVE  fed \o SubSeq(buf, done + 1, done + part) = Input("in", done + part)
<1>1. /\ done \in Nat /\ Len(buf) \in Nat /\ buf \in Seq(Byte)
      /\ fed = Input("in", done) /\ \A j \in (done + 1)..Len(buf) : buf[j] = <<"in", j>>
  BY DEF CryptoInv, TypeOK, CipherProgress
<1>2. fed \in Seq(Byte) /\ Len(fed) = done /\ \A j \in 1..done : fed[j] = <<"in", j>>
  BY <1>1, InputFacts, Zenon
<1> DEFINE piece == SubSeq(buf, done + 1, done + part)
           whole == Input("in", done + part)
<1>3. \A j \in (done + 1)..(done + part) : buf[j] \in Byte /\ buf[j] = <<"in", j>>
  BY <1>1, ElementOfSeq
<1>4. piece \in Seq(Byte) /\ Len(piece) = part /\ \A i \in 1..part : piece[i] = buf[done + i]
  BY <1>1, <1>3, SubSeqProperties
<1>5. \A i \in 1..part : piece[i] = <<"in", done + i>>
  BY <1>1, <1>3, <1>4
<1> HIDE DEF piece
<1>6. /\ fed \o piece \in Seq(Byte) /\ Len(fed \o piece) = done + part
      /\ \A i \in 1..(done + part) : (fed \o piece)[i] = IF i <= done THEN fed[i] ELSE piece[i - done]
  BY <1>2, <1>4, ConcatProperties, ZenonT(30)
<1>7. \A i \in 1..(done + part) : (fed \o piece)[i] = <<"in", i>>
  <2> SUFFICES ASSUME NEW i \in 1..(done + part) PROVE (fed \o piece)[i] = <<"in", i>>
    BY Zenon
  <2>1. CASE i <= done
    <3>1. i \in 1..done
      BY <1>1, <2>1
    <3> QED
      BY <1>2, <1>6, <2>1, <3>1
  <2>2. CASE ~(i <= done)
    <3>1. i - done \in 1..part /\ done + (i - done) = i
      BY <1>1, <2>2
    <3>2. piece[i - done] = <<"in", done + (i - done)>>
      BY <1>5, <3>1
    <3> QED
      BY <1>6, <2>2, <3>1, <3>2
  <2> QED
    BY <2>1, <2>2, Zenon
<1>8. /\ whole \in Seq(Byte) /\ Len(whole) = done + part
      /\ \A i \in 1..(done + part) : whole[i] = <<"in", i>>
  <2>1. done + part \in Nat
    BY <1>1
  <2> QED
    BY <2>1, InputFacts, Zenon
<1> HIDE DEF whole
<1>9. fed \o piece = whole
  BY <1>6, <1>7, <1>8, SeqEqual, Zenon
<1> QED
  BY <1>9, Zenon DEF piece, whole


LEMMA CipherUpdate ==
  ASSUME CryptoInv, cipher_update
  PROVE  CryptoInv'
<1> DEFINE part  == Min({AES_BLOCKSIZE, Len(buf) - done})
           input == fed \o SubSeq(buf, done + 1, done + part)
<1>1. /\ pc = "update" /\ TypeOK /\ buf \in Seq(Byte) /\ Len(buf) \in Nat
      /\ done \in Nat /\ out_len \in Nat /\ out_len <= done /\ done <= Len(buf)
      /\ \A j \in 1..out_len : buf[j] = <<"out", j>>
      /\ \A j \in (done + 1)..Len(buf) : buf[j] = <<"in", j>>
  BY DEF cipher_update, CryptoInv, TypeOK, CipherProgress
<1>2. part \in Nat /\ done + part <= Len(buf)
  <2>1. part = IF AES_BLOCKSIZE <= Len(buf) - done THEN AES_BLOCKSIZE ELSE Len(buf) - done
    BY <1>1, PartValue
  <2> HIDE DEF part
  <2> QED
    BY <1>1, <2>1
<1>3. input = Input("in", done + part)
  BY <1>1, <1>2, NextInput, Zenon
<1> HIDE DEF part, input
<1>4. CASE \E n \in 0..part :
             /\ out_len + n <= Len(input) /\ buf' = Written(input, n) /\ out_len' = out_len + n
             /\ fed' = input /\ done' = done + part
             /\ UNCHANGED <<pc, status, call_vars, op, cc>>
  <2>1. PICK n \in 0..part :
             /\ out_len + n <= Len(input) /\ buf' = Written(input, n) /\ out_len' = out_len + n
             /\ fed' = input /\ done' = done + part
             /\ UNCHANGED <<pc, status, call_vars, op, cc>>
    BY <1>4
  <2>2. n \in Nat /\ n <= part
    BY <1>2, <2>1
  <2>3. /\ fed' \in Seq(Byte) /\ Len(fed') = done + part /\ done' \in Nat /\ out_len' \in Nat
        /\ out_len' <= done'
    <3>1. done + part \in Nat
      BY <1>1, <1>2
    <3>2. input \in Seq(Byte) /\ Len(input) = done + part
      BY <1>3, <3>1, InputFacts
    <3> QED
      BY <1>1, <2>1, <2>2, <3>1, <3>2
  <2>4. /\ buf' \in Seq(Byte) /\ Len(buf') = Len(buf)
        /\ \A j \in 1..Len(buf) : out_len < j /\ j <= out_len + n => buf'[j] = <<"out", j>>
        /\ \A j \in 1..Len(buf) : j <= out_len \/ out_len + n < j => buf'[j] = buf[j]
    <3>1. done + part \in Nat
      BY <1>1, <1>2
    <3> DEFINE m == done + part
               w == Written(Input("in", m), n)
    <3>2. buf' = w
      BY <1>3, <2>1
    <3>3. m \in Nat /\ n \in Nat
      BY <2>2, <3>1
    <3> HIDE DEF m
    <3>4. /\ w \in Seq(Byte) /\ Len(w) = Len(buf)
          /\ \A j \in 1..Len(buf) : out_len < j /\ j <= out_len + n => w[j] = <<"out", j>>
          /\ \A j \in 1..Len(buf) : j <= out_len \/ out_len + n < j => w[j] = buf[j]
      BY <1>1, <3>3, WrittenFacts, Zenon
    <3> HIDE DEF w
    <3> QED
      BY <3>2, <3>4
  <2>5. TypeOK'
    BY <1>1, <2>1, <2>3, <2>4 DEF TypeOK, call_vars
  <2>6. \A j \in 1..out_len' : buf'[j] = <<"out", j>>
    <3> SUFFICES ASSUME NEW j \in 1..out_len' PROVE buf'[j] = <<"out", j>>
      OBVIOUS
    <3>1. j \in 1..Len(buf) /\ j <= out_len + n /\ (j <= out_len => j \in 1..out_len)
      BY <1>1, <1>2, <2>1, <2>2, <2>3
    <3>2. CASE j <= out_len
      BY <1>1, <2>4, <3>1, <3>2
    <3>3. CASE out_len < j
      BY <2>4, <3>1, <3>3
    <3> QED
      BY <1>1, <3>1, <3>2, <3>3
  <2>7. \A j \in (done' + 1)..Len(buf') : buf'[j] = <<"in", j>>
    <3> SUFFICES ASSUME NEW j \in (done' + 1)..Len(buf') PROVE buf'[j] = <<"in", j>>
      OBVIOUS
    <3>1. j \in 1..Len(buf) /\ out_len + n < j /\ j \in (done + 1)..Len(buf)
      BY <1>1, <1>2, <2>1, <2>2, <2>3, <2>4
    <3> QED
      BY <1>1, <2>4, <3>1
  <2>8. CipherProgress'
    BY <1>1, <1>2, <1>3, <2>1, <2>3, <2>4, <2>6, <2>7 DEF CipherProgress
  <2> QED
    BY <1>1, <2>1, <2>5, <2>8
    DEF call_vars, CryptoInv, CallState, MacProgress, MacCoversData, CipherAllOrNothing,
        KeyForItsPurpose, CipherPcs, MacPcs, IsCipher, MaySetUp
<1>5. CASE MayScribble(part) /\ Failed("exit") /\ UNCHANGED <<out_len, fed, done, call_vars, op, cc>>
  <2>1. buf' \in Seq(Byte)
    BY <1>1, <1>5, ScribbleType
  <2>2. TypeOK'
    BY <1>1, <1>5, <2>1, Zenon DEF TypeOK, Failed, call_vars, CipherPcs
  <2> QED
    BY <1>1, <1>5, <2>2, CipherFails DEF CipherPcs
<1> QED
  BY <1>4, <1>5, Zenon DEF cipher_update, part, input

LEMMA CipherFinish ==
  ASSUME CryptoInv, cipher_finish
  PROVE  CryptoInv'
<1> DEFINE rest == Len(buf) - out_len
<1>1. /\ pc = "update" /\ TypeOK /\ buf \in Seq(Byte) /\ Len(buf) \in Nat
      /\ done = Len(buf) /\ out_len \in Nat /\ out_len <= done /\ fed = Input("in", done)
      /\ \A j \in 1..out_len : buf[j] = <<"out", j>>
  BY DEF cipher_finish, CryptoInv, TypeOK, CipherProgress
<1>2. rest \in Nat /\ out_len + rest = Len(buf)
  BY <1>1
<1> HIDE DEF rest
<1>3. CASE /\ buf' = Written(fed, rest) /\ out_len' = out_len + rest /\ pc' = "exit"
           /\ UNCHANGED <<status, call_vars, op, done, fed, cc>>
  <2>1. /\ buf' \in Seq(Byte) /\ Len(buf') = Len(buf)
        /\ \A j \in 1..Len(buf) : out_len < j /\ j <= out_len + rest => buf'[j] = <<"out", j>>
        /\ \A j \in 1..Len(buf) : j <= out_len \/ out_len + rest < j => buf'[j] = buf[j]
    BY <1>1, <1>2, <1>3, WrittenFacts, ZenonT(30)
  <2>2. TypeOK'
    BY <1>1, <1>2, <1>3, <2>1 DEF TypeOK, call_vars, CipherPcs
  <2>3. \A j \in 1..Len(buf) : buf'[j] = <<"out", j>>
    <3> SUFFICES ASSUME NEW j \in 1..Len(buf) PROVE buf'[j] = <<"out", j>>
      OBVIOUS
    <3>1. CASE j <= out_len
      <4>1. j \in 1..out_len
        BY <1>1, <3>1
      <4> QED
        BY <1>1, <2>1, <3>1, <4>1
    <3>2. CASE out_len < j
      BY <1>1, <1>2, <2>1, <3>2
    <3> QED
      BY <1>1, <3>1, <3>2
  <2>4. buf' = Input("out", Len(buf'))
    <3>1. /\ Input("out", Len(buf)) \in Seq(Byte) /\ Len(Input("out", Len(buf))) = Len(buf)
          /\ \A j \in 1..Len(buf) : Input("out", Len(buf))[j] = <<"out", j>>
      BY <1>1, InputFacts, Zenon
    <3>2. buf' = Input("out", Len(buf))
      BY <2>1, <2>3, <3>1, SeqEqual, Zenon
    <3> QED
      BY <2>1, <3>2
  <2> QED
    BY <1>1, <1>3, <2>2, <2>4
    DEF call_vars, CryptoInv, CallState, CipherProgress, MacProgress, MacCoversData,
        CipherAllOrNothing, KeyForItsPurpose, CipherPcs, MacPcs, IsCipher, MaySetUp
<1>4. CASE MayScribble(rest) /\ Failed("exit") /\ UNCHANGED <<out_len, call_vars, op, done, fed, cc>>
  <2>1. buf' \in Seq(Byte)
    BY <1>1, <1>4, ScribbleType
  <2>2. TypeOK'
    BY <1>1, <1>4, <2>1, Zenon DEF TypeOK, Failed, call_vars, CipherPcs
  <2> QED
    BY <1>1, <1>4, <2>2, CipherFails DEF CipherPcs
<1> QED
  BY <1>3, <1>4 DEF cipher_finish, rest

(* The keys whose usage_flags allow a direction.                           *)
LEMMA CipherKeys ==
  ASSUME MaySetUp, keys \subseteq KeyIds
  PROVE  /\ call = "encrypt" => key_id \in keys \cap {"KI", "KIC"}
         /\ call = "decrypt" => key_id \in keys \cap {"KIC"}
BY DEF MaySetUp, usage_flags, KeyIds

LEMMA CipherExit ==
  ASSUME CryptoInv, cipher_exit
  PROVE  CryptoInv'
<1>1. /\ pc = "exit" /\ pc' = "returned" /\ op' = "none" /\ TypeOK /\ IsCipher
      /\ UNCHANGED <<call_vars, status, done, out_len, fed, cc>>
      /\ buf \in Seq(Byte) /\ Len(buf) \in Nat /\ DOMAIN buf = 1..Len(buf)
  BY LenProperties DEF cipher_exit, CryptoInv, TypeOK, CallState, CipherPcs, Aborted
<1>2. Wiped \in Seq(Byte) /\ \A j \in DOMAIN Wiped : Wiped[j] = Zero
  BY <1>1 DEF Wiped, Zero, Byte
<1>3. TypeOK'
  <2>1. buf' \in Seq(Byte)
    BY <1>1, <1>2 DEF cipher_exit
  <2> QED
    BY <1>1, <2>1 DEF TypeOK, call_vars
<1>4. CASE status
  <2>1. buf' = buf /\ buf = Input("out", Len(buf)) /\ MaySetUp
    BY <1>1, <1>4 DEF cipher_exit, CryptoInv, CipherProgress, CallState
  <2>2. KeyForItsPurpose'
    BY <1>1, <2>1, CipherKeys DEF KeyForItsPurpose, IsCipher, TypeOK, call_vars
  <2>3. CipherAllOrNothing'
    BY <2>1 DEF CipherAllOrNothing
  <2> QED
    BY <1>1, <1>3, <2>2, <2>3, Zenon
    DEF call_vars, CryptoInv, CallState, CipherProgress, MacProgress, MacCoversData,
        CipherPcs, MacPcs, IsCipher
<1>5. CASE ~status
  <2>1. buf' = Wiped
    BY <1>5 DEF cipher_exit
  <2>2. buf' # <<>> => buf' # Input("out", Len(buf'))
    <3> SUFFICES ASSUME buf' # <<>>, buf' = Input("out", Len(buf')) PROVE FALSE
      OBVIOUS
    <3>1. Len(buf') \in Nat /\ 1 \in DOMAIN buf' /\ 1 \in 1..Len(buf')
      BY <1>3, LenProperties, EmptySeq DEF TypeOK
    <3>2. Input("out", Len(buf'))[1] = <<"out", 1>>
      BY <3>1, InputFacts, Zenon
    <3> QED
      BY <1>2, <2>1, <3>1, <3>2 DEF Zero
  <2>3. KeyForItsPurpose'
    BY <1>1, <2>2 DEF KeyForItsPurpose, IsCipher, call_vars
  <2>4. CipherAllOrNothing'
    BY <1>2, <2>1 DEF CipherAllOrNothing
  <2> QED
    BY <1>1, <1>3, <2>3, <2>4, Zenon
    DEF call_vars, CryptoInv, CallState, CipherProgress, MacProgress, MacCoversData,
        CipherPcs, MacPcs, IsCipher
<1> QED
  BY <1>4, <1>5


-----------------------------------------------------------------------------
(* The checksum.                                                           *)

LEMMA DataTypes ==
  ASSUME TypeOK
  PROVE  /\ data[1] \in Seq(Byte) /\ Len(data[1]) \in Nat
         /\ data[2] \in Seq(Byte) /\ Len(data[2]) \in Nat
BY DEF TypeOK

(* The checksum has failed on its way to the exit.                         *)
LEMMA MacFails ==
  ASSUME CryptoInv, TypeOK', pc \in {"mac_setup", "data1", "data2"}, Failed("mac_exit"),
         UNCHANGED <<call_vars, cc>>
  PROVE  CryptoInv'
BY Zenon DEF Failed, call_vars, CryptoInv, CallState, CipherProgress, MacProgress, MacCoversData,
       CipherAllOrNothing, KeyForItsPurpose, CipherPcs, MacPcs, IsCipher

LEMMA MacSetup ==
  ASSUME CryptoInv, mac_setup
  PROVE  CryptoInv'
<1>1. TypeOK'
  <2>1. status' \in BOOLEAN
    BY Zenon DEF CryptoInv, TypeOK, mac_setup, Failed
  <2>2. op' \in {"none", "active", "failed"}
    BY DEF CryptoInv, TypeOK, mac_setup
  <2>3. pc' \in MacPcs
    BY DEF mac_setup, Failed, MacPcs
  <2> QED
    BY <2>1, <2>2, <2>3 DEF CryptoInv, TypeOK, mac_setup, call_vars
<1>2. CASE Failed("mac_exit")
  BY <1>1, <1>2, MacFails DEF mac_setup
<1>3. CASE MaySetUp /\ pc' = "data1" /\ status' = status
  <2>1. done' = 0 /\ fed' = <<>> /\ data' = data /\ Len(data[1]) % AES_BLOCKSIZE = 0
    BY Zenon DEF mac_setup, CryptoInv, CallState, MacProgress, call_vars
  <2>2. Len(data[1]) \in Nat /\ SubSeq(data[1], 1, 0) = <<>>
    BY DataTypes, SubSeqEmpty DEF CryptoInv
  <2>3. Len(data'[1]) - done' = Len(data[1]) /\ SubSeq(data'[1], 1, done') = <<>>
    BY <2>1, <2>2
  <2>4. MacProgress'
    <3>1. (Len(data'[1]) - done') % AES_BLOCKSIZE = 0 /\ Len(data'[1]) % AES_BLOCKSIZE = 0
      BY <2>1, <2>3, Zenon
    <3>2. done' <= Len(data'[1])
      BY <2>1, <2>2
    <3> QED
      BY <1>3, <2>1, <2>3, <3>1, <3>2, Zenon DEF MacProgress
  <2> QED
    BY <1>1, <1>3, <2>4
    DEF mac_setup, call_vars, CryptoInv, CallState, CipherProgress, MacCoversData,
        CipherAllOrNothing, KeyForItsPurpose, CipherPcs, MacPcs, IsCipher, MaySetUp
<1> QED
  BY <1>2, <1>3 DEF mac_setup

(* psa_mac_update of n bytes of a piece: it fails, or the bytes follow     *)
(* what was given so far.                                                  *)
LEMMA MacUpdateType ==
  ASSUME CryptoInv, NEW d \in {1, 2}, NEW n \in Nat, done + n <= Len(data[d]), mac_update(d, n),
         pc \in {"data1", "data2"}
  PROVE  TypeOK'
<1>1. done \in Nat /\ data[d] \in Seq(Byte) /\ Len(data[d]) \in Nat /\ fed \in Seq(Byte)
  BY DataTypes DEF CryptoInv, TypeOK
<1>2. SubSeq(data[d], done + 1, done + n) \in Seq(Byte)
  <2>1. \A i \in (done + 1)..(done + n) : data[d][i] \in Byte
    BY <1>1, ElementOfSeq
  <2> QED
    BY <1>1, <2>1, SubSeqProperties
<1>3. fed' \in Seq(Byte) /\ done' \in Nat
  <2>1. fed \o SubSeq(data[d], done + 1, done + n) \in Seq(Byte)
    BY <1>1, <1>2, ConcatProperties, Zenon
  <2>2. fed' = fed \/ fed' = fed \o SubSeq(data[d], done + 1, done + n)
    BY Zenon DEF mac_update
  <2>3. done' = done \/ done' = done + n
    BY DEF mac_update
  <2>4. fed' \in Seq(Byte)
    BY <1>1, <2>1, <2>2, Zenon
  <2>5. done' \in Nat
    BY <1>1, <2>3
  <2> QED
    BY <2>4, <2>5
<1>4. status' \in BOOLEAN
  BY Zenon DEF CryptoInv, TypeOK, mac_update, Failed
<1>5. pc' \in {"data1", "data2", "mac_exit"}
  BY DEF mac_update, Failed
<1> QED
  BY <1>3, <1>4, <1>5 DEF CryptoInv, TypeOK, mac_update, call_vars, MacPcs

LEMMA MacData1 ==
  ASSUME CryptoInv, mac_data1
  PROVE  CryptoInv'
<1>1. /\ pc = "data1" /\ TypeOK /\ done \in Nat /\ data[1] \in Seq(Byte) /\ Len(data[1]) \in Nat
      /\ data[2] \in Seq(Byte) /\ Len(data[2]) \in Nat
      /\ done <= Len(data[1]) /\ (Len(data[1]) - done) % AES_BLOCKSIZE = 0
      /\ Len(data[1]) % AES_BLOCKSIZE = 0
      /\ fed = SubSeq(data[1], 1, done)
  BY DataTypes DEF mac_data1, CryptoInv, TypeOK, MacProgress
<1>2. CASE done + AES_BLOCKSIZE <= Len(data[1]) /\ mac_update(1, AES_BLOCKSIZE)
  <2>1. TypeOK'
    BY <1>1, <1>2, MacUpdateType
  <2>2. CASE Failed("mac_exit")
    BY <1>1, <1>2, <2>1, <2>2, MacFails DEF mac_update
  <2>3. CASE /\ fed' = fed \o SubSeq(data[1], done + 1, done + AES_BLOCKSIZE)
             /\ done' = done + AES_BLOCKSIZE /\ UNCHANGED <<pc, status>>
    <3>1. fed' = SubSeq(data[1], 1, done')
      BY <1>1, <1>2, <2>3, Extends, SMTT(30)
    <3>2. done' <= Len(data[1])
      BY <1>2, <2>3
    <3>3. (Len(data[1]) - done') % AES_BLOCKSIZE = 0
      <4>1. /\ Len(data[1]) - done \in Nat /\ Len(data[1]) - done >= AES_BLOCKSIZE
            /\ Len(data[1]) - done' = (Len(data[1]) - done) - AES_BLOCKSIZE
        BY <1>1, <1>2, <2>3
      <4>2. ((Len(data[1]) - done) - AES_BLOCKSIZE) % AES_BLOCKSIZE = 0
        BY <1>1, <4>1, OneBlockLess, Zenon
      <4> QED
        BY <4>1, <4>2
    <3>4. MacProgress'
      BY <1>1, <1>2, <2>3, <3>1, <3>2, <3>3, Zenon DEF MacProgress, mac_update, call_vars
    <3> QED
      BY <1>1, <1>2, <2>1, <2>3, <3>4, SMTT(30)
      DEF mac_update, call_vars, CryptoInv, CallState, CipherProgress, MacCoversData,
          CipherAllOrNothing, KeyForItsPurpose, CipherPcs, MacPcs, IsCipher, MaySetUp
  <2> QED
    BY <1>2, <2>2, <2>3, Zenon DEF mac_update
<1>3. CASE /\ done + AES_BLOCKSIZE > Len(data[1]) /\ pc' = "data2" /\ done' = 0
           /\ UNCHANGED <<call_vars, op, status, buf, out_len, fed, cc>>
  <2>1. TypeOK'
    BY <1>1, <1>3 DEF TypeOK, call_vars, MacPcs
  <2>2. done = Len(data[1])
    <3>1. Len(data[1]) - done \in Nat /\ Len(data[1]) - done < AES_BLOCKSIZE
      BY <1>1, <1>3
    <3>2. Len(data[1]) - done = 0
      BY <1>1, <3>1, LastBlock, Zenon
    <3> QED
      BY <1>1, <3>2
  <2>3. fed' = data[1] \o SubSeq(data[2], 1, 0)
    <3>1. fed = data[1]
      BY <1>1, <2>2, SubSeqFull
    <3>2. SubSeq(data[2], 1, 0) = <<>>
      BY SubSeqEmpty
    <3> QED
      BY <1>1, <1>3, <3>1, <3>2, ConcatEmptySeq
  <2>4. MacProgress'
    BY <1>1, <1>3, <2>3 DEF MacProgress, call_vars
  <2> QED
    BY <1>1, <1>3, <2>1, <2>4
    DEF call_vars, CryptoInv, CallState, CipherProgress, MacCoversData,
        CipherAllOrNothing, KeyForItsPurpose, CipherPcs, MacPcs, IsCipher, MaySetUp
<1> QED
  BY <1>2, <1>3 DEF mac_data1, ResetProcessed

(* What has been given so far, and n bytes more of data2.                  *)
LEMMA Data2Extends ==
  ASSUME CryptoInv, pc = "data2", NEW n \in Nat, done + n <= Len(data[2])
  PROVE  fed \o SubSeq(data[2], done + 1, done + n) = data[1] \o SubSeq(data[2], 1, done + n)
<1>1. /\ done \in Nat /\ data[1] \in Seq(Byte) /\ data[2] \in Seq(Byte) /\ Len(data[2]) \in Nat
      /\ fed = data[1] \o SubSeq(data[2], 1, done)
  BY DataTypes DEF CryptoInv, TypeOK, MacProgress
<1>2. \A i \in 1..Len(data[2]) : data[2][i] \in Byte
  BY <1>1, ElementOfSeq
<1>3. SubSeq(data[2], 1, done) \in Seq(Byte)
  BY <1>1, <1>2, SubSeqProperties
<1>4. SubSeq(data[2], done + 1, done + n) \in Seq(Byte)
  BY <1>1, <1>2, SubSeqProperties
<1> DEFINE a == data[1]
           b == SubSeq(data[2], 1, done)
           c == SubSeq(data[2], done + 1, done + n)
<1>5. fed = a \o b /\ b \o c = SubSeq(data[2], 1, done + n)
  BY <1>1, Extends
<1>6. a \in Seq(Byte) /\ b \in Seq(Byte) /\ c \in Seq(Byte)
  BY <1>1, <1>3, <1>4
<1>7. fed \o c = a \o SubSeq(data[2], 1, done + n)
  <2> HIDE DEF a, b, c
  <2>1. (a \o b) \o c = a \o (b \o c)
    BY <1>6, ConcatAssociative
  <2> QED
    BY <1>5, <2>1, Zenon
<1> QED
  BY <1>7, Zenon

LEMMA MacData2 ==
  ASSUME CryptoInv, mac_data2
  PROVE  CryptoInv'
<1>1. /\ pc = "data2" /\ TypeOK /\ done \in Nat /\ Len(data[2]) \in Nat
      /\ mac_update(2, AES_BLOCKSIZE)
      /\ Len(data[2]) - done > AES_BLOCKSIZE
  BY DataTypes DEF mac_data2, CryptoInv, TypeOK, MoreBlocks
<1>2. done + AES_BLOCKSIZE <= Len(data[2])
  BY <1>1
<1>3. TypeOK'
  BY <1>1, <1>2, MacUpdateType
<1>4. CASE Failed("mac_exit")
  BY <1>1, <1>3, <1>4, MacFails DEF mac_update
<1>5. CASE /\ fed' = fed \o SubSeq(data[2], done + 1, done + AES_BLOCKSIZE)
           /\ done' = done + AES_BLOCKSIZE /\ UNCHANGED <<pc, status>>
  <2>1. fed' = data[1] \o SubSeq(data[2], 1, done')
    BY <1>1, <1>2, <1>5, Data2Extends, Zenon
  <2>2. MacProgress'
    BY <1>1, <1>2, <1>5, <2>1, Zenon DEF MacProgress, mac_update, call_vars
  <2> QED
    BY <1>1, <1>3, <1>5, <2>2
    DEF mac_update, call_vars, CryptoInv, CallState, CipherProgress, MacCoversData,
        CipherAllOrNothing, KeyForItsPurpose, CipherPcs, MacPcs, IsCipher, MaySetUp
<1> QED
  BY <1>1, <1>4, <1>5, Zenon DEF mac_update

LEMMA MacFinish ==
  ASSUME CryptoInv, mac_finish
  PROVE  CryptoInv'
<1> DEFINE rest == Len(data[2]) - done
<1>1. /\ pc = "data2" /\ TypeOK /\ done \in Nat /\ data[2] \in Seq(Byte) /\ Len(data[2]) \in Nat
      /\ data[1] \in Seq(Byte) /\ done <= Len(data[2])
  BY DataTypes DEF mac_finish, CryptoInv, TypeOK, MacProgress
<1>2. rest \in Nat /\ done + rest = Len(data[2])
  BY <1>1
<1> HIDE DEF rest
<1>3. CASE /\ fed' = fed \o SubSeq(data[2], done + 1, done + rest) /\ cc' = "mac" /\ pc' = "mac_exit"
           /\ UNCHANGED <<status, call_vars, op, buf, done, out_len>>
  <2>1. fed' = data[1] \o data[2]
    <3>1. fed' = data[1] \o SubSeq(data[2], 1, done + rest)
      <4>1. done + rest <= Len(data[2])
        BY <1>1, <1>2
      <4>2. fed \o SubSeq(data[2], done + 1, done + rest) = data[1] \o SubSeq(data[2], 1, done + rest)
        BY <1>1, <1>2, <4>1, Data2Extends, Zenon
      <4> QED
        BY <1>3, <4>2, Zenon
    <3> QED
      BY <1>1, <1>2, <3>1, SubSeqFull, Zenon
  <2>2. TypeOK'
    <3>1. fed' \in Seq(Byte)
      BY <1>1, <2>1, ConcatProperties
    <3> QED
      BY <1>1, <1>3, <3>1 DEF TypeOK, call_vars, MacPcs
  <2>3. status
    BY <1>1 DEF CryptoInv, CallState, CipherPcs, MacPcs
  <2>4. MacProgress'
    BY <1>3, <2>1, <2>3, Zenon DEF MacProgress, call_vars
  <2> QED
    BY <1>1, <1>3, <2>2, <2>4
    DEF call_vars, CryptoInv, CallState, CipherProgress, MacCoversData,
        CipherAllOrNothing, KeyForItsPurpose, CipherPcs, MacPcs, IsCipher, MaySetUp
<1>4. CASE Failed("mac_exit") /\ UNCHANGED <<fed, cc, call_vars, op, buf, done, out_len>>
  <2>1. TypeOK'
    BY <1>1, <1>4, Zenon DEF TypeOK, Failed, call_vars, MacPcs
  <2> QED
    BY <1>1, <1>4, <2>1, MacFails
<1> QED
  BY <1>3, <1>4, Zenon DEF mac_finish, rest

LEMMA MacExit ==
  ASSUME CryptoInv, mac_exit
  PROVE  CryptoInv'
<1>1. /\ pc = "mac_exit" /\ pc' = "returned" /\ op' = "none" /\ TypeOK
      /\ call = "cc" /\ key_id = "KID"
      /\ UNCHANGED <<call_vars, status, buf, done, out_len, fed, cc>>
  BY DEF mac_exit, CryptoInv, CallState, MacPcs, Aborted
<1>2. TypeOK'
  BY <1>1 DEF TypeOK, call_vars
<1>3. status => key_id \in keys
  BY <1>1 DEF CryptoInv, CallState, MaySetUp
<1>4. KeyForItsPurpose'
  BY <1>1, <1>3 DEF KeyForItsPurpose, IsCipher, call_vars
<1>5. MacCoversData'
  BY <1>1, Zenon DEF MacCoversData, CryptoInv, MacProgress, call_vars
<1> QED
  BY <1>1, <1>2, <1>4, <1>5, SMTT(30)
  DEF call_vars, CryptoInv, CallState, CipherProgress, MacProgress, CipherAllOrNothing,
      CipherPcs, MacPcs, IsCipher


-----------------------------------------------------------------------------
(* The theorems.                                                           *)

(* In every reachable state, whichever PSA call failed, the cipher buffer  *)
(* and the checksum's input are as far as the call has come.               *)
THEOREM CryptoInvariance == Spec => []CryptoInv
<1>1. Init => CryptoInv
  <2> SUFFICES ASSUME Init PROVE CryptoInv
    OBVIOUS
  <2>1. <<>> \in Seq(Byte) /\ <<<<>>, <<>>>> \in Seq(Byte) \X Seq(Byte)
    BY EmptySeq, Zenon
  <2>2. TypeOK
    BY <2>1 DEF Init, TypeOK
  <2> QED
    BY <2>2
    DEF Init, CryptoInv, CallState, CipherProgress, MacProgress, MacCoversData, CipherAllOrNothing,
        KeyForItsPurpose, CipherPcs, MacPcs, IsCipher
<1>2. CryptoInv /\ [Next]_vars => CryptoInv'
  <2> SUFFICES ASSUME CryptoInv, [Next]_vars PROVE CryptoInv'
    OBVIOUS
  <2>1. CASE \E n \in 0..MAX_LEN : ss_utils_3des(n)
    BY <2>1, Enter3des
  <2>2. CASE \E n \in 0..MAX_LEN, tag \in Tags, existing \in SUBSET KeyIds :
               \/ ss_utils_aes_decrypt(tag, existing, n)
               \/ ss_utils_aes_encrypt(tag, existing, n)
    <3>1. PICK n \in 0..MAX_LEN, tag \in Tags, existing \in SUBSET KeyIds :
               \/ enter_cipher("decrypt", tag, existing, n)
               \/ enter_cipher("encrypt", tag, existing, n)
      BY <2>2 DEF ss_utils_aes_decrypt, ss_utils_aes_encrypt
    <3>2. n \in Nat
      OBVIOUS
    <3> QED
      BY <3>1, <3>2, EnterCipher
  <2>3. CASE \E n \in 0..MAX_LEN, tag \in Tags, existing \in SUBSET KeyIds, cmac \in BOOLEAN,
                n1 \in 0..MAX_LEN : ss_utils_ota_calc_cc(cmac, tag, existing, n1, n)
    <3>1. PICK n \in 0..MAX_LEN, tag \in Tags, existing \in SUBSET KeyIds, cmac \in BOOLEAN,
               n1 \in 0..MAX_LEN : ss_utils_ota_calc_cc(cmac, tag, existing, n1, n)
      BY <2>3
    <3>2. n \in Nat /\ n1 \in Nat
      BY SMTT(30)
    <3> QED
      BY <3>1, <3>2, EnterCc
  <2>4. CASE UNCHANGED vars
    BY <2>4, SMTT(30)
    DEF vars, call_vars, CryptoInv, TypeOK, CallState, CipherProgress, MacProgress, MacCoversData,
        CipherAllOrNothing, KeyForItsPurpose, IsCipher, MaySetUp
  <2>5. CASE cipher_setup \/ set_iv \/ cipher_update \/ cipher_finish \/ cipher_exit
    BY <2>5, CipherSetup, CipherUpdate, CipherFinish, CipherExit
  <2>6. CASE mac_setup \/ mac_data1 \/ mac_data2 \/ mac_finish \/ mac_exit \/ return
    BY <2>6, MacSetup, MacData1, MacData2, MacFinish, MacExit, Returns
  <2> QED
    BY <2>1, <2>2, <2>3, <2>4, <2>5, <2>6 DEF Next
<1> QED
  BY <1>1, <1>2, PTL DEF Spec

(* ss_utils_aes_encrypt and ss_utils_aes_decrypt return with the whole     *)
(* right result in the buffer or with zeros only, for every length, block  *)
(* size and way in which PSA holds output back or fails.                   *)
THEOREM NoHalfCipheredBuffer == Spec => []CipherAllOrNothing
<1>1. CryptoInv => CipherAllOrNothing
  BY DEF CryptoInv
<1> QED
  BY <1>1, CryptoInvariance, PTL

(* A result comes from a key that exists and that ss_utils_setup_key       *)
(* imported for the operation.                                             *)
THEOREM KeysDoTheirJob == Spec => []KeyForItsPurpose
<1>1. CryptoInv => KeyForItsPurpose
  BY DEF CryptoInv
<1> QED
  BY <1>1, CryptoInvariance, PTL

(* Every path through the functions aborts its PSA operation.              *)
THEOREM OperationsReleased == Spec => []OpReleased
<1>1. CryptoInv => OpReleased
  BY DEF CryptoInv, CallState, OpReleased
<1> QED
  BY <1>1, CryptoInvariance, PTL

(* ss_utils_ota_calc_cc gives PSA data1 and then data2, every byte once,   *)
(* and writes the caller's checksum exactly when it returns 0.             *)
THEOREM ChecksumIsOfTheData == Spec => []MacCoversData
<1>1. CryptoInv => MacCoversData
  BY DEF CryptoInv
<1> QED
  BY <1>1, CryptoInvariance, PTL
=============================================================================
