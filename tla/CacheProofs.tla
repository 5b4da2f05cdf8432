----------------------------- MODULE CacheProofs -----------------------------
(***************************************************************************)
(* Proofs about the loops of lib/ss_cache.c: of DirTable, for a DIR record *)
(* of any length and content and any hash, and of SlotScan, for a cache of *)
(* any size, any ceiling of the open counter and any content of the        *)
(* tables.                                                                 *)
(***************************************************************************)
EXTENDS DirTable, SlotScan, SequenceTheorems, WellFoundedInduction, TLAPS

-----------------------------------------------------------------------------
(* The search for a slot.                                                  *)

(* What the scan relies on besides its loop invariant, and what it returns.*)
ScanIInv ==
  /\ ScanInv
  /\ \A s \in Slots : Used(s) => Hits(s) \in 0..HITS_MAX
  /\ ScanFindsVictim

(* The least used slot of one slot.                                        *)
LEMMA FewestOfOne ==
  ASSUME NEW n \in Int, Hits(n) \in 0..HITS_MAX
  PROVE  FewestHits({n}) = {n}
  BY FsAssumption DEF FewestHits

(* The least used slot when a later slot is added: the running minimum     *)
(* changes only for fewer hits, so the first of equals stays.              *)
LEMMA FewestOfMore ==
  ASSUME NEW S \in SUBSET Int, NEW n \in Int, NEW b,
         \A s \in S : s < n,
         \A s \in S \cup {n} : Hits(s) \in 0..HITS_MAX,
         FewestHits(S) = {b}
  PROVE  FewestHits(S \cup {n}) = IF Hits(n) < Hits(b) THEN {n} ELSE {b}
<1>1. /\ b \in S
      /\ \A t \in S : Hits(b) < Hits(t) \/ (Hits(b) = Hits(t) /\ b <= t)
      /\ \A s \in S : s # b => \E t \in S : ~(Hits(s) < Hits(t) \/ (Hits(s) = Hits(t) /\ s <= t))
  <2>1. b \in FewestHits(S)
    OBVIOUS
  <2>2. ASSUME NEW s \in S, s # b
        PROVE  \E t \in S : ~(Hits(s) < Hits(t) \/ (Hits(s) = Hits(t) /\ s <= t))
    <3>1. s \notin FewestHits(S)
      BY <2>2
    <3>2. Hits(s) < HITS_MAX + 1
      BY FsAssumption
    <3> QED
      BY <3>1, <3>2 DEF FewestHits
  <2> QED
    BY <2>1, <2>2 DEF FewestHits
<1>2. CASE Hits(n) < Hits(b)
  <2>1. ASSUME NEW t \in S
        PROVE  Hits(n) < Hits(t)
    <3>1. Hits(n) \in Int /\ Hits(b) \in Int /\ Hits(t) \in Int
      BY <1>1
    <3>2. Hits(b) <= Hits(t)
      BY <1>1, <3>1
    <3> QED
      BY <1>2, <3>1, <3>2
  <2>2. n \in FewestHits(S \cup {n})
    BY <2>1, FsAssumption DEF FewestHits
  <2>3. ASSUME NEW s \in S
        PROVE  s \notin FewestHits(S \cup {n})
    <3>1. Hits(n) \in Int /\ Hits(s) \in Int /\ Hits(n) < Hits(s)
      BY <2>1
    <3>2. ~(Hits(s) < Hits(n) \/ (Hits(s) = Hits(n) /\ s <= n))
      BY <3>1
    <3> QED
      BY <3>2 DEF FewestHits
  <2>4. FewestHits(S \cup {n}) \subseteq S \cup {n}
    BY DEF FewestHits
  <2> QED
    BY <1>2, <2>2, <2>3, <2>4, Zenon
<1>3. CASE ~(Hits(n) < Hits(b))
  <2>1. b \in FewestHits(S \cup {n})
    BY <1>1, <1>3, FsAssumption DEF FewestHits
  <2>2. n \notin FewestHits(S \cup {n})
    BY <1>1, <1>3, FsAssumption DEF FewestHits
  <2>3. ASSUME NEW s \in S, s # b
        PROVE  s \notin FewestHits(S \cup {n})
    BY <1>1, <2>3, FsAssumption DEF FewestHits
  <2>4. FewestHits(S \cup {n}) \subseteq S \cup {n}
    BY DEF FewestHits
  <2> QED
    BY <1>3, <2>1, <2>2, <2>3, <2>4, Zenon
<1> QED
  BY <1>2, <1>3

LEMMA FewestOfNone == FewestHits({}) = {}
  BY DEF FewestHits

(* The call starts with the invariant: nothing has been looked at.         *)
LEMMA ScanInitInv == ScanInit => ScanIInv
<1> SUFFICES ASSUME ScanInit
             PROVE  ScanIInv
  OBVIOUS
<1>1. ScanTypeOK
  BY FsAssumption DEF ScanInit, ScanStart, ScanTypeOK, Slots
<1>2. scan_pc = "free" /\ i = 1
  BY DEF ScanInit, ScanStart
<1>3. ASSUME NEW s \in Slots, Used(s)
      PROVE  Hits(s) \in 0..HITS_MAX
  <2>1. fs_slots[s].dir_idx = s
    BY <1>3 DEF ScanInit
  <2>2. fs_dir[s] \in [hits : 0..HITS_MAX]
    BY DEF ScanInit
  <2> QED
    BY <2>1, <2>2 DEF Hits
<1>4. \A r \in Ranks : Seen(r) = {} /\ best[r] = 0 /\ min_hits[r] = HITS_MAX + 1
  BY <1>2 DEF ScanInit, ScanStart, Seen
<1>5. ScanInv
  BY <1>1, <1>2, <1>4 DEF ScanInv
<1> QED
  BY <1>2, <1>3, <1>5 DEF ScanIInv, ScanFindsVictim

(* The tables do not change, so neither does what is defined from them.    *)
LEMMA TablesStay ==
  ASSUME UNCHANGED vars, UNCHANGED want_len
  PROVE  /\ \A s : Used(s)' = Used(s)
         /\ \A s : Hits(s)' = Hits(s)
         /\ \A S : FewestHits(S)' = FewestHits(S)
         /\ \A s, r : Eligible(s, r)' = Eligible(s, r)
         /\ ss_slot_acquire(want_len)' = ss_slot_acquire(want_len)
  BY DEF vars, Used, Hits, FewestHits, Eligible, ss_slot_acquire

(* First pass: no free slot is passed over.                                *)
LEMMA FindFreeInv == ScanIInv /\ find_free => ScanIInv'
<1> SUFFICES ASSUME ScanIInv, find_free
             PROVE  ScanIInv'
  OBVIOUS
<1> USE FsAssumption
<1>1. UNCHANGED vars /\ UNCHANGED <<want_len, min_hits, best>>
  BY DEF find_free
<1>2. /\ \A s : Used(s)' = Used(s)
      /\ \A s : Hits(s)' = Hits(s)
      /\ ss_slot_acquire(want_len)' = ss_slot_acquire(want_len)
  BY <1>1, TablesStay
<1>3. \A s \in Slots : Used(s)' => Hits(s)' \in 0..HITS_MAX
  BY <1>2 DEF ScanIInv
<1>4. /\ scan_pc = "free" /\ ScanTypeOK
      /\ \A s \in 1..(i - 1) : Used(s)
      /\ \A r \in Ranks : best[r] = 0 /\ min_hits[r] = HITS_MAX + 1
  BY DEF ScanIInv, ScanInv, find_free, Seen
<1>5. CASE i <= SS_MAX_ENTRIES /\ ~Used(i)
  <2>1. victim' = i /\ scan_pc' = "done" /\ UNCHANGED i
    BY <1>4, <1>5 DEF find_free, ScanTypeOK
  <2>2. ScanTypeOK'
    BY <1>1, <1>4, <1>5, <2>1 DEF ScanTypeOK, Slots
  <2>3. i \in Slots
    BY <1>4, <1>5 DEF ScanTypeOK, Slots
  <2> DEFINE free == {s \in Slots : ~Used(s)}
  <2>4. i \in free /\ \A t \in free : i <= t
    BY <1>4, <1>5, <2>3 DEF ScanTypeOK, Slots
  <2>5. {s \in free : \A t \in free : s <= t} = {i}
    BY <2>4 DEF Slots
  <2>6. ss_slot_acquire(want_len) = {i}
    BY <2>4, <2>5, SMTT(30) DEF ss_slot_acquire
  <2> QED
    BY <1>1, <1>2, <1>3, <2>1, <2>2, <2>6 DEF ScanIInv, ScanInv, ScanFindsVictim
<1>6. CASE i <= SS_MAX_ENTRIES /\ Used(i)
  <2>1. i' = i + 1 /\ UNCHANGED <<victim, scan_pc>>
    BY <1>4, <1>6 DEF find_free, ScanTypeOK
  <2>2. ScanTypeOK'
    BY <1>1, <1>4, <1>6, <2>1 DEF ScanTypeOK, Slots
  <2>3. \A s \in 1..(i' - 1) : Used(s)'
    BY <1>2, <1>4, <1>6, <2>1, SMTT(30) DEF ScanTypeOK
  <2>4. \A r \in Ranks : Seen(r)' = {}
    BY <1>4, <2>1, SMTT(30) DEF Seen
  <2>5. \A r \in Ranks : best'[r] = 0 /\ min_hits'[r] = HITS_MAX + 1
    BY <1>1, <1>4, SMTT(30)
  <2> QED
    BY <1>3, <1>4, <2>1, <2>2, <2>3, <2>4, <2>5 DEF ScanIInv, ScanInv, ScanFindsVictim
<1>7. CASE i > SS_MAX_ENTRIES
  <2>1. i' = 1 /\ scan_pc' = "scan" /\ UNCHANGED victim
    BY <1>4, <1>7 DEF find_free, ScanTypeOK
  <2>2. ScanTypeOK'
    BY <1>1, <1>4, <2>1 DEF ScanTypeOK, Slots
  <2>3. \A s \in Slots : Used(s)'
    BY <1>2, <1>4, <1>7 DEF ScanTypeOK, Slots
  <2>4. \A r \in Ranks : Seen(r)' = {}
    BY <2>1 DEF Seen, Slots
  <2>5. \A r \in Ranks : best'[r] = 0 /\ min_hits'[r] = HITS_MAX + 1
    BY <1>1, <1>4
  <2> QED
    BY <1>3, <2>1, <2>2, <2>3, <2>4, <2>5, SMTT(30) DEF ScanIInv, ScanInv, ScanFindsVictim
<1> QED
  BY <1>4, <1>5, <1>6, <1>7 DEF ScanTypeOK

(* Second pass: each running minimum is that of one slot more.             *)
LEMMA ScanSlotInv == ScanIInv /\ scan_slot => ScanIInv'
<1> SUFFICES ASSUME ScanIInv, scan_slot
             PROVE  ScanIInv'
  OBVIOUS
<1> USE FsAssumption
<1>1. UNCHANGED vars /\ UNCHANGED <<want_len, scan_pc, victim>>
  BY DEF scan_slot
<1>2. /\ \A s : Used(s)' = Used(s)
      /\ \A s : Hits(s)' = Hits(s)
      /\ \A S : FewestHits(S)' = FewestHits(S)
      /\ \A s, r : Eligible(s, r)' = Eligible(s, r)
  BY <1>1, TablesStay
<1>3. /\ scan_pc = "scan" /\ scan_pc' = "scan" /\ i' = i + 1
      /\ ScanTypeOK /\ i \in Slots
      /\ \A s \in Slots : Used(s) /\ Hits(s) \in 0..HITS_MAX
  BY DEF ScanIInv, ScanInv, scan_slot, ScanTypeOK, Slots
<1>4. ScanTypeOK'
  <2>1. \A r \in Ranks : min_hits[r] \in 0..(HITS_MAX + 1) /\ best[r] \in Slots \cup {0}
    BY <1>3 DEF ScanTypeOK
  <2>2. Hits(i) \in 0..(HITS_MAX + 1)
    BY <1>3
  <2>3. min_hits' \in [Ranks -> 0..(HITS_MAX + 1)] /\ best' \in [Ranks -> Slots \cup {0}]
    BY <1>3, <2>1, <2>2 DEF scan_slot
  <2>4. i' \in 1..(SS_MAX_ENTRIES + 1)
    BY <1>3, SMTT(30) DEF Slots
  <2> QED
    BY <1>1, <1>3, <2>3, <2>4 DEF ScanTypeOK
<1>5. ASSUME NEW r \in Ranks
      PROVE  IF Seen(r)' = {} THEN best'[r] = 0 /\ min_hits'[r] = HITS_MAX + 1
             ELSE {best'[r]} = FewestHits(Seen(r)') /\ min_hits'[r] = Hits(best'[r])
  <2> DEFINE S == Seen(r)
             T == Seen(r)'
             b == best[r]
  <2>1. IF S = {} THEN b = 0 /\ min_hits[r] = HITS_MAX + 1
        ELSE {b} = FewestHits(S) /\ min_hits[r] = Hits(b)
    BY <1>3, Zenon DEF ScanIInv, ScanInv
  <2>2. /\ S \in SUBSET Int
        /\ \A s \in S : s \in Slots /\ s < i
        /\ \A s \in S \cup {i} : Hits(s) \in 0..HITS_MAX
    BY <1>3 DEF Seen, Slots
  <2>3. T = IF Eligible(i, r) THEN S \cup {i} ELSE S
    <3>1. S = {s \in Slots : s < i /\ Eligible(s, r)}
      BY <1>3 DEF Seen
    <3>2. T = {s \in Slots : s < i + 1 /\ Eligible(s, r)}
      BY <1>2, <1>3 DEF Seen
    <3>3. \A s \in Slots : s < i + 1 <=> s < i \/ s = i
      BY <1>3, SMTT(30) DEF Slots
    <3> QED
      BY <1>3, <3>1, <3>2, <3>3
  <2>4. /\ best'[r] = IF Improves(i, r) THEN i ELSE b
        /\ min_hits'[r] = IF Improves(i, r) THEN Hits(i) ELSE min_hits[r]
    BY DEF scan_slot
  <2> HIDE DEF S, T, b
  <2>5. CASE ~Eligible(i, r)
    <3>1. T = S /\ best'[r] = b /\ min_hits'[r] = min_hits[r]
      BY <2>3, <2>4, <2>5 DEF Improves
    <3> QED
      BY <2>1, <3>1 DEF T
  <2>6. CASE Eligible(i, r) /\ S = {}
    <3>1. T = {i}
      BY <2>3, <2>6
    <3>2. best'[r] = i /\ min_hits'[r] = Hits(i)
      BY <2>1, <2>2, <2>4, <2>6 DEF Improves
    <3>3. FewestHits({i}) = {i}
      <4>1. i \in Int /\ Hits(i) \in 0..HITS_MAX
        BY <1>3 DEF Slots
      <4> QED
        BY <4>1, FewestOfOne, SMTT(30)
    <3> QED
      BY <3>1, <3>2, <3>3, Zenon DEF T
  <2>7. CASE Eligible(i, r) /\ S # {}
    <3>1. {b} = FewestHits(S) /\ min_hits[r] = Hits(b)
      BY <2>1, <2>7
    <3>2. i \in Int
      BY <1>3 DEF Slots
    <3>3. FewestHits(S \cup {i}) = IF Hits(i) < Hits(b) THEN {i} ELSE {b}
      BY <2>2, <3>1, <3>2, FewestOfMore, Zenon
    <3>4. T = S \cup {i}
      BY <2>3, <2>7
    <3>5. Improves(i, r) <=> Hits(i) < Hits(b)
      BY <2>7, <3>1 DEF Improves
    <3> QED
      BY <2>4, <3>1, <3>3, <3>4, <3>5 DEF T
  <2> QED
    BY <2>5, <2>6, <2>7, SMTT(30)
<1>6. \A r \in Ranks : Hits(best[r])' = Hits(best'[r])
  BY <1>1, SMTT(30) DEF Hits, vars
<1>7. ScanInv'
  BY <1>2, <1>3, <1>4, <1>5, <1>6 DEF ScanInv
<1> QED
  BY <1>2, <1>3, <1>7, SMTT(30) DEF ScanIInv, ScanFindsVictim

(* The end: a candidate exists exactly where there is an eligible slot.    *)
LEMMA PickInv == ScanIInv /\ pick => ScanIInv'
<1> SUFFICES ASSUME ScanIInv, pick
             PROVE  ScanIInv'
  OBVIOUS
<1> USE FsAssumption
<1>1. UNCHANGED vars /\ UNCHANGED <<want_len, i, min_hits, best>>
  BY DEF pick
<1>2. /\ \A s : Used(s)' = Used(s)
      /\ \A s : Hits(s)' = Hits(s)
      /\ ss_slot_acquire(want_len)' = ss_slot_acquire(want_len)
  BY <1>1, TablesStay
<1>3. /\ scan_pc = "scan" /\ scan_pc' = "done" /\ victim' = Preferred
      /\ ScanTypeOK /\ i = SS_MAX_ENTRIES + 1
      /\ \A s \in Slots : Used(s) /\ Hits(s) \in 0..HITS_MAX
  BY DEF ScanIInv, ScanInv, pick, ScanTypeOK
<1>4. \A r \in Ranks : Seen(r) = {s \in Slots : Eligible(s, r)}
  BY <1>3 DEF Seen, Slots
<1>5. \A r \in Ranks :
        IF Seen(r) = {} THEN best[r] = 0 /\ FewestHits(Seen(r)) = {}
        ELSE {best[r]} = FewestHits(Seen(r)) /\ best[r] \in Slots /\ best[r] # 0
  <2>1. ASSUME NEW r \in Ranks, Seen(r) # {}
        PROVE  {best[r]} = FewestHits(Seen(r)) /\ best[r] \in Slots /\ best[r] # 0
    <3>1. {best[r]} = FewestHits(Seen(r))
      BY <1>3, <2>1 DEF ScanIInv, ScanInv
    <3>2. best[r] \in Slots
      BY <3>1, SMTT(30) DEF FewestHits, Seen
    <3> QED
      BY <3>1, <3>2 DEF Slots
  <2>2. ASSUME NEW r \in Ranks, Seen(r) = {}
        PROVE  best[r] = 0 /\ FewestHits(Seen(r)) = {}
    BY <1>3, <2>2, FewestOfNone DEF ScanIInv, ScanInv
  <2> QED
    BY <2>1, <2>2
<1> DEFINE clean == {s \in Slots : ~fs_slots[s].dirty}
           roomy == {s \in clean : fs_slots[s].b_size >= want_len}
<1>6. Seen("roomy") = roomy /\ Seen("clean") = clean /\ Seen("any") = Slots
  BY <1>4, ZenonT(30) DEF Eligible, Ranks
<1>7. {s \in Slots : ~Used(s)} = {}
  BY <1>3
<1>8. ss_slot_acquire(want_len) = IF FewestHits(roomy) # {} THEN FewestHits(roomy)
                                  ELSE IF FewestHits(clean) # {} THEN FewestHits(clean)
                                  ELSE FewestHits(Slots)
  BY <1>7, Zenon DEF ss_slot_acquire
<1>9. "roomy" \in Ranks /\ "clean" \in Ranks /\ "any" \in Ranks /\ 1 \in Slots
  BY DEF Ranks, Slots
<1> HIDE DEF clean, roomy
<1>10. ss_slot_acquire(want_len) = {Preferred} /\ Preferred \in Slots
  BY <1>5, <1>6, <1>8, <1>9, Zenon DEF Preferred
<1>11. ScanInv'
  BY <1>1, <1>3, <1>10 DEF ScanInv, ScanTypeOK
<1> QED
  BY <1>2, <1>3, <1>10, <1>11 DEF ScanIInv, ScanFindsVictim

(* Nothing else is a step of the scan.                                     *)
LEMMA ScanStepInv == ScanIInv /\ [ScanNext]_<<scan_vars, vars>> => ScanIInv'
<1> SUFFICES ASSUME ScanIInv, [ScanNext]_<<scan_vars, vars>>
             PROVE  ScanIInv'
  OBVIOUS
<1>1. CASE UNCHANGED <<scan_vars, vars>>
  <2>1. UNCHANGED vars /\ UNCHANGED scan_vars /\ UNCHANGED want_len
    BY <1>1 DEF scan_vars
  <2>2. /\ \A s : Used(s)' = Used(s)
        /\ \A s : Hits(s)' = Hits(s)
        /\ \A S : FewestHits(S)' = FewestHits(S)
        /\ \A s, r : Eligible(s, r)' = Eligible(s, r)
        /\ ss_slot_acquire(want_len)' = ss_slot_acquire(want_len)
    BY <2>1, TablesStay
  <2>3. \A r \in Ranks : Seen(r)' = Seen(r)
    BY <2>1, <2>2 DEF Seen, scan_vars
  <2>4. ScanInv'
    BY <2>1, <2>2, <2>3 DEF ScanIInv, ScanInv, ScanTypeOK, scan_vars
  <2> QED
    BY <2>1, <2>2, <2>4 DEF ScanIInv, ScanFindsVictim, scan_vars
<1> QED
  BY <1>1, FindFreeInv, ScanSlotInv, PickInv DEF ScanNext

(* The loop invariant of ss_slot_acquire, for a cache of any size.         *)
THEOREM ScanInvariance == ScanSpec => []ScanInv
<1>1. ScanIInv => ScanInv
  BY DEF ScanIInv
<1> QED
  BY <1>1, ScanInitInv, ScanStepInv, PTL DEF ScanSpec

(* ss_slot_acquire returns the slot of the documented preference, which is *)
(* the one SoftSimFs takes, for a cache of any size, any ceiling of the    *)
(* counter and any tables.                                                 *)
THEOREM ScanCorrect == ScanSpec => []ScanFindsVictim
<1>1. ScanIInv => ScanFindsVictim
  BY DEF ScanIInv
<1> QED
  BY <1>1, ScanInitInv, ScanStepInv, PTL DEF ScanSpec

-----------------------------------------------------------------------------
(* The parser of the DIR record.                                           *)

(* The fields of an entry.                                                 *)
LEMMA EntryFields ==
  ASSUME NEW c
  PROVE  /\ EntryAt(c).hash = fnv1a(NameAt(c)) /\ EntryAt(c).key = KeyAt(c)
         /\ EntryAt(c).flags = KeyAt(c) \div 256
BY DEF EntryAt, Entry

(* A byte of the blob is a number, and a record takes up space.            *)
LEMMA RecordType ==
  ASSUME blob \in Seq(Byte), NEW c \in Nat
  PROVE  /\ Len(blob) \in Nat
         /\ At(c) \in Nat
         /\ RecordLen(c) \in Nat /\ RecordLen(c) > 0
         /\ Truncated(c) <=> c + RecordLen(c) > Len(blob)
<1>1. Len(blob) \in Nat /\ \A k \in 1..Len(blob) : blob[k] \in Byte
  OBVIOUS
<1>2. At(c) \in Nat
  <2>1. CASE c < Len(blob)
    <3>1. c + 1 \in 1..Len(blob)
      BY <1>1, <2>1
    <3>2. blob[c + 1] \in Byte
      BY <1>1, <3>1
    <3>3. At(c) = blob[c + 1]
      BY <2>1 DEF At
    <3>4. Byte \subseteq Nat
      BY DEF Byte
    <3> QED
      BY <3>2, <3>3, <3>4, Zenon
  <2>2. CASE ~(c < Len(blob))
    BY <2>2 DEF At
  <2> QED
    BY <2>1, <2>2
<1> QED
  BY <1>1, <1>2 DEF RecordLen, Truncated, DIR_RECORD_HEADER_LEN

(* The blob stays, and with it what is read from it.                       *)
LEMMA BlobStays ==
  ASSUME UNCHANGED blob
  PROVE  \A c : RecordLen(c)' = RecordLen(c) /\ Truncated(c)' = Truncated(c)
  BY DEF RecordLen, Truncated, At

LEMMA ParseInitInv == ParseInit => ParseInv /\ ReadInBlob
<1> SUFFICES ASSUME ParseInit
             PROVE  ParseInv /\ ReadInBlob
  OBVIOUS
<1>1. blob \in Seq(Byte)
  BY DirAssumption DEF ParseInit
<1>2. starts \in Seq(Nat) /\ Len(starts) = 0
  BY DEF ParseInit
<1> QED
  BY <1>1, <1>2 DEF ParseInit, ParseInv, ReadInBlob

(* First pass: a record that is counted lies in the blob.                  *)
LEMMA CountInv == ParseInv /\ ReadInBlob /\ count_record => ParseInv' /\ ReadInBlob'
<1> SUFFICES ASSUME ParseInv, ReadInBlob, count_record
             PROVE  ParseInv' /\ ReadInBlob'
  OBVIOUS
<1>1. /\ parse_pc = "count" /\ cursor < Len(blob)
      /\ UNCHANGED <<blob, filled>> /\ read' = read \cup {cursor}
  BY DEF count_record
<1>2. \A c : RecordLen(c)' = RecordLen(c) /\ Truncated(c)' = Truncated(c)
  BY <1>1, BlobStays
<1>3. /\ Len(blob) \in Nat /\ cursor \in Nat /\ count \in Nat /\ filled = 0
      /\ starts \in Seq(Nat) /\ Len(starts) = count
      /\ blob \in Seq(Byte)
  BY <1>1 DEF ParseInv
<1>4. ReadInBlob'
  BY <1>1, <1>3 DEF ReadInBlob
<1>5. CASE Truncated(cursor)
  <2>1. parse_pc' = "alloc" /\ UNCHANGED <<cursor, count, starts>>
    BY <1>5 DEF count_record
  <2> QED
    BY <1>1, <1>2, <1>4, <2>1 DEF ParseInv
<1>6. CASE ~Truncated(cursor)
  <2>1. /\ cursor' = cursor + RecordLen(cursor) /\ count' = count + 1
        /\ starts' = Append(starts, cursor) /\ parse_pc' = "count"
    BY <1>1, <1>6 DEF count_record
  <2>2. /\ starts' \in Seq(Nat) /\ Len(starts') = count + 1
        /\ \A k \in 1..count : starts'[k] = starts[k]
        /\ starts'[count + 1] = cursor
    BY <1>3, <2>1
  <2>3. RecordLen(cursor) \in Nat
    BY <1>3, RecordType, Zenon
  <2> HIDE DEF RecordLen, Truncated
  <2>6. cursor' \in Nat
    BY <1>3, <2>1, <2>3
  <2>4. ASSUME NEW k \in 1..(count + 1)
        PROVE  /\ ~Truncated(starts'[k])
               /\ starts'[k] = IF k = 1 THEN 0 ELSE starts'[k - 1] + RecordLen(starts'[k - 1])
    <3>1. CASE k \in 1..count
      <4>1. k # 1 => k - 1 \in 1..count
        BY <1>3, <3>1
      <4> QED
        BY <2>2, <3>1, <4>1 DEF ParseInv
    <3>2. CASE k = count + 1
      <4>1. k = 1 <=> count = 0
        BY <1>3, <3>2
      <4>2. count # 0 => k - 1 = count /\ count \in 1..count
        BY <1>3, <3>2
      <4>3. cursor = IF count = 0 THEN 0 ELSE starts[count] + RecordLen(starts[count])
        BY <1>1 DEF ParseInv
      <4> QED
        BY <1>6, <2>2, <3>2, <4>1, <4>2, <4>3
    <3> QED
      BY <1>3, <3>1, <3>2
  <2>5. cursor' = starts'[count'] + RecordLen(starts'[count']) /\ count' # 0
    BY <1>3, <2>1, <2>2
  <2> QED
    BY <1>1, <1>2, <1>3, <1>4, <2>1, <2>2, <2>6, <2>4, <2>5, SMTT(30) DEF ParseInv
<1> QED
  BY <1>5, <1>6

(* Second pass: it reads the record that was counted at this place.        *)
LEMMA FillInv == ParseInv /\ ReadInBlob /\ fill_record => ParseInv' /\ ReadInBlob'
<1> SUFFICES ASSUME ParseInv, ReadInBlob, fill_record
             PROVE  ParseInv' /\ ReadInBlob'
  OBVIOUS
<1>1. /\ parse_pc = "fill" /\ filled < count /\ filled' = filled + 1
      /\ UNCHANGED <<blob, parse_pc, count, starts>>
      /\ read' = read \cup cursor..(cursor + RecordLen(cursor) - 1)
      /\ cursor' = cursor + RecordLen(cursor)
  BY DEF fill_record
<1>2. \A c : RecordLen(c)' = RecordLen(c) /\ Truncated(c)' = Truncated(c)
  BY <1>1, BlobStays
<1>3. /\ cursor \in Nat /\ count \in Nat /\ filled \in 0..count
      /\ blob \in Seq(Byte) /\ cursor = starts[filled + 1]
      /\ starts \in Seq(Nat) /\ Len(starts) = count
  BY <1>1 DEF ParseInv
<1>4. filled + 1 \in 1..count
  BY <1>1, <1>3
<1>5. /\ Len(blob) \in Nat /\ RecordLen(cursor) \in Nat
      /\ cursor + RecordLen(cursor) <= Len(blob)
  <2>1. ~Truncated(cursor)
    BY <1>3, <1>4 DEF ParseInv
  <2>2. /\ Len(blob) \in Nat /\ RecordLen(cursor) \in Nat
        /\ Truncated(cursor) <=> cursor + RecordLen(cursor) > Len(blob)
    BY <1>3, RecordType, Zenon
  <2> QED
    BY <1>3, <2>1, <2>2
<1>6. ReadInBlob'
  <2>1. read \subseteq 0..(Len(blob) - 1)
    BY DEF ReadInBlob
  <2>2. cursor..(cursor + RecordLen(cursor) - 1) \subseteq 0..(Len(blob) - 1)
    <3> DEFINE m == RecordLen(cursor)
               n == Len(blob)
    <3>1. cursor \in Nat /\ m \in Nat /\ n \in Nat /\ cursor + m <= n
      BY <1>3, <1>5
    <3> HIDE DEF m, n
    <3>2. \A j \in cursor..(cursor + m - 1) : j \in 0..(n - 1)
      BY <3>1
    <3> QED
      BY <3>2 DEF m, n
  <2>3. read' \subseteq 0..(Len(blob) - 1) /\ blob' = blob
    BY <1>1, <2>1, <2>2, Zenon
  <2> QED
    BY <2>3 DEF ReadInBlob
<1>7. cursor' \in Nat /\ filled' \in 0..count
  BY <1>1, <1>3, <1>5, SMTT(30)
<1>8. filled' < count => cursor' = starts[filled' + 1]
  <2> SUFFICES ASSUME filled + 1 < count
               PROVE  cursor' = starts[filled + 2]
    BY <1>1, <1>3
  <2>1. filled + 2 \in 1..count /\ filled + 2 # 1 /\ (filled + 2) - 1 = filled + 1
    BY <1>3
  <2>2. starts[filled + 2] = starts[filled + 1] + RecordLen(starts[filled + 1])
    BY <2>1 DEF ParseInv
  <2> QED
    BY <1>1, <1>3, <2>2
<1> QED
  BY <1>1, <1>2, <1>6, <1>7, <1>8 DEF ParseInv

(* The other steps read nothing; the second pass starts over.              *)
LEMMA ParseStepInv ==
  ParseInv /\ ReadInBlob /\ [ParseNext]_parse_vars => ParseInv' /\ ReadInBlob'
<1> SUFFICES ASSUME ParseInv, ReadInBlob, [ParseNext]_parse_vars
             PROVE  ParseInv' /\ ReadInBlob'
  OBVIOUS
<1>0. ASSUME UNCHANGED <<blob, count, starts, read>>
      PROVE  /\ ReadInBlob'
             /\ \A c : RecordLen(c)' = RecordLen(c) /\ Truncated(c)' = Truncated(c)
  BY <1>0, BlobStays DEF ReadInBlob
<1>1. CASE count_record
  BY <1>1, CountInv
<1>2. CASE count_end
  BY <1>0, <1>2 DEF count_end, ParseInv
<1>3. CASE allocate
  <2>1. /\ UNCHANGED <<blob, count, starts, read, filled>> /\ filled = 0
        /\ \/ count > 0 /\ cursor' = 0 /\ parse_pc' = "fill"
           \/ cursor' = cursor /\ parse_pc' = "done"
    BY <1>3 DEF allocate, ParseInv
  <2>2. count \in Nat /\ (count > 0 => starts[1] = 0)
    BY SMTT(30) DEF ParseInv
  <2> QED
    BY <1>0, <2>1, <2>2 DEF ParseInv
<1>4. CASE fill_record
  BY <1>4, FillInv
<1>5. CASE check_hashes
  BY <1>0, <1>5 DEF check_hashes, ParseInv
<1>6. CASE UNCHANGED parse_vars
  BY <1>0, <1>6 DEF parse_vars, ParseInv
<1> QED
  BY <1>1, <1>2, <1>3, <1>4, <1>5, <1>6 DEF ParseNext

(* The invariant of the two loops of ss_dir_table_from_blob, for every     *)
(* blob.                                                                   *)
THEOREM ParseInvariance == ParseSpec => []ParseInv
<1>1. ParseInit => ParseInv /\ ReadInBlob
  BY ParseInitInv
<1>2. ParseInv /\ ReadInBlob /\ [ParseNext]_parse_vars => ParseInv' /\ ReadInBlob'
  BY ParseStepInv
<1> QED
  BY <1>1, <1>2, PTL DEF ParseSpec

(* ss_dir_table_from_blob reads no byte past the end of the DIR record,    *)
(* whatever the record holds and however long it is.                       *)
THEOREM ReadsStayInBlob == ParseSpec => []ReadInBlob
<1>1. ParseInit => ParseInv /\ ReadInBlob
  BY ParseInitInv
<1>2. ParseInv /\ ReadInBlob /\ [ParseNext]_parse_vars => ParseInv' /\ ReadInBlob'
  BY ParseStepInv
<1> QED
  BY <1>1, <1>2, PTL DEF ParseSpec


-----------------------------------------------------------------------------
(* The reference function.                                                 *)

(* Of the offsets of the blob with a given trait, one is the last.         *)
LEMMA LastExists ==
  ASSUME NEW n \in Nat, NEW S \in SUBSET (0..n), S # {}
  PROVE  \E k \in S : \A j \in S : j <= k
<1> DEFINE T == {n - j : j \in S}
           R == OpToRel(<, Nat)
<1>1. T \in SUBSET Nat /\ T # {}
  <2>1. \A j \in S : n - j \in Nat
    OBVIOUS
  <2>2. \E j \in S : n - j \in T
    BY Zenon
  <2> QED
    BY <2>1, <2>2
<1>2. IsWellFoundedOn(R, Nat)
  BY NatLessThanWellFounded, Zenon
<1>3. \A x, y \in Nat : y < x => <<y, x>> \in R
  BY DEF OpToRel
<1> HIDE DEF R
<1>4. PICK x \in T : \A y \in T : ~(<<y, x>> \in R)
  BY <1>1, <1>2, WFMin, Zenon
<1>5. PICK k \in S : x = n - k
  BY <1>4
<1>6. ASSUME NEW j \in S PROVE j <= k
  <2>1. n - j \in T /\ n - j \in Nat /\ n - k \in Nat
    OBVIOUS
  <2>2. ~(n - j < n - k)
    BY <1>3, <1>4, <1>5, <2>1, ZenonT(30)
  <2> QED
    BY <2>2
<1> QED
  BY <1>6

(* A record that fits ends in the blob, behind its start.                  *)
LEMMA FitsFacts ==
  ASSUME blob \in Seq(Byte), NEW c \in 0..Len(blob), Fits(c)
  PROVE  /\ c \in Nat /\ blob[c + 1] \in Byte
         /\ c + 3 + blob[c + 1] \in 0..Len(blob) /\ c < c + 3 + blob[c + 1]
<1>1. Len(blob) \in Nat /\ c + 1 \in 1..Len(blob)
  BY LenProperties DEF Fits
<1>2. blob[c + 1] \in 0..255
  BY <1>1, ElementOfSeq, SMTT(30) DEF Byte
<1> DEFINE b == blob[c + 1]
<1>3. c + 3 + b <= Len(blob) /\ b \in 0..255 /\ c \in Nat
  BY <1>1, <1>2 DEF Fits
<1> HIDE DEF b
<1>4. c + 3 + b \in 0..Len(blob) /\ c < c + 3 + b
  BY <1>1, <1>3
<1> QED
  BY <1>3, <1>4 DEF b, Byte

(* One unfolding of the reference, of any function in its place.           *)
Unfold(g, c) == IF Fits(c) THEN <<RecordAt(c)>> \o g[c + 3 + blob[c + 1]] ELSE <<>>

(* There is a function that satisfies the recursion from offset k on: the  *)
(* last offset without one would have it from the next.                    *)
LEMMA RecordsExist ==
  ASSUME blob \in Seq(Byte)
  PROVE  \E g : g = [c \in 0..Len(blob) |-> Unfold(g, c)]
<1> DEFINE n == Len(blob)
           From(k) == \E g : g = [c \in k..n |-> Unfold(g, c)]
           S == {k \in 0..n : ~From(k)}
<1>1. n \in Nat
  BY LenProperties
<1>2. SUFFICES ASSUME S # {} PROVE FALSE
  <2>1. 0 \in 0..n
    BY <1>1
  <2> QED
    BY <1>2, <2>1
<1> HIDE DEF n
<1>3. PICK k \in S : \A j \in S : j <= k
  BY <1>1, <1>2, LastExists, Zenon
<1>4. k \in 0..n /\ ~From(k)
  BY <1>3
<1>5. CASE k = n
  <2> DEFINE g == [c \in n..n |-> <<>>]
  <2>1. \A c \in n..n : Unfold(g, c) = <<>>
    <3>1. \A c \in n..n : ~Fits(c)
      BY <1>1 DEF Fits, n
    <3> QED
      BY <3>1 DEF Unfold
  <2>2. g = [c \in k..n |-> Unfold(g, c)]
    BY <1>5, <2>1
  <2> QED
    BY <1>4, <2>2, Zenon
<1>6. CASE k # n
  <2>1. k + 1 \in 0..n /\ k \in Nat
    BY <1>1, <1>4, <1>6
  <2>2. k + 1 \notin S
    BY <1>3, <2>1
  <2>3. PICK h : h = [c \in (k + 1)..n |-> Unfold(h, c)]
    BY <2>1, <2>2
  <2> DEFINE g == [c \in k..n |-> IF c = k THEN Unfold(h, k) ELSE h[c]]
  <2>4. \A c \in k..n : Unfold(g, c) = Unfold(h, c)
    <3> SUFFICES ASSUME NEW c \in k..n PROVE Unfold(g, c) = Unfold(h, c)
      OBVIOUS
    <3>1. CASE Fits(c)
      <4>0. c \in 0..Len(blob)
        BY <1>1, <2>1 DEF n
      <4> DEFINE e == c + 3 + blob[c + 1]
      <4>1. e \in 0..n /\ c < e /\ c \in Nat
        BY <3>1, <4>0, FitsFacts DEF n
      <4> HIDE DEF e
      <4>2. e \in k..n /\ e # k
        BY <1>1, <2>1, <4>1
      <4>3. g[e] = h[e]
        BY <4>2
      <4>4. Unfold(g, c) = <<RecordAt(c)>> \o g[e] /\ Unfold(h, c) = <<RecordAt(c)>> \o h[e]
        BY <3>1, Zenon DEF Unfold, e
      <4> QED
        BY <4>3, <4>4, Zenon
    <3>2. CASE ~Fits(c)
      BY <3>2 DEF Unfold
    <3> QED
      BY <3>1, <3>2
  <2>5. \A c \in k..n : g[c] = Unfold(h, c)
    <3> SUFFICES ASSUME NEW c \in k..n PROVE g[c] = Unfold(h, c)
      OBVIOUS
    <3>1. CASE c = k
      BY <3>1
    <3>2. CASE c # k
      <4>1. c \in (k + 1)..n
        BY <1>1, <2>1, <3>2
      <4>2. h[c] = Unfold(h, c)
        BY <2>3, <4>1, Zenon
      <4> QED
        BY <3>2, <4>2
    <3> QED
      BY <3>1, <3>2
  <2>6. \A c \in k..n : g[c] = Unfold(g, c)
    BY <2>4, <2>5
  <2>7. g = [c \in k..n |-> g[c]]
    OBVIOUS
  <2> HIDE DEF g
  <2>8. g = [c \in k..n |-> Unfold(g, c)]
    BY <2>6, <2>7
  <2> QED
    BY <1>4, <2>8
<1> QED
  BY <1>5, <1>6

(* The equation that defines the reference holds of it.                    *)
LEMMA RecordsUnfold ==
  ASSUME blob \in Seq(Byte)
  PROVE  Records = [c \in 0..Len(blob) |-> Unfold(Records, c)]
<1>1. \E g : g = [c \in 0..Len(blob) |-> Unfold(g, c)]
  BY RecordsExist
<1> QED
  BY <1>1, Zenon DEF Records, Unfold


Recs == {RecordAt(c) : c \in 0..Len(blob)}

(* The reference at an offset.                                             *)
LEMMA RecordsStep ==
  ASSUME blob \in Seq(Byte), NEW c \in 0..Len(blob)
  PROVE  /\ Fits(c) => Records[c] = <<RecordAt(c)>> \o Records[c + 3 + blob[c + 1]]
         /\ ~Fits(c) => Records[c] = <<>>
<1>1. Records = [d \in 0..Len(blob) |-> Unfold(Records, d)]
  BY RecordsUnfold
<1>2. Records[c] = Unfold(Records, c)
  BY <1>1, Zenon
<1> QED
  BY <1>2, Zenon DEF Unfold

(* It is a sequence of records: the last offset at which it is not one     *)
(* would have one record more than a later offset.                         *)
LEMMA RecordsType ==
  ASSUME blob \in Seq(Byte), NEW c \in 0..Len(blob)
  PROVE  Records[c] \in Seq(Recs)
<1> DEFINE n == Len(blob)
           S == {k \in 0..n : Records[k] \notin Seq(Recs)}
<1>1. n \in Nat
  BY LenProperties
<1>2. SUFFICES ASSUME S # {} PROVE FALSE
  BY <1>2
<1>3. PICK k \in S : \A j \in S : j <= k
  <2> HIDE DEF n
  <2> QED
    BY <1>1, <1>2, LastExists, Zenon
<1>4. k \in 0..Len(blob) /\ Records[k] \notin Seq(Recs)
  BY <1>3
<1>5. CASE Fits(k)
  <2> DEFINE e == k + 3 + blob[k + 1]
  <2>1. e \in 0..Len(blob) /\ k < e /\ k \in Nat
    BY <1>4, <1>5, FitsFacts
  <2>2. Records[k] = <<RecordAt(k)>> \o Records[e]
    BY <1>4, <1>5, RecordsStep
  <2> HIDE DEF e
  <2>3. e \notin S
    BY <1>1, <1>3, <2>1
  <2>4. Records[e] \in Seq(Recs)
    BY <2>1, <2>3
  <2>5. <<RecordAt(k)>> \in Seq(Recs)
    <3>1. RecordAt(k) \in Recs
      BY <1>4 DEF Recs
    <3> HIDE DEF Recs
    <3> QED
      BY <3>1
  <2>6. Records[k] \in Seq(Recs)
    BY <2>2, <2>4, <2>5, ConcatProperties, Zenon
  <2> QED
    BY <1>4, <2>6
<1>6. CASE ~Fits(k)
  <2>1. Records[k] = <<>>
    BY <1>4, <1>6, RecordsStep, Zenon
  <2> QED
    BY <1>4, <2>1, EmptySeq, Zenon
<1> QED
  BY <1>5, <1>6

(* The code's test of a record is the reference's.                         *)
LEMMA FitsIsNotTruncated ==
  ASSUME blob \in Seq(Byte), NEW c \in Nat
  PROVE  /\ c < Len(blob) => At(c) = blob[c + 1] /\ RecordLen(c) = 3 + blob[c + 1]
         /\ Fits(c) <=> c < Len(blob) /\ ~Truncated(c)
         /\ ~Truncated(c) => c < Len(blob)
<1>1. Len(blob) \in Nat /\ At(c) \in Nat /\ RecordLen(c) = 3 + At(c)
      /\ (Truncated(c) <=> c + RecordLen(c) > Len(blob))
  BY RecordType, Zenon DEF RecordLen, DIR_RECORD_HEADER_LEN
<1>2. c < Len(blob) => At(c) = blob[c + 1]
  BY DEF At
<1> HIDE DEF At, RecordLen, Truncated
<1> QED
  BY <1>1, <1>2 DEF Fits

(* A part of a sequence, element by element.                               *)
LEMMA PartIs ==
  ASSUME NEW s \in Seq(Byte), NEW a \in Nat, NEW b \in Nat, a + b <= Len(s)
  PROVE  [k \in 1..b |-> s[a + k]] = SubSeq(s, a + 1, a + b)
<1> DEFINE t == [k \in 1..b |-> s[a + k]]
           u == SubSeq(s, a + 1, a + b)
<1>1. Len(s) \in Nat /\ \A j \in (a + 1)..(a + b) : s[j] \in Byte
  BY LenProperties, ElementOfSeq
<1>2. u \in Seq(Byte) /\ Len(u) = b /\ \A k \in 1..b : u[k] = s[a + k]
  BY <1>1, SubSeqProperties
<1>3. \A k \in 1..b : a + k \in (a + 1)..(a + b)
  OBVIOUS
<1>4. t \in Seq(Byte) /\ Len(t) = b /\ \A k \in 1..b : t[k] = s[a + k]
  BY <1>1, <1>3
<1> HIDE DEF t, u
<1>5. t = u
  BY <1>2, <1>4, SeqEqual
<1> QED
  BY <1>5 DEF t, u

(* A byte of the blob, by its offset.                                      *)
LEMMA AtIs ==
  ASSUME blob \in Seq(Byte), NEW c \in Nat, c < Len(blob)
  PROVE  At(c) = blob[c + 1] /\ blob[c + 1] \in Byte
<1>1. c + 1 \in 1..Len(blob)
  BY LenProperties
<1> QED
  BY <1>1, ElementOfSeq DEF At

(* A record that fits is read with the reference's key and name.           *)
LEMMA EntryIsRecord ==
  ASSUME blob \in Seq(Byte), NEW c \in Nat, ~Truncated(c)
  PROVE  /\ c \in 0..Len(blob)
         /\ KeyAt(c) = RecordAt(c).key /\ NameAt(c) = RecordAt(c).name
         /\ \E hi \in Byte, lo \in Byte : KeyAt(c) = 256 * hi + lo
<1> DEFINE b == blob[c + 1]
           n == Len(blob)
<1>1. /\ n \in Nat /\ c < n /\ Fits(c)
      /\ At(c) = b
  BY FitsIsNotTruncated, LenProperties
<1>2. b \in 0..255 /\ c + 3 + b <= n
  <2>1. c \in 0..Len(blob)
    BY <1>1
  <2> QED
    BY <1>1, <2>1, FitsFacts DEF Fits, Byte
<1>3. /\ At(c + 1) = blob[c + 2] /\ blob[c + 2] \in Byte
      /\ At(c + 2) = blob[c + 3] /\ blob[c + 3] \in Byte
  <2> HIDE DEF b
  <2>1. /\ c + 1 \in Nat /\ c + 1 < n /\ (c + 1) + 1 = c + 2
        /\ c + 2 \in Nat /\ c + 2 < n /\ (c + 2) + 1 = c + 3
    BY <1>1, <1>2
  <2>2. At(c + 1) = blob[(c + 1) + 1] /\ blob[(c + 1) + 1] \in Byte
    BY <2>1, AtIs
  <2>3. At(c + 2) = blob[(c + 2) + 1] /\ blob[(c + 2) + 1] \in Byte
    BY <2>1, AtIs
  <2> QED
    BY <2>1, <2>2, <2>3
<1>4. KeyAt(c) = 256 * blob[c + 2] + blob[c + 3]
  BY <1>3 DEF KeyAt
<1>6. NameAt(c) = SubSeq(blob, c + 4, c + 3 + b)
  <2> HIDE DEF b, n
  <2>1. ASSUME NEW k \in 1..b PROVE At(c + DIR_RECORD_HEADER_LEN + k - 1) = blob[(c + 3) + k]
    <3> DEFINE e == c + 3 + k - 1
    <3>1. e \in Nat /\ e < n /\ e + 1 = (c + 3) + k
      BY <1>1, <1>2
    <3> HIDE DEF e
    <3>2. At(e) = blob[e + 1]
      BY <3>1, AtIs DEF n
    <3> QED
      BY <3>1, <3>2 DEF e, DIR_RECORD_HEADER_LEN
  <2>2. NameAt(c) = [k \in 1..b |-> blob[(c + 3) + k]]
    BY <1>1, <2>1, Zenon DEF NameAt
  <2>3. c + 3 \in Nat /\ b \in Nat /\ (c + 3) + b <= n /\ (c + 3) + 1 = c + 4
    BY <1>1, <1>2
  <2>4. [k \in 1..b |-> blob[(c + 3) + k]] = SubSeq(blob, (c + 3) + 1, (c + 3) + b)
    BY <2>3, PartIs DEF n
  <2> QED
    BY <2>2, <2>3, <2>4
<1>7. RecordAt(c).key = 256 * blob[c + 2] + blob[c + 3]
  BY DEF RecordAt
<1>8. RecordAt(c).name = SubSeq(blob, c + 4, c + 3 + b)
  BY Zenon DEF RecordAt
<1>9. c \in 0..Len(blob)
  BY <1>1
<1> QED
  BY <1>3, <1>4, <1>6, <1>7, <1>8, <1>9, ZenonT(30)


-----------------------------------------------------------------------------
(* The table.                                                              *)

Ents == {EntryAt(starts[k]) : k \in 1..count}

(* The same for any blob b, to see that they depend on nothing else.       *)
AtOf(b, c) == IF c < Len(b) THEN b[c + 1] ELSE 0

EntryOf(b, c) ==
  Entry(256 * AtOf(b, c + 1) + AtOf(b, c + 2),
        [k \in 1..AtOf(b, c) |-> AtOf(b, c + DIR_RECORD_HEADER_LEN + k - 1)])

RecordsOf(b) ==
  CHOOSE R : R = [c \in 0..Len(b) |->
    IF c < Len(b) /\ c + 3 + b[c + 1] <= Len(b)
      THEN <<[key  |-> 256 * b[c + 2] + b[c + 3],
              name |-> SubSeq(b, c + 4, c + 3 + b[c + 1])]>> \o R[c + 3 + b[c + 1]]
      ELSE <<>>]

LEMMA EntryOfBlob == \A c : EntryAt(c) = EntryOf(blob, c)
BY Zenon DEF EntryAt, KeyAt, NameAt, At, EntryOf, AtOf

(* The blob stays, and with it the records.                                *)
LEMMA RecordsStay ==
  ASSUME blob' = blob
  PROVE  /\ Records' = Records
         /\ \A c : RecordAt(c)' = RecordAt(c) /\ EntryAt(c)' = EntryAt(c)
<1>1. \A c : RecordAt(c)' = RecordAt(c)
  BY Zenon DEF RecordAt
<1>2. \A c : EntryAt(c)' = EntryAt(c)
  <2> TAKE c
  <2>1. EntryAt(c) = EntryOf(blob, c)
    BY EntryOfBlob, Zenon
  <2>2. EntryAt(c)' = EntryOf(blob', c)
    BY Zenon DEF EntryAt, KeyAt, NameAt, At, EntryOf, AtOf
  <2> QED
    BY <2>1, <2>2, Zenon
<1>4. Records' = Records
  <2>1. Records = RecordsOf(blob)
    BY Zenon DEF Records, RecordAt, Fits, RecordsOf
  <2>2. Records' = RecordsOf(blob')
    BY Zenon DEF Records, RecordAt, Fits, RecordsOf
  <2> QED
    BY <2>1, <2>2, Zenon
<1> QED
  BY <1>1, <1>2, <1>4

(* The records that were counted, as a sequence.                           *)
LEMMA CountedFacts ==
  ASSUME ParseInv
  PROVE  /\ blob \in Seq(Byte) /\ Len(blob) \in Nat /\ count \in Nat
         /\ Counted \in Seq(Recs) /\ Len(Counted) = count
         /\ \A k \in 1..count : /\ Counted[k] = RecordAt(starts[k])
                                /\ starts[k] \in 0..Len(blob) /\ ~Truncated(starts[k])
<1>1. /\ blob \in Seq(Byte) /\ count \in Nat /\ starts \in Seq(Nat) /\ Len(starts) = count
      /\ \A k \in 1..count : ~Truncated(starts[k])
  BY DEF ParseInv
<1>2. \A k \in 1..count : starts[k] \in Nat
  BY <1>1, ElementOfSeq
<1>3. Len(blob) \in Nat
  BY <1>1, LenProperties
<1>4. \A k \in 1..count : starts[k] \in 0..Len(blob)
  BY <1>1, <1>2, EntryIsRecord
<1>5. \A k \in 1..count : RecordAt(starts[k]) \in Recs
  BY <1>4 DEF Recs
<1>6. Counted \in [1..count -> Recs] /\ \A k \in 1..count : Counted[k] = RecordAt(starts[k])
  <2> HIDE DEF Recs
  <2> QED
    BY <1>5 DEF Counted
<1> HIDE DEF Recs, Counted
<1>7. Counted \in Seq(Recs) /\ Len(Counted) = count
  BY <1>1, <1>6
<1> QED
  BY <1>1, <1>3, <1>4, <1>6, <1>7

(* In the first pass the cursor is in the blob or at its end.              *)
LEMMA CursorInBlob ==
  ASSUME ParseInv, parse_pc = "count"
  PROVE  cursor \in 0..Len(blob)
<1>1. /\ Len(blob) \in Nat /\ count \in Nat /\ blob \in Seq(Byte)
      /\ \A k \in 1..count : starts[k] \in 0..Len(blob) /\ ~Truncated(starts[k])
  BY CountedFacts
<1>2. cursor = IF count = 0 THEN 0 ELSE starts[count] + RecordLen(starts[count])
  BY DEF ParseInv
<1>3. CASE count = 0
  BY <1>1, <1>2, <1>3
<1>4. CASE count # 0
  <2> DEFINE c == starts[count]
  <2>1. c \in Nat /\ ~Truncated(c)
    BY <1>1, <1>4
  <2>2. RecordLen(c) \in Nat /\ (Truncated(c) <=> c + RecordLen(c) > Len(blob))
    BY <1>1, <2>1, RecordType, Zenon
  <2> HIDE DEF c
  <2>3. cursor = c + RecordLen(c)
    BY <1>2, <1>4 DEF c
  <2> QED
    BY <1>1, <2>1, <2>2, <2>3
<1> QED
  BY <1>3, <1>4

(* First pass: the record that is counted is the next of the reference.    *)
LEMMA CountTable ==
  ASSUME TableInv, ParseInv', count_record
  PROVE  TableInv'
<1>0. ParseInv /\ parse_pc = "count" /\ cursor < Len(blob) /\ UNCHANGED <<blob, dir>>
  BY DEF TableInv, count_record
<1>1. /\ blob \in Seq(Byte) /\ Len(blob) \in Nat /\ count \in Nat
      /\ Counted \in Seq(Recs) /\ Len(Counted) = count
      /\ cursor \in 0..Len(blob)
  BY <1>0, CountedFacts, CursorInBlob
<1>2. /\ Records' = Records
      /\ \A c : RecordAt(c)' = RecordAt(c) /\ EntryAt(c)' = EntryAt(c)
  BY <1>0, RecordsStay
<1>3. /\ Records[0] = Counted \o Records[cursor] /\ dir = <<>>
      /\ Records[cursor] \in Seq(Recs)
  BY <1>0, <1>1, RecordsType DEF TableInv
<1>4. dir' \in Seq(Ents') /\ dir' = <<>> /\ Len(dir') = 0
  BY <1>0, <1>3, EmptySeq, Zenon
<1>5. CASE Truncated(cursor)
  <2>1. parse_pc' = "alloc" /\ UNCHANGED <<cursor, count, starts>>
    BY <1>5 DEF count_record
  <2>2. Records[cursor] = <<>>
    <3>1. cursor \in Nat
      BY <1>1
    <3>2. ~Fits(cursor)
      BY <1>1, <1>5, <3>1, FitsIsNotTruncated, Zenon
    <3> QED
      BY <1>1, <3>2, RecordsStep, Zenon
  <2>3. Records[0] = Counted
    BY <1>1, <1>3, <2>2, ConcatEmptySeq, Zenon
  <2>4. Counted' = Counted
    BY <1>2, <2>1, Zenon DEF Counted
  <2> QED
    BY <1>2, <1>4, <2>1, <2>3, <2>4 DEF TableInv, Ents
<1>6. CASE ~Truncated(cursor)
  <2>1. /\ cursor' = cursor + RecordLen(cursor) /\ count' = count + 1
        /\ starts' = Append(starts, cursor) /\ parse_pc' = "count"
    BY <1>0, <1>6 DEF count_record
  <2>2. Fits(cursor) /\ cursor' = cursor + 3 + blob[cursor + 1]
    <3>1. cursor \in Nat /\ Fits(cursor) /\ RecordLen(cursor) = 3 + blob[cursor + 1]
      BY <1>0, <1>1, <1>6, FitsIsNotTruncated
    <3>2. blob[cursor + 1] \in 0..255
      BY <1>1, <3>1, FitsFacts, ZenonT(30) DEF Byte
    <3> DEFINE b == blob[cursor + 1]
    <3> HIDE DEF b
    <3>3. cursor + (3 + b) = cursor + 3 + b
      BY <3>1, <3>2 DEF b
    <3> QED
      BY <2>1, <3>1, <3>3 DEF b
  <2>3. cursor' \in 0..Len(blob)
    BY <1>1, <2>2, FitsFacts, ZenonT(30)
  <2> DEFINE r == RecordAt(cursor)
  <2>4. Records[cursor] = <<r>> \o Records[cursor']
    <3>1. blob \in Seq(Byte) /\ cursor \in 0..Len(blob)
      BY <1>1
    <3>2. Fits(cursor) => Records[cursor] = <<RecordAt(cursor)>> \o Records[cursor + 3 + blob[cursor + 1]]
      BY <3>1, RecordsStep, Zenon
    <3> QED
      BY <2>2, <3>2, Zenon
  <2>5. Records[cursor'] \in Seq(Recs)
    BY <1>1, <2>3, RecordsType
  <2>6. r \in Recs
    BY <1>1 DEF Recs
  <2> HIDE DEF r
  <2>7. Counted' = Counted \o <<r>>
    <3>1. /\ starts \in Seq(Nat) /\ Len(starts) = count
      BY <1>0 DEF ParseInv
    <3>2. /\ \A k \in 1..count : starts'[k] = starts[k]
          /\ starts'[count + 1] = cursor
      BY <1>1, <2>1, <3>1
    <3>3. Counted' = [k \in 1..(count + 1) |-> RecordAt(starts'[k])]
      BY <1>2, <2>1, Zenon DEF Counted
    <3>4. \A k \in 1..count : Counted[k] = RecordAt(starts[k])
      BY <1>0, CountedFacts
    <3> DEFINE q == Counted
               q2 == [k \in 1..(count + 1) |-> RecordAt(starts'[k])]
               o == q \o <<r>>
    <3>5. q \in Seq(Recs) /\ Len(q) = count /\ \A k \in 1..count : q[k] = RecordAt(starts[k])
      BY <1>1, <3>4
    <3> HIDE DEF q, Recs
    <3>6. /\ o \in Seq(Recs) /\ Len(o) = count + 1
          /\ \A k \in 1..count : o[k] = q[k]
          /\ o[count + 1] = r
      BY <1>1, <2>6, <3>5
    <3> HIDE DEF o
    <3>7. \A k \in 1..(count + 1) : RecordAt(starts'[k]) = o[k]
      <4> SUFFICES ASSUME NEW k \in 1..(count + 1) PROVE RecordAt(starts'[k]) = o[k]
        OBVIOUS
      <4>1. CASE k \in 1..count
        <5>1. starts'[k] = starts[k] /\ o[k] = q[k] /\ q[k] = RecordAt(starts[k])
          BY <3>2, <3>5, <3>6, <4>1
        <5> QED
          BY <5>1, Zenon
      <4>2. CASE k = count + 1
        BY <3>2, <3>6, <4>2, Zenon DEF r
      <4> QED
        BY <1>1, <4>1, <4>2
    <3>8. q2 \in Seq(Recs) /\ Len(q2) = count + 1 /\ \A k \in 1..(count + 1) : q2[k] = o[k]
      <4>1. \A k \in 1..(count + 1) : o[k] \in Recs
        BY <3>6, ElementOfSeq
      <4> QED
        BY <1>1, <3>7, <4>1
    <3> HIDE DEF q2
    <3>9. q2 = o
      BY <3>6, <3>8, SeqEqual
    <3> QED
      BY <3>3, <3>9, Zenon DEF q2, o, q
  <2>8. Records[0] = Counted' \o Records[cursor']
    <3> DEFINE q == Counted
               z == Records[cursor']
    <3>1. q \in Seq(Recs) /\ z \in Seq(Recs) /\ <<r>> \in Seq(Recs)
      BY <1>1, <2>5, <2>6
    <3> HIDE DEF q, z
    <3>2. q \o (<<r>> \o z) = (q \o <<r>>) \o z
      BY <3>1, ConcatAssociative, SMTT(30)
    <3> QED
      BY <1>3, <2>4, <2>7, <3>2, Zenon DEF q, z
  <2> QED
    BY <1>2, <1>4, <2>1, <2>8 DEF TableInv, Ents
<1> QED
  BY <1>5, <1>6


(* Steps that leave the record, the count and the table alone.             *)
LEMMA QuietTable ==
  ASSUME ParseInv, UNCHANGED <<blob, count, starts>>
  PROVE  /\ Records' = Records /\ Ents' = Ents /\ Counted' = Counted
         /\ \A c : EntryAt(c)' = EntryAt(c)
<1>1. /\ Records' = Records
      /\ \A c : RecordAt(c)' = RecordAt(c) /\ EntryAt(c)' = EntryAt(c)
  BY RecordsStay
<1>2. Counted' = Counted
  BY <1>1, Zenon DEF Counted
<1>3. Ents' = Ents
  <2>1. Ents = {EntryOf(blob, starts[k]) : k \in 1..count}
    BY Zenon DEF Ents, EntryAt, KeyAt, NameAt, At, EntryOf, AtOf
  <2>2. Ents' = {EntryOf(blob', starts'[k]) : k \in 1..count'}
    BY Zenon DEF Ents, EntryAt, KeyAt, NameAt, At, EntryOf, AtOf
  <2> QED
    BY <2>1, <2>2, Zenon
<1> QED
  BY <1>1, <1>2, <1>3

(* Second pass: the entry is that of the record counted at this place.     *)
LEMMA FillTable ==
  ASSUME TableInv, ParseInv', fill_record
  PROVE  TableInv'
<1>1. /\ ParseInv /\ parse_pc = "fill" /\ filled < count /\ filled' = filled + 1
      /\ UNCHANGED <<blob, parse_pc, count, starts>>
      /\ dir' = Append(dir, EntryAt(cursor))
  BY DEF TableInv, fill_record, EntryAt
<1>2. /\ Records' = Records /\ Ents' = Ents /\ Counted' = Counted
      /\ \A c : EntryAt(c)' = EntryAt(c)
  BY <1>1, QuietTable
<1>3. /\ count \in Nat /\ filled \in 0..count /\ cursor = starts[filled + 1]
  BY <1>1 DEF ParseInv
<1>4. filled + 1 \in 1..count
  BY <1>1, <1>3
<1>5. /\ dir \in Seq(Ents) /\ Len(dir) = filled /\ \A k \in 1..filled : dir[k] = EntryAt(starts[k])
  BY <1>1 DEF TableInv, Ents
<1> DEFINE e == EntryAt(cursor)
<1>6. e \in Ents
  BY <1>3, <1>4 DEF Ents
<1> HIDE DEF e, Ents
<1>7. dir' = Append(dir, e)
  BY <1>1 DEF e
<1>8. /\ dir' \in Seq(Ents) /\ Len(dir') = filled + 1 /\ dir'[filled + 1] = e
      /\ \A k \in 1..filled : dir'[k] = dir[k]
  BY <1>3, <1>5, <1>6, <1>7
<1>9. \A k \in 1..(filled + 1) : dir'[k] = EntryAt(starts[k])
  <2> SUFFICES ASSUME NEW k \in 1..(filled + 1) PROVE dir'[k] = EntryAt(starts[k])
    OBVIOUS
  <2>1. CASE k \in 1..filled
    BY <1>5, <1>8, <2>1, Zenon
  <2>2. CASE k = filled + 1
    BY <1>3, <1>8, <2>2, Zenon DEF e
  <2> QED
    BY <1>3, <2>1, <2>2
<1>10. Records'[0] = Counted'
  BY <1>1, <1>2 DEF TableInv
<1>11. dir' \in Seq({EntryAt(starts[k]) : k \in 1..count})'
  BY <1>2, <1>8, Zenon DEF Ents
<1>12. (\A k \in 1..Len(dir) : dir[k] = EntryAt(starts[k]))'
  <2>1. \A k \in 1..Len(dir') : dir'[k] = EntryOf(blob', starts'[k])
    BY <1>1, <1>8, <1>9, EntryOfBlob, Zenon
  <2> QED
    BY <2>1, Zenon DEF EntryAt, KeyAt, NameAt, At, EntryOf, AtOf
<1>13. count' > 0
  BY <1>1, <1>3
<1> QED
  BY <1>1, <1>8, <1>10, <1>11, <1>12, <1>13, SMTT(30) DEF TableInv

(* The other steps.                                                        *)
LEMMA TableStep ==
  ASSUME TableInv, ParseInv', [ParseNext]_parse_vars
  PROVE  TableInv'
<1>0. ParseInv
  BY DEF TableInv
<1>1. CASE count_record
  BY <1>1, CountTable
<1>2. CASE fill_record
  BY <1>2, FillTable
<1>3. ASSUME UNCHANGED <<blob, count, starts, dir>>
      PROVE  /\ Records' = Records /\ Counted' = Counted
             /\ dir' \in Seq({EntryAt(starts[k]) : k \in 1..count})'
             /\ (\A k \in 1..Len(dir) : dir[k] = EntryAt(starts[k]))'
             /\ Collides' = Collides
  <2>1. /\ Records' = Records /\ Ents' = Ents /\ Counted' = Counted
        /\ \A c : EntryAt(c)' = EntryAt(c)
    BY <1>0, <1>3, QuietTable
  <2>2. dir \in Seq(Ents) /\ \A k \in 1..Len(dir) : dir[k] = EntryAt(starts[k])
    BY DEF TableInv, Ents
  <2>3. dir' \in Seq({EntryAt(starts[k]) : k \in 1..count})'
    BY <1>3, <2>1, <2>2, Zenon DEF Ents
  <2>4. Collides' = Collides
    BY <1>3 DEF Collides
  <2>5. (\A k \in 1..Len(dir) : dir[k] = EntryAt(starts[k]))'
    <3>1. \A k \in 1..Len(dir') : dir'[k] = EntryOf(blob', starts'[k])
      BY <1>3, <2>2, EntryOfBlob, Zenon
    <3> QED
      BY <3>1, Zenon DEF EntryAt, KeyAt, NameAt, At, EntryOf, AtOf
  <2> QED
    BY <2>1, <2>3, <2>4, <2>5
<1>4. CASE count_end
  <2>1. /\ parse_pc = "count" /\ cursor >= Len(blob) /\ parse_pc' = "alloc"
        /\ UNCHANGED <<blob, count, starts, dir>>
    BY <1>4 DEF count_end
  <2>2. /\ blob \in Seq(Byte) /\ Len(blob) \in Nat /\ cursor \in 0..Len(blob)
        /\ Counted \in Seq(Recs)
    BY <1>0, <2>1, CountedFacts, CursorInBlob
  <2>3. ~Fits(cursor)
    BY <2>1, <2>2 DEF Fits
  <2>4. Records[cursor] = <<>>
    BY <2>2, <2>3, RecordsStep, Zenon
  <2>5. Records[0] = Counted
    <3>1. Records[0] = Counted \o Records[cursor]
      BY <2>1, ZenonT(30) DEF TableInv
    <3> QED
      BY <2>2, <2>4, <3>1, ConcatEmptySeq, Zenon
  <2> QED
    BY <1>3, <2>1, <2>5 DEF TableInv
<1>5. CASE allocate
  <2>1. /\ UNCHANGED <<blob, count, starts, dir, filled>> /\ parse_pc = "alloc"
        /\ \/ count > 0 /\ parse_pc' = "fill"
           \/ parse_pc' = "done" /\ ret' = IF count = 0 THEN 0 ELSE -1
    BY <1>5, ZenonT(30) DEF allocate
  <2>2. Records[0] = Counted /\ dir = <<>> /\ filled = 0 /\ count \in Nat
    BY <2>1 DEF TableInv, ParseInv
  <2> QED
    BY <1>3, <2>1, <2>2 DEF TableInv
<1>6. CASE check_hashes
  <2>1. /\ UNCHANGED <<blob, count, starts, filled>> /\ parse_pc = "fill" /\ filled = count
        /\ parse_pc' = "done"
        /\ IF Collides THEN ret' = -1 /\ dir' = <<>> ELSE ret' = count /\ dir' = dir
    BY <1>6 DEF check_hashes
  <2>2. Records[0] = Counted /\ Len(dir) = count /\ count > 0
    BY <2>1, ZenonT(30) DEF TableInv
  <2>3. CASE Collides
    <3>1. ret' = -1 /\ dir' = <<>>
      BY <2>1, <2>3
    <3>2. Records' = Records /\ Counted' = Counted
      BY <1>0, <2>1, QuietTable
    <3>3. dir' \in Seq({EntryAt(starts[k]) : k \in 1..count})' /\ Len(dir') = 0
      BY <3>1, EmptySeq, Zenon
    <3> QED
      BY <2>1, <2>2, <3>1, <3>2, <3>3 DEF TableInv
  <2>4. CASE ~Collides
    <3>1. ret' = count /\ dir' = dir
      BY <2>1, <2>4, ZenonT(30)
    <3> QED
      BY <1>3, <2>1, <2>2, <2>4, <3>1 DEF TableInv
  <2> QED
    BY <2>3, <2>4
<1>7. CASE UNCHANGED parse_vars
  <2>1. UNCHANGED <<blob, parse_pc, cursor, count, dir, filled, ret, starts>>
    BY <1>7 DEF parse_vars
  <2> QED
    BY <1>3, <2>1 DEF TableInv
<1> QED
  BY <1>1, <1>2, <1>4, <1>5, <1>6, <1>7 DEF ParseNext

LEMMA TableInit ==
  ASSUME ParseInit, ParseInv
  PROVE  TableInv
<1>1. parse_pc = "count" /\ cursor = 0 /\ count = 0 /\ dir = <<>> /\ blob \in Seq(Byte)
  BY DirAssumption DEF ParseInit
<1>2. Counted = <<>>
  BY <1>1, CountedFacts, EmptySeq
<1>3. Records[0] \in Seq(Recs)
  BY <1>1, LenProperties, RecordsType
<1>4. Records[0] = Counted \o Records[cursor]
  BY <1>1, <1>2, <1>3, ConcatEmptySeq, Zenon
<1>5. dir \in Seq({EntryAt(starts[k]) : k \in 1..count}) /\ Len(dir) = 0
  BY <1>1, EmptySeq, Zenon
<1> QED
  BY <1>1, <1>4, <1>5 DEF TableInv


(* What an accepted table holds, entry by entry.                           *)
LEMMA AcceptedTable ==
  ASSUME TableInv, parse_pc = "done", ret > 0
  PROVE  /\ count \in Nat /\ ret = count /\ Len(dir) = count /\ DOMAIN dir = 1..count /\ ~Collides
         /\ Len(Records[0]) = count /\ DOMAIN Records[0] = 1..count
         /\ \A e \in 1..count :
              /\ dir[e].hash = fnv1a(Records[0][e].name)
              /\ dir[e].key = Records[0][e].key /\ dir[e].flags = dir[e].key \div 256
              /\ \E hi \in Byte, lo \in Byte : dir[e].key = 256 * hi + lo
<1>1. /\ count \in Nat /\ ret = count /\ Len(dir) = count /\ ~Collides
      /\ dir \in Seq(Ents) /\ Records[0] = Counted /\ ParseInv
      /\ \A k \in 1..Len(dir) : dir[k] = EntryAt(starts[k])
  <2>1. ParseInv /\ dir \in Seq(Ents) /\ \A k \in 1..Len(dir) : dir[k] = EntryAt(starts[k])
    BY Zenon DEF TableInv, Ents
  <2>2. Records[0] = Counted
    BY DEF TableInv
  <2>3. ret = 0 \/ ret = -1 \/ (ret = count /\ Len(dir) = count /\ ~Collides)
    BY Zenon DEF TableInv
  <2>4. ~(ret = 0) /\ ~(ret = -1)
    OBVIOUS
  <2>5. count \in Nat
    BY <2>1 DEF ParseInv
  <2> QED
    BY <2>1, <2>2, <2>3, <2>4, <2>5, Zenon
<1>2. /\ blob \in Seq(Byte) /\ Counted \in Seq(Recs) /\ Len(Counted) = count
      /\ \A k \in 1..count : /\ Counted[k] = RecordAt(starts[k])
                             /\ starts[k] \in 0..Len(blob) /\ ~Truncated(starts[k])
  BY <1>1, CountedFacts, ZenonT(30)
<1>3. DOMAIN dir = 1..count /\ DOMAIN Records[0] = 1..count
  BY <1>1, <1>2, LenProperties, ZenonT(30)
<1>4. ASSUME NEW e \in 1..count
      PROVE  /\ dir[e].hash = fnv1a(Records[0][e].name)
             /\ dir[e].key = Records[0][e].key /\ dir[e].flags = dir[e].key \div 256
             /\ \E hi \in Byte, lo \in Byte : dir[e].key = 256 * hi + lo
  <2> DEFINE c == starts[e]
  <2>1. c \in Nat /\ ~Truncated(c) /\ Records[0][e] = RecordAt(c) /\ dir[e] = EntryAt(c)
    <3>1. c \in 0..Len(blob) /\ ~Truncated(c) /\ Counted[e] = RecordAt(c)
      BY <1>2, Zenon
    <3>2. e \in 1..Len(dir)
      BY <1>1, Zenon
    <3>3. dir[e] = EntryAt(c) /\ Records[0] = Counted
      BY <1>1, <3>2, Zenon
    <3> HIDE DEF c
    <3>4. c \in Nat
      BY <3>1
    <3> QED
      BY <3>1, <3>3, <3>4, Zenon
  <2> HIDE DEF c
  <2>2. /\ KeyAt(c) = RecordAt(c).key /\ NameAt(c) = RecordAt(c).name
        /\ \E hi \in Byte, lo \in Byte : KeyAt(c) = 256 * hi + lo
    BY <1>2, <2>1, EntryIsRecord, ZenonT(30)
  <2>4. dir[e].hash = fnv1a(NameAt(c)) /\ dir[e].key = KeyAt(c) /\ dir[e].flags = KeyAt(c) \div 256
    BY <2>1, EntryFields, ZenonT(30)
  <2>5. fnv1a(NameAt(c)) = fnv1a(Records[0][e].name) /\ KeyAt(c) = Records[0][e].key
    BY <2>1, <2>2, Zenon
  <2>6. dir[e].flags = dir[e].key \div 256
    BY <2>4
  <2>7. \E hi \in Byte, lo \in Byte : dir[e].key = 256 * hi + lo
    BY <2>2, <2>4, SMTT(30)
  <2> QED
    BY <2>4, <2>5, <2>6, <2>7, ZenonT(30)
<1> QED
  BY <1>1, <1>2, <1>3, <1>4, ZenonT(30)

LEMMA TableInvIsBlob == TableInv => TableIsBlob
<1> SUFFICES ASSUME TableInv, parse_pc = "done"
             PROVE  /\ ret > 0 => /\ Len(dir) = Len(Records[0])
                                  /\ \A e \in DOMAIN dir : dir[e].key = Records[0][e].key
                    /\ ret = 0 => Records[0] = <<>>
                    /\ ret <= 0 => dir = <<>>
                    /\ ret \in {-1, 0, Len(Records[0])}
  BY DEF TableIsBlob
<1>1. /\ count \in Nat /\ Records[0] = Counted
      /\ \/ ret = 0 /\ count = 0 /\ dir = <<>>
         \/ ret = -1 /\ dir = <<>>
         \/ ret = count /\ count > 0
  BY SMTT(30) DEF TableInv, ParseInv
<1>2. Counted \in Seq(Recs) /\ Len(Counted) = count
  BY CountedFacts DEF TableInv
<1>3. count = 0 => Counted = <<>>
  BY <1>2, EmptySeq, SMTT(30)
<1> QED
  BY <1>1, <1>2, <1>3, AcceptedTable

LEMMA TableInvLookup == TableInv => LookupExact
<1> SUFFICES ASSUME TableInv, parse_pc = "done", ret > 0, NEW e \in DOMAIN Records[0]
             PROVE  /\ dir_find(Records[0][e].name) = e - 1
                    /\ 256 * dir[e].flags + (Records[0][e].key % 256) = Records[0][e].key
  BY SMTT(30) DEF LookupExact
<1>1. /\ count \in Nat /\ Len(dir) = count /\ DOMAIN dir = 1..count /\ ~Collides
      /\ e \in 1..count
      /\ dir[e].hash = fnv1a(Records[0][e].name)
      /\ dir[e].key = Records[0][e].key /\ dir[e].flags = dir[e].key \div 256
      /\ \E hi \in Byte, lo \in Byte : dir[e].key = 256 * hi + lo
  BY AcceptedTable
<1>2. dir_find(Records[0][e].name) = e - 1
  <2> DEFINE found == {j \in DOMAIN dir : dir[j].hash = fnv1a(Records[0][e].name)}
             least == CHOOSE j \in found : \A k \in found : j <= k
  <2>1. ASSUME NEW j \in 1..count, dir[j].hash = dir[e].hash PROVE j = e
    <3>1. CASE j < e
      <4>1. e \in 2..Len(dir) /\ j \in 1..(e - 1)
        BY <1>1, <3>1, SMTT(30)
      <4> QED
        BY <1>1, <2>1, <4>1, SMTT(30) DEF Collides
    <3>2. CASE e < j
      <4>1. j \in 2..Len(dir) /\ e \in 1..(j - 1)
        BY <1>1, <3>2
      <4> QED
        BY <1>1, <2>1, <4>1 DEF Collides
    <3> QED
      BY <1>1, <3>1, <3>2, SMTT(30)
  <2>2. found = {e}
    BY <1>1, <2>1
  <2>3. dir_find(Records[0][e].name) = IF found = {} THEN -1 ELSE least - 1
    BY DEF dir_find
  <2> HIDE DEF found
  <2>4. least = e
    <3>1. e <= e
      BY <1>1
    <3>2. least \in found
      BY <2>2, <3>1, ZenonT(30)
    <3> QED
      BY <2>2, <3>2
  <2> QED
    BY <2>2, <2>3, <2>4, Zenon
<1>3. 256 * dir[e].flags + (Records[0][e].key % 256) = Records[0][e].key
  <2>1. PICK hi \in Byte, lo \in Byte : dir[e].key = 256 * hi + lo
    BY <1>1
  <2> DEFINE n == 256 * hi + lo
  <2>2. n \in Nat
    BY DEF Byte
  <2>3. 256 * (n \div 256) + (n % 256) = n
    BY <2>2
  <2> QED
    BY <1>1, <2>1, <2>3
<1> QED
  BY <1>2, <1>3

-----------------------------------------------------------------------------
(* The counting and the filling pass of ss_dir_table_from_blob agree with  *)
(* the recursive reading of the blob at every step, for every blob.        *)
THEOREM TableInvariance == ParseSpec => []TableInv
<1>1. ParseInit => TableInv
  BY ParseInitInv, TableInit
<1>2. ParseInv /\ ParseInv' /\ TableInv /\ [ParseNext]_parse_vars => TableInv'
  BY TableStep
<1> QED
  BY <1>1, <1>2, ParseInvariance, PTL DEF ParseSpec

(* A table that ss_dir_table_from_blob returns has the complete records of *)
(* the blob, in order and under their keys; it is refused or empty only    *)
(* for the reasons the code gives.                                         *)
THEOREM TableFromBlob == ParseSpec => []TableIsBlob
BY TableInvariance, TableInvIsBlob, PTL

(* In an accepted table ss_dir_find, which compares hashes only, finds     *)
(* every path under its own key and flag byte, for any hash function.      *)
THEOREM LookupsExact == ParseSpec => []LookupExact
BY TableInvariance, TableInvLookup, PTL
=============================================================================
