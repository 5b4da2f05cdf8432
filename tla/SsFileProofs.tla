---------------------------- MODULE SsFileProofs ----------------------------
(***************************************************************************)
(* Proofs about SsFile, for every word size, growth step, heap limit, file *)
(* content and length of a read or write, and for a caller that seeks and  *)
(* writes anywhere: the buffer holds what was written, a call from inside  *)
(* the file stays in the buffer, and what reads return and NVS holds.      *)
(***************************************************************************)
EXTENDS SsFile, SequenceTheorems, WellFoundedInduction, TLAPS

USE FileAssumption

-----------------------------------------------------------------------------
(* Numbers.                                                                *)

LEMMA ModSmall ==
  ASSUME NEW m \in Nat \ {0}, NEW a \in Nat, a < m
  PROVE  a % m = a
OBVIOUS

LEMMA MulMonotonic ==
  ASSUME NEW s \in Nat, NEW a \in Nat, NEW b \in Nat, a <= b
  PROVE  a * s <= b * s /\ a * s \in Nat
OBVIOUS

(* The division of ss_fread: the most whole elements of s bytes in d.      *)
LEMMA DivIsMost ==
  ASSUME NEW d \in Nat, NEW s \in Nat \ {0}
  PROVE  /\ d \div s \in Nat /\ (d \div s) * s <= d
         /\ \A i \in Nat : i * s <= d => i <= d \div s
<1> DEFINE q == d \div s
<1>1. q \in Nat /\ q * s <= d /\ d < (q + 1) * s
  OBVIOUS
<1> HIDE DEF q
<1>2. ASSUME NEW i \in Nat, i * s <= d PROVE i <= q
  <2>1. q + 1 <= i => (q + 1) * s <= i * s
    BY <1>1, MulMonotonic
  <2>2. (q + 1) * s \in Nat /\ i * s \in Nat
    BY <1>1
  <2> QED
    BY <1>1, <1>2, <2>1, <2>2
<1>3. QED
  BY <1>1, <1>2 DEF q

(* A set of numbers has a least one, and a bounded one a greatest.         *)
LEMMA LeastExists ==
  ASSUME NEW T \in SUBSET Nat, T # {}
  PROVE  \E x \in T : \A y \in T : x <= y
<1> DEFINE R == OpToRel(<, Nat)
<1>1. IsWellFoundedOn(R, Nat)
  BY NatLessThanWellFounded, Zenon
<1>2. \A x, y \in Nat : y < x => <<y, x>> \in R
  BY DEF OpToRel
<1> HIDE DEF R
<1>3. PICK x \in T : \A y \in T : ~(<<y, x>> \in R)
  BY <1>1, WFMin, Zenon
<1>4. ASSUME NEW y \in T PROVE x <= y
  <2>1. x \in Nat /\ y \in Nat
    OBVIOUS
  <2>2. ~(y < x)
    BY <1>2, <1>3, <2>1, Zenon
  <2> QED
    BY <2>1, <2>2
<1> QED
  BY <1>4

LEMMA MaxOfBounded ==
  ASSUME NEW n \in Nat, NEW S \in SUBSET (0..n), S # {}
  PROVE  Max(S) \in S /\ \A j \in S : j <= Max(S)
<1> DEFINE T == {n - j : j \in S}
<1>1. T \in SUBSET Nat /\ T # {}
  <2>1. \A j \in S : n - j \in Nat
    OBVIOUS
  <2>2. \E j \in S : n - j \in T
    BY Zenon
  <2> QED
    BY <2>1, <2>2
<1>2. PICK x \in T : \A y \in T : x <= y
  BY <1>1, LeastExists, Zenon
<1>3. PICK k \in S : x = n - k
  BY <1>2
<1>4. \A j \in S : k >= j
  <2> SUFFICES ASSUME NEW j \in S PROVE k >= j
    OBVIOUS
  <2>1. n - j \in T
    OBVIOUS
  <2>2. n - k <= n - j
    BY <1>2, <1>3, <2>1, Zenon
  <2>3. k \in 0..n /\ j \in 0..n
    BY Zenon
  <2> QED
    BY <2>2, <2>3
<1>5. Max(S) \in S /\ \A j \in S : Max(S) >= j
  BY <1>4, Zenon DEF Max
<1>6. Max(S) \in 0..n /\ \A j \in S : j \in 0..n
  BY <1>5, Zenon
<1> QED
  BY <1>5, <1>6

LEMMA MaxUnique ==
  ASSUME NEW S \in SUBSET Nat, NEW k \in S, \A j \in S : j <= k
  PROVE  Max(S) = k
<1>1. \E x \in S : \A y \in S : x >= y
  OBVIOUS
<1>2. Max(S) \in S /\ \A y \in S : Max(S) >= y
  BY <1>1, Zenon DEF Max
<1>3. Max(S) \in Nat /\ k \in Nat /\ Max(S) <= k /\ Max(S) >= k
  BY <1>2, Zenon
<1> QED
  BY <1>3

LEMMA MinOfTwo ==
  ASSUME NEW a \in Nat, NEW b \in Nat
  PROVE  Min({a, b}) = IF a <= b THEN a ELSE b
BY DEF Min


-----------------------------------------------------------------------------
(* Bytes.                                                                  *)

LEMMA StringsAreSeqs ==
  ASSUME NEW n \in Nat, NEW b \in Strings(n)
  PROVE  b \in Seq(Bytes) /\ Len(b) = n
BY DEF Strings

(* Bytes written inside a sequence.                                        *)
LEMMA OverInside ==
  ASSUME NEW s \in Seq(Bytes), NEW d \in Seq(Bytes), NEW n \in Nat, n + Len(d) <= Len(s)
  PROVE  /\ Over(s, n, d) \in Seq(Bytes) /\ Len(Over(s, n, d)) = Len(s)
         /\ \A i \in 1..Len(s) : n < i /\ i <= n + Len(d) => Over(s, n, d)[i] = d[i - n]
         /\ \A i \in 1..Len(s) : i <= n \/ n + Len(d) < i => Over(s, n, d)[i] = s[i]
<1> DEFINE o == [i \in 1..Len(s) |-> IF i > n /\ i <= n + Len(d) THEN d[i - n] ELSE s[i]]
<1>1. Len(s) \in Nat /\ Len(d) \in Nat /\ n <= Len(s)
  BY LenProperties
<1>2. Over(s, n, d) = o
  BY DEF Over
<1>3. \A i \in 1..Len(s) : n < i /\ i <= n + Len(d) => i - n \in 1..Len(d) /\ o[i] = d[i - n]
  BY <1>1
<1>4. \A i \in 1..Len(s) : i <= n \/ n + Len(d) < i => o[i] = s[i]
  BY <1>1
<1>5. \A i \in 1..Len(s) : o[i] \in Bytes
  <2> SUFFICES ASSUME NEW i \in 1..Len(s) PROVE o[i] \in Bytes
    OBVIOUS
  <2> HIDE DEF o
  <2>1. CASE n < i /\ i <= n + Len(d)
    BY <1>3, <2>1, ElementOfSeq
  <2>2. CASE i <= n \/ n + Len(d) < i
    BY <1>4, <2>2, ElementOfSeq
  <2> QED
    BY <1>1, <2>1, <2>2
<1>6. o \in [1..Len(s) -> Bytes]
  BY <1>5
<1>7. o \in Seq(Bytes) /\ Len(o) = Len(s)
  BY <1>1, <1>6
<1> HIDE DEF o
<1> QED
  BY <1>2, <1>3, <1>4, <1>7, Zenon

LEMMA PartFacts ==
  ASSUME NEW s \in Seq(Bytes), NEW a \in Nat, NEW k \in Nat, a + k <= Len(s)
  PROVE  /\ SubSeq(s, a + 1, a + k) \in Seq(Bytes)
         /\ Len(SubSeq(s, a + 1, a + k)) = k
         /\ \A i \in 1..k : SubSeq(s, a + 1, a + k)[i] = s[a + i]
<1>1. \A i \in (a + 1)..(a + k) : s[i] \in Bytes
  BY LenProperties, ElementOfSeq
<1> QED
  BY <1>1, SubSeqProperties

LEMMA PrefixIs ==
  ASSUME NEW b \in Seq(Bytes), NEW f \in Seq(Bytes), NEW n \in Nat
  PROVE  n <= Len(b) /\ SubSeq(b, 1, n) = f <=>
           n <= Len(b) /\ Len(f) = n /\ \A i \in 1..n : b[i] = f[i]
<1>1. ASSUME n <= Len(b)
      PROVE  /\ SubSeq(b, 1, n) \in Seq(Bytes) /\ Len(SubSeq(b, 1, n)) = n
             /\ \A i \in 1..n : SubSeq(b, 1, n)[i] = b[i]
  <2>1. \A i \in 1..n : b[i] \in Bytes
    BY <1>1, LenProperties, ElementOfSeq
  <2> QED
    BY <2>1, SubSeqProperties
<1>2. ASSUME n <= Len(b), SubSeq(b, 1, n) = f
      PROVE  Len(f) = n /\ \A i \in 1..n : b[i] = f[i]
  BY <1>1, <1>2
<1>3. ASSUME n <= Len(b), Len(f) = n, \A i \in 1..n : b[i] = f[i]
      PROVE  SubSeq(b, 1, n) = f
  BY <1>1, <1>3, SeqEqual
<1> QED
  BY <1>2, <1>3

-----------------------------------------------------------------------------
(* The parts of the invariant.                                             *)

(* A buffer b holds the bytes that were written, w.                        *)
Holds(b, w) == \A i \in Places : w[i] # NULL => i <= Len(b) /\ b[i] = w[i]

LEMMA FileFacts ==
  ASSUME FileInv
  PROVE  /\ buf \in Seq(Bytes) /\ rec \in Seq(Bytes)
         /\ Len(buf) \in Nat /\ Len(buf) <= BUF_LIMIT
         /\ Len(rec) \in Nat /\ Len(rec) <= BUF_LIMIT
         /\ p \in Nat /\ l \in Nat /\ p < WORD /\ l < WORD
         /\ wrote \in [Places -> Bytes \cup {NULL}]
         /\ stray \subseteq {"read", "write"}
<1>1. /\ buf \in Seq(Bytes) /\ rec \in Seq(Bytes)
      /\ Len(buf) <= BUF_LIMIT /\ Len(rec) <= BUF_LIMIT
      /\ p \in 0..(WORD - 1) /\ l \in 0..(WORD - 1)
      /\ wrote \in [Places -> Bytes \cup {NULL}]
      /\ stray \subseteq {"read", "write"}
  BY Zenon DEF FileInv, TypeOK
<1> QED
  BY <1>1, LenProperties

LEMMA IntactFacts ==
  ASSUME FileInv, Intact
  PROVE  l <= Len(buf) /\ Holds(buf, wrote) /\ (~dirty => rec = SubSeq(buf, 1, l))
BY Zenon DEF FileInv, BufferHoldsWrites, CleanIsRecord, Holds

(* Calls that only move the position.                                      *)
LEMMA MoveInv ==
  ASSUME FileInv, Intact, Intact', p' \in 0..(WORD - 1), stray' \subseteq {"read", "write"},
         UNCHANGED <<rec, buf, l, dirty, wrote>>
  PROVE  FileInv'
BY Zenon DEF FileInv, TypeOK, BufferHoldsWrites, CleanIsRecord

(* What a buffer that has grown still holds.                               *)
LEMMA GrownFacts ==
  ASSUME FileInv, Intact, NEW size \in Nat, Len(buf) <= size, NEW b \in Memory(0, size)
  PROVE  /\ b \in Seq(Bytes) /\ Len(b) = size /\ l <= size
         /\ Holds(b, wrote)
         /\ SubSeq(b, 1, l) = SubSeq(buf, 1, l)
<1>1. /\ buf \in Seq(Bytes) /\ Len(buf) \in Nat /\ l \in Nat /\ l <= Len(buf)
      /\ Holds(buf, wrote)
  BY FileFacts, IntactFacts
<1>2. b \in Strings(size) /\ \A i \in 1..size : i <= Len(buf) => b[i] = buf[i]
  BY DEF Memory
<1>3. b \in Seq(Bytes) /\ Len(b) = size
  BY <1>2, StringsAreSeqs
<1>4. \A i \in 1..Len(buf) : b[i] = buf[i]
  BY <1>1, <1>2
<1>5. Holds(b, wrote)
  <2> SUFFICES ASSUME NEW i \in Places, wrote[i] # NULL
               PROVE  i <= Len(b) /\ b[i] = wrote[i]
    BY DEF Holds
  <2>1. i <= Len(buf) /\ buf[i] = wrote[i]
    BY <1>1 DEF Holds
  <2>2. i \in 1..Len(buf)
    BY <1>1, <2>1 DEF Places
  <2> QED
    BY <1>1, <1>3, <1>4, <2>1, <2>2
<1>6. SubSeq(b, 1, l) = SubSeq(buf, 1, l)
  <2> DEFINE f == SubSeq(buf, 1, l)
  <2>1. f \in Seq(Bytes) /\ Len(f) = l /\ \A i \in 1..l : buf[i] = f[i]
    <3>1. \A i \in 1..l : buf[i] \in Bytes
      BY <1>1, ElementOfSeq
    <3> QED
      BY <1>1, <3>1, SubSeqProperties
  <2> HIDE DEF f
  <2>2. l <= Len(b) /\ \A i \in 1..l : b[i] = f[i]
    BY <1>1, <1>3, <1>4, <2>1
  <2> QED
    BY <1>1, <1>3, <2>1, <2>2, PrefixIs DEF f
<1> QED
  BY <1>1, <1>3, <1>5, <1>6

(* v is w with the bytes d written from n on.                              *)
Written(v, w, n, d) ==
  \A i \in Places : /\ i > n /\ i <= n + Len(d) => v[i] = d[i - n]
                    /\ i <= n \/ n + Len(d) < i => v[i] = w[i]

LEMMA OverHolds ==
  ASSUME NEW s \in Seq(Bytes), NEW d \in Seq(Bytes), NEW n \in Nat, n + Len(d) <= Len(s),
         NEW w, NEW v, Holds(s, w), Written(v, w, n, d)
  PROVE  Holds(Over(s, n, d), v)
<1>1. Len(s) \in Nat /\ Len(d) \in Nat
  BY LenProperties
<1> DEFINE o == Over(s, n, d)
<1>2. Len(o) = Len(s)
  BY OverInside
<1>3. \A i \in 1..Len(s) : n < i /\ i <= n + Len(d) => o[i] = d[i - n]
  BY OverInside
<1>4. \A i \in 1..Len(s) : i <= n \/ n + Len(d) < i => o[i] = s[i]
  BY OverInside
<1> HIDE DEF o
<1>5. ASSUME NEW i \in Places, v[i] # NULL
      PROVE  i <= Len(o) /\ o[i] = v[i]
  <2>1. CASE i > n /\ i <= n + Len(d)
    <3>1. i \in 1..Len(s)
      BY <1>1, <2>1 DEF Places
    <3> QED
      BY <1>1, <1>2, <1>3, <2>1, <3>1 DEF Written
  <2>2. CASE i <= n \/ n + Len(d) < i
    <3>1. w[i] # NULL /\ v[i] = w[i]
      BY <1>5, <2>2 DEF Written
    <3>2. i <= Len(s) /\ s[i] = w[i]
      BY <3>1 DEF Holds
    <3>3. i \in 1..Len(s)
      BY <1>1, <3>2 DEF Places
    <3> QED
      BY <1>2, <1>4, <2>2, <3>1, <3>2, <3>3
  <2> QED
    BY <1>1, <2>1, <2>2 DEF Places
<1> QED
  BY <1>5, Zenon DEF Holds, o

-----------------------------------------------------------------------------
(* Reads and seeks.                                                        *)

(* ss_fread takes the whole elements that are left, and no more: the       *)
(* conversion of _l - _p to size_t changes nothing.                        *)
LEMMA ReadableIsMost ==
  ASSUME FileInv, p <= l, NEW size \in Nat \ {0}, NEW nmemb \in Nat
  PROVE  LET r == Readable(size, nmemb) IN
         /\ r \in 0..nmemb /\ r * size \in Nat /\ p + r * size <= l
         /\ \A i \in 0..nmemb : p + i * size <= l => i <= r
<1> DEFINE d == l - p
           q == d \div size
           r == Readable(size, nmemb)
<1>1. p \in Nat /\ l \in Nat /\ p <= l /\ l < WORD /\ d \in Nat /\ d < WORD
  BY FileFacts
<1>2. d % SIZE = d
  <2>1. SIZE \in Nat \ {0} /\ WORD <= SIZE
    BY DEF SIZE
  <2>2. d < SIZE
    BY <1>1, <2>1
  <2> HIDE DEF d
  <2> QED
    BY <1>1, <2>1, <2>2, ModSmall
<1>3. /\ q \in Nat /\ q * size <= d
      /\ \A i \in Nat : i * size <= d => i <= q
  <2> HIDE DEF d
  <2> QED
    BY <1>1, DivIsMost
<1>4. r = IF nmemb <= q THEN nmemb ELSE q
  <2>1. r = Min({nmemb, q})
    BY <1>2, Zenon DEF Readable
  <2> HIDE DEF r, q
  <2> QED
    BY <1>3, <2>1, MinOfTwo
<1> HIDE DEF r, q
<1>5. r \in 0..nmemb /\ r \in Nat /\ r <= q
  BY <1>3, <1>4
<1>6. r * size <= q * size /\ r * size \in Nat /\ q * size \in Nat
  BY <1>3, <1>5, MulMonotonic
<1>7. p + r * size <= l
  <2>1. r * size <= l - p
    BY <1>1, <1>3, <1>6
  <2> QED
    BY <1>1, <1>6, <2>1
<1>8. ASSUME NEW i \in 0..nmemb, p + i * size <= l PROVE i <= r
  <2>1. i \in Nat /\ i * size \in Nat
    OBVIOUS
  <2>2. i * size <= d
    BY <1>1, <1>8, <2>1
  <2>3. i <= q
    BY <1>3, <2>1, <2>2
  <2> QED
    BY <1>4, <2>1, <2>3
<1> QED
  BY <1>5, <1>6, <1>7, <1>8 DEF r

LEMMA ReadableIsNat ==
  ASSUME FileInv, NEW size \in Nat \ {0}, NEW nmemb \in Nat
  PROVE  Readable(size, nmemb) * size \in Nat
<1>1. l - p \in Int /\ SIZE \in Nat \ {0}
  BY FileFacts DEF SIZE
<1>2. (l - p) % SIZE \in Nat
  BY <1>1
<1> DEFINE q == ((l - p) % SIZE) \div size
<1>3. q \in Nat
  BY <1>2, DivIsMost
<1>4. Readable(size, nmemb) = Min({nmemb, q})
  BY Zenon DEF Readable
<1> HIDE DEF q
<1>5. Readable(size, nmemb) \in Nat
  BY <1>3, <1>4, MinOfTwo
<1> QED
  BY <1>5

LEMMA FreadInv ==
  ASSUME FileInv, Intact, NEW size \in Nat \ {0}, NEW nmemb \in Nat, ss_fread(size, nmemb)
  PROVE  FileInv' /\ (p <= l => stray' = stray)
<1> DEFINE n == Readable(size, nmemb) * size
<1>1. n \in Nat
  BY ReadableIsNat
<1>2. /\ stray' = IF n > 0 /\ p + n > Len(buf) THEN stray \cup {"read"} ELSE stray
      /\ p' = (p + n) % WORD
      /\ UNCHANGED <<rec, buf, l, dirty, wrote>>
  BY Zenon DEF ss_fread
<1>3. p <= l => p + n <= l
  BY ReadableIsMost
<1> HIDE DEF n
<1>4. p' \in 0..(WORD - 1)
  BY <1>1, <1>2, FileFacts
<1>5. stray' \subseteq {"read", "write"} /\ Intact'
  BY <1>2, FileFacts DEF Intact
<1>6. FileInv'
  BY <1>2, <1>4, <1>5, MoveInv
<1>7. ASSUME p <= l PROVE stray' = stray
  <2>1. ~(p + n > Len(buf))
    BY <1>1, <1>3, <1>7, FileFacts, IntactFacts
  <2> QED
    BY <1>2, <2>1
<1> QED
  BY <1>6, <1>7

(* The line ss_fgets takes: it ends before _l.                             *)
LEMMA LineFacts ==
  ASSUME FileInv, p < l, NEW n \in Nat \ {0}
  PROVE  LET k == Max(LineLengths(n)) IN
         /\ k \in LineLengths(n) /\ \A j \in LineLengths(n) : j <= k
         /\ k \in Nat /\ p + k <= l
<1> DEFINE S == LineLengths(n)
<1>1. S \in SUBSET (0..(n - 1)) /\ 0 \in S
  BY FileFacts DEF LineLengths
<1>2. n - 1 \in Nat
  OBVIOUS
<1> HIDE DEF S
<1>3. Max(S) \in S /\ \A j \in S : j <= Max(S)
  BY <1>1, <1>2, MaxOfBounded, Zenon
<1> DEFINE k == Max(S)
<1> HIDE DEF k
<1>4. k \in S
  BY <1>3 DEF k
<1>5. k \in Nat /\ p + k <= l
  BY <1>4 DEF S, LineLengths
<1> QED
  BY <1>3, <1>5, Zenon DEF k, S

LEMMA FgetsInv ==
  ASSUME FileInv, Intact, NEW n \in Nat \ {0}, ss_fgets(n)
  PROVE  FileInv' /\ stray' = stray
<1>1. p < l /\ p' = p + Max(LineLengths(n)) /\ UNCHANGED <<rec, buf, l, dirty, wrote, stray>>
  BY DEF ss_fgets
<1> DEFINE k == Max(LineLengths(n))
<1>2. k \in Nat /\ p + k <= l
  BY <1>1, LineFacts
<1>3. p' = p + k
  BY <1>1
<1> HIDE DEF k
<1>4. p' \in 0..(WORD - 1)
  BY <1>2, <1>3, FileFacts
<1>5. stray' \subseteq {"read", "write"} /\ Intact'
  BY <1>1, FileFacts DEF Intact
<1> QED
  BY <1>1, <1>4, <1>5, MoveInv

(* Whatever the offset, the position stays a 16-bit number.                *)
LEMMA FseekInv ==
  ASSUME FileInv, Intact, NEW whence \in {"SEEK_SET", "SEEK_CUR", "SEEK_END"},
         NEW offset \in Int, ss_fseek(offset, whence)
  PROVE  FileInv' /\ stray' = stray
<1>1. p' = Sought(offset, whence) /\ UNCHANGED <<rec, buf, l, dirty, wrote, stray>>
  BY DEF ss_fseek
<1>2. p \in Nat /\ l \in Nat /\ l < WORD
  BY FileFacts
<1>3. offset % WORD \in 0..(WORD - 1) /\ (p + offset) % WORD \in 0..(WORD - 1)
      /\ (l - offset) % WORD \in 0..(WORD - 1) /\ (l - 1) % WORD \in 0..(WORD - 1)
  BY <1>2
<1>4. ClampedToLast((p + offset) % WORD) \in 0..(WORD - 1)
  BY <1>3, Zenon DEF ClampedToLast
<1>5. p' \in 0..(WORD - 1)
  BY <1>1, <1>3, <1>4 DEF Sought
<1>6. stray' \subseteq {"read", "write"} /\ Intact'
  BY <1>1, FileFacts DEF Intact
<1> QED
  BY <1>1, <1>5, <1>6, MoveInv

-----------------------------------------------------------------------------
(* Writes.                                                                 *)

(* A byte goes into the buffer, as it was or grown, or past it; from       *)
(* inside the file it never goes past.                                     *)
LEMMA FputcInv ==
  ASSUME FileInv, Intact, NEW c \in Bytes, ss_fputc(c)
  PROVE  FileInv' /\ (p <= l => stray' = stray)
<1> DEFINE size == IF p >= Len(buf) THEN Len(buf) + FPUTC_GROWTH ELSE Len(buf)
<1>1. /\ p \in Nat /\ l \in Nat /\ l < WORD /\ Len(buf) \in Nat /\ l <= Len(buf)
      /\ rec \in Seq(Bytes) /\ Len(rec) <= BUF_LIMIT
      /\ wrote \in [Places -> Bytes \cup {NULL}] /\ stray \subseteq {"read", "write"}
  BY FileFacts, IntactFacts
<1>2. size \in Nat /\ Len(buf) <= size /\ (p <= l => p < size)
  BY <1>1
<1>3. /\ size <= BUF_LIMIT /\ dirty' = TRUE /\ rec' = rec
      /\ p' = (p + 1) % WORD /\ l' = IF l >= p' THEN l ELSE p'
  BY DEF ss_fputc
<1>4. \E b \in Memory(0, size) :
        IF p < size
          THEN /\ buf' = Over(b, p, <<c>>)
               /\ wrote' = [wrote EXCEPT ![p + 1] = c]
               /\ UNCHANGED stray
          ELSE /\ buf' = b
               /\ stray' = stray \cup {"write"}
               /\ UNCHANGED wrote
  BY DEF ss_fputc
<1> HIDE DEF size
<1>5. PICK b \in Memory(0, size) :
        IF p < size
          THEN /\ buf' = Over(b, p, <<c>>)
               /\ wrote' = [wrote EXCEPT ![p + 1] = c]
               /\ UNCHANGED stray
          ELSE /\ buf' = b
               /\ stray' = stray \cup {"write"}
               /\ UNCHANGED wrote
  BY <1>4
<1>6. b \in Seq(Bytes) /\ Len(b) = size /\ l <= size /\ Holds(b, wrote)
  BY <1>2, GrownFacts
<1>7. p' \in 0..(WORD - 1) /\ l' \in 0..(WORD - 1)
  BY <1>1, <1>3
<1>8. CASE p < size
  <2>1. buf' = Over(b, p, <<c>>) /\ wrote' = [wrote EXCEPT ![p + 1] = c] /\ stray' = stray
    BY <1>5, <1>8
  <2> DEFINE d == <<c>>
  <2>2. d \in Seq(Bytes) /\ Len(d) = 1 /\ d[1] = c /\ buf' = Over(b, p, d)
    BY <2>1
  <2> HIDE DEF d
  <2>3. p + Len(d) <= Len(b)
    BY <1>1, <1>2, <1>6, <1>8, <2>2
  <2>4. buf' \in Seq(Bytes) /\ Len(buf') = size
    BY <1>1, <1>6, <2>2, <2>3, OverInside
  <2>5. wrote' \in [Places -> Bytes \cup {NULL}]
    BY <1>1, <2>1
  <2>6. Holds(buf', wrote')
    <3>1. \A i \in Places : i > p /\ i <= p + Len(d) => wrote'[i] = d[i - p]
      <4> SUFFICES ASSUME NEW i \in Places, i > p, i <= p + Len(d) PROVE wrote'[i] = d[i - p]
        OBVIOUS
      <4>1. i = p + 1 /\ i - p = 1
        BY <1>1, <2>2 DEF Places
      <4> QED
        BY <1>1, <2>1, <2>2, <4>1
    <3>2. \A i \in Places : i <= p \/ p + Len(d) < i => wrote'[i] = wrote[i]
      <4> SUFFICES ASSUME NEW i \in Places, i <= p \/ p + Len(d) < i PROVE wrote'[i] = wrote[i]
        OBVIOUS
      <4>1. i # p + 1
        BY <1>1, <2>2 DEF Places
      <4> QED
        BY <1>1, <2>1, <4>1
    <3>3. Written(wrote', wrote, p, d)
      BY <3>1, <3>2, Zenon DEF Written
    <3> QED
      <4>1. p \in Nat /\ b \in Seq(Bytes) /\ d \in Seq(Bytes) /\ Holds(b, wrote)
        BY <1>1, <1>6, <2>2
      <4>2. Holds(Over(b, p, d), wrote')
        BY <2>3, <3>3, <4>1, OverHolds, Zenon
      <4> QED
        BY <2>2, <4>2, Zenon
  <2>7. p' = p + 1 /\ l' <= Len(buf')
    <3>1. p + 1 \in Nat /\ p + 1 < WORD
      BY <1>1, <1>2, <1>3, <1>8
    <3>2. p' = p + 1
      <4>1. (p + 1) % WORD = p + 1
        BY <3>1, ModSmall
      <4> QED
        BY <1>3, <4>1, Zenon
    <3> QED
      BY <1>1, <1>2, <1>3, <1>6, <1>8, <2>4, <3>2
  <2>8. TypeOK'
    BY <1>1, <1>3, <1>7, <2>1, <2>4, <2>5 DEF TypeOK
  <2>9. BufferHoldsWrites' /\ CleanIsRecord'
    BY <1>3, <2>6, Zenon DEF BufferHoldsWrites, CleanIsRecord, Holds
  <2> QED
    BY <2>1, <2>7, <2>8, <2>9 DEF FileInv
<1>9. CASE ~(p < size)
  <2>1. buf' = b /\ wrote' = wrote /\ stray' = stray \cup {"write"}
    BY <1>5, <1>9
  <2>2. ~Intact'
    BY <2>1 DEF Intact
  <2>3. TypeOK'
    BY <1>1, <1>3, <1>6, <1>7, <2>1 DEF TypeOK
  <2>4. FileInv'
    BY <2>2, <2>3, Zenon DEF FileInv, BufferHoldsWrites, CleanIsRecord
  <2> QED
    BY <1>2, <1>9, <2>4
<1> QED
  BY <1>8, <1>9

(* The data is in the buffer afterwards, copied or found there; what is    *)
(* not marked dirty did not change below _l.                               *)
LEMMA FwriteInv ==
  ASSUME FileInv, Intact, NEW data \in Data, ss_fwrite(data)
  PROVE  FileInv' /\ stray' = stray
<1> DEFINE need == p + Len(data)
           size == IF need > Len(buf) THEN need ELSE Len(buf)
<1>1. /\ p \in Nat /\ l \in Nat /\ l < WORD /\ Len(buf) \in Nat /\ l <= Len(buf)
      /\ rec \in Seq(Bytes) /\ Len(rec) <= BUF_LIMIT
      /\ wrote \in [Places -> Bytes \cup {NULL}] /\ stray \subseteq {"read", "write"}
  BY FileFacts, IntactFacts
<1>2. data \in Seq(Bytes) /\ Len(data) \in Nat
  BY StringsAreSeqs, LenProperties DEF Data
<1>3. size \in Nat /\ Len(buf) <= size /\ need \in Nat /\ need <= size
  BY <1>1, <1>2
<1>4. /\ size <= BUF_LIMIT /\ p' = need % WORD /\ UNCHANGED <<rec, l, stray>>
      /\ wrote' = [i \in Places |-> IF i > p /\ i <= need THEN data[i - p] ELSE wrote[i]]
  BY DEF ss_fwrite
<1>5. PICK b \in Memory(0, size) : /\ buf' = IF Differs(b, data) THEN Over(b, p, data) ELSE b
                                   /\ dirty' = (dirty \/ Differs(b, data))
  BY DEF ss_fwrite, DirtyAfter
<1> HIDE DEF size
<1>6. /\ b \in Seq(Bytes) /\ Len(b) = size /\ l <= size /\ Holds(b, wrote)
      /\ SubSeq(b, 1, l) = SubSeq(buf, 1, l)
  BY <1>3, GrownFacts
<1>7. p + Len(data) <= Len(b)
  BY <1>3, <1>6
<1>8. \A i \in Places : /\ i > p /\ i <= p + Len(data) => wrote'[i] = data[i - p]
                        /\ i <= p \/ p + Len(data) < i => wrote'[i] = wrote[i]
  <2> SUFFICES ASSUME NEW i \in Places
               PROVE  /\ i > p /\ i <= p + Len(data) => wrote'[i] = data[i - p]
                      /\ i <= p \/ p + Len(data) < i => wrote'[i] = wrote[i]
    OBVIOUS
  <2>1. wrote'[i] = IF i > p /\ i <= need THEN data[i - p] ELSE wrote[i]
    BY <1>4, Zenon
  <2>2. i \in Nat
    BY DEF Places
  <2> QED
    BY <1>1, <1>2, <2>1, <2>2
<1>9. wrote' \in [Places -> Bytes \cup {NULL}]
  <2>1. ASSUME NEW i \in Places
        PROVE  (IF i > p /\ i <= need THEN data[i - p] ELSE wrote[i]) \in Bytes \cup {NULL}
    <3>1. CASE i > p /\ i <= need
      <4>1. i - p \in 1..Len(data)
        BY <1>1, <1>2, <3>1 DEF Places
      <4> QED
        BY <1>2, <3>1, <4>1, ElementOfSeq
    <3>2. CASE ~(i > p /\ i <= need)
      BY <1>1, <3>2
    <3> QED
      BY <3>1, <3>2
  <2> QED
    BY <1>4, <2>1, Zenon
<1> HIDE DEF need
<1>10. /\ buf' \in Seq(Bytes) /\ Len(buf') = size /\ Holds(buf', wrote')
       /\ dirty' \in BOOLEAN
       /\ ~dirty' => ~dirty /\ buf' = b
  <2>1. CASE Differs(b, data)
    <3>1. buf' = Over(b, p, data) /\ dirty' = TRUE
      BY <1>5, <2>1, Zenon
    <3>2. buf' \in Seq(Bytes) /\ Len(buf') = size
      BY <1>1, <1>2, <1>6, <1>7, <3>1, OverInside
    <3>3. Holds(buf', wrote')
      <4>1. p \in Nat /\ b \in Seq(Bytes) /\ data \in Seq(Bytes) /\ Holds(b, wrote)
        BY <1>1, <1>2, <1>6
      <4>2. Written(wrote', wrote, p, data)
        BY <1>8, Zenon DEF Written
      <4>3. Holds(Over(b, p, data), wrote')
        BY <1>7, <4>1, <4>2, OverHolds, Zenon
      <4> QED
        BY <3>1, <4>3, Zenon
    <3> QED
      BY <3>1, <3>2, <3>3
  <2>2. CASE ~Differs(b, data)
    <3>1. buf' = b /\ dirty' = dirty /\ dirty \in BOOLEAN
      <4>1. dirty \in BOOLEAN
        BY DEF FileInv, TypeOK
      <4> QED
        BY <1>5, <2>2, <4>1, Zenon
    <3>2. \A i \in 1..Len(data) : data[i] = b[p + i]
      <4>1. SubSeq(b, p + 1, p + Len(data)) = data
        BY <2>2 DEF Differs
      <4>2. \A i \in 1..Len(data) : SubSeq(b, p + 1, p + Len(data))[i] = b[p + i]
        BY <1>1, <1>2, <1>6, <1>7, PartFacts
      <4> QED
        BY <4>1, <4>2, Zenon
    <3>3. ASSUME NEW i \in Places, wrote'[i] # NULL
          PROVE  i <= Len(b) /\ b[i] = wrote'[i]
      <4>1. CASE i > p /\ i <= p + Len(data)
        <5>1. i - p \in 1..Len(data) /\ p + (i - p) = i
          BY <1>1, <1>2, <4>1 DEF Places
        <5>2. wrote'[i] = data[i - p]
          BY <1>8, <4>1, Zenon
        <5>3. i <= Len(b)
          BY <1>1, <1>2, <1>3, <1>6, <1>7, <4>1 DEF Places
        <5> QED
          BY <3>2, <5>1, <5>2, <5>3
      <4>2. CASE i <= p \/ p + Len(data) < i
        BY <1>6, <1>8, <3>3, <4>2, Zenon DEF Holds
      <4> QED
        BY <1>1, <1>2, <4>1, <4>2 DEF Places
    <3> QED
      BY <1>6, <3>1, <3>3, Zenon DEF Holds
  <2> QED
    BY <2>1, <2>2
<1>11. p' \in 0..(WORD - 1) /\ l' \in 0..(WORD - 1) /\ l' <= Len(buf')
  BY <1>1, <1>3, <1>4, <1>6, <1>10
<1>12. TypeOK'
  BY <1>1, <1>4, <1>9, <1>10, <1>11 DEF TypeOK
<1>13. BufferHoldsWrites'
  BY <1>10, Zenon DEF BufferHoldsWrites, Holds
<1>14. CleanIsRecord'
  <2>1. ~dirty' => rec' = SubSeq(buf', 1, l')
    BY <1>4, <1>6, <1>10, IntactFacts, Zenon
  <2> QED
    BY <2>1, Zenon DEF CleanIsRecord
<1> QED
  BY <1>4, <1>11, <1>12, <1>13, <1>14 DEF FileInv

(* The record is the first _l bytes of the buffer.                         *)
LEMMA CommitInv ==
  ASSUME FileInv, Intact, commit_and_reopen
  PROVE  FileInv' /\ stray' = stray
<1>1. /\ buf \in Seq(Bytes) /\ l \in Nat /\ l < WORD /\ l <= Len(buf) /\ Len(buf) \in Nat
      /\ Len(buf) <= BUF_LIMIT
  BY FileFacts, IntactFacts
<1>2. p' = 0 /\ UNCHANGED <<buf, l, wrote, stray>>
  BY DEF commit_and_reopen
<1>3. (rec' = rec /\ dirty' = dirty) \/ (rec' = SubSeq(buf, 1, l) /\ dirty' = FALSE)
  BY Zenon DEF commit_and_reopen, CommittedBytes
<1>4. SubSeq(buf, 1, l) \in Seq(Bytes) /\ Len(SubSeq(buf, 1, l)) = l
  <2>1. \A i \in 1..l : buf[i] \in Bytes
    BY <1>1, ElementOfSeq
  <2> QED
    BY <1>1, <2>1, SubSeqProperties
<1>5. l <= BUF_LIMIT /\ p' \in 0..(WORD - 1)
  BY <1>1, <1>2
<1>6. rec' \in Seq(Bytes) /\ Len(rec') <= BUF_LIMIT /\ dirty' \in BOOLEAN
  BY <1>3, <1>4, <1>5, Zenon DEF FileInv, TypeOK
<1>7. CleanIsRecord'
  <2>1. rec' = SubSeq(buf, 1, l) \/ dirty'
    <3>1. ~dirty => rec = SubSeq(buf, 1, l)
      BY IntactFacts
    <3>2. CASE rec' = rec /\ dirty' = dirty
      BY <3>1, <3>2
    <3> QED
      BY <1>3, <3>2
  <2>2. buf' = buf /\ l' = l
    BY <1>2
  <2> QED
    BY <2>1, <2>2, Zenon DEF CleanIsRecord
<1>8. TypeOK' /\ BufferHoldsWrites' /\ (Intact' => l' <= Len(buf'))
  BY <1>2, <1>5, <1>6, Zenon DEF FileInv, TypeOK, BufferHoldsWrites, Intact
<1> QED
  BY <1>2, <1>7, <1>8, Zenon DEF FileInv

-----------------------------------------------------------------------------
(* Loading.                                                                *)

LEMMA LoadedFacts ==
  ASSUME NEW r \in Seq(Bytes), NEW size \in Len(r)..BUF_LIMIT
  PROVE  /\ Loaded(r, size) \in Seq(Bytes) /\ Len(Loaded(r, size)) = size
         /\ Len(r) \in 0..(WORD - 1) /\ Len(r) <= size /\ size <= BUF_LIMIT
         /\ LoadedBytes(r) \in [Places -> Bytes \cup {NULL}]
         /\ Holds(Loaded(r, size), LoadedBytes(r))
         /\ r = SubSeq(Loaded(r, size), 1, Len(r))
<1>1. Len(r) \in Nat /\ size \in Nat /\ Len(r) <= size /\ size <= BUF_LIMIT
  BY LenProperties
<1>2. \A i \in 1..Len(r) : r[i] \in Bytes
  BY ElementOfSeq
<1> DEFINE b == Loaded(r, size)
<1>3. b = [i \in 1..size |-> IF i <= Len(r) THEN r[i] ELSE NUL]
  BY DEF Loaded
<1>4. b \in [1..size -> Bytes]
  BY <1>1, <1>2, <1>3
<1>5. b \in Seq(Bytes) /\ Len(b) = size /\ \A i \in 1..Len(r) : b[i] = r[i]
  BY <1>1, <1>3, <1>4
<1> HIDE DEF b
<1>6. LoadedBytes(r) \in [Places -> Bytes \cup {NULL}]
  BY <1>1, <1>2 DEF LoadedBytes, Places
<1>7. Holds(b, LoadedBytes(r))
  <2> SUFFICES ASSUME NEW i \in Places, LoadedBytes(r)[i] # NULL
               PROVE  i <= Len(b) /\ b[i] = LoadedBytes(r)[i]
    BY Zenon DEF Holds
  <2>1. LoadedBytes(r)[i] = IF i <= Len(r) THEN r[i] ELSE NULL
    BY DEF LoadedBytes
  <2>2. i \in 1..Len(r) /\ LoadedBytes(r)[i] = r[i]
    BY <1>1, <2>1 DEF Places
  <2> QED
    BY <1>1, <1>5, <2>2
<1>8. SubSeq(b, 1, Len(r)) = r
  BY <1>1, <1>5, PrefixIs
<1> QED
  BY <1>1, <1>5, <1>6, <1>7, <1>8 DEF b

LEMMA LoadInv ==
  ASSUME FileInv, load
  PROVE  FileInv' /\ stray' = {}
<1>1. rec \in Seq(Bytes) /\ rec' = rec /\ Len(rec) <= BUF_LIMIT
  BY FileFacts DEF load
<1>2. PICK size \in Len(rec)..BUF_LIMIT : buf' = Loaded(rec, size)
  BY DEF load
<1>3. p' = 0 /\ l' = Len(rec) /\ dirty' = FALSE /\ wrote' = LoadedBytes(rec) /\ stray' = {}
  BY DEF load
<1>4. /\ buf' \in Seq(Bytes) /\ Len(buf') = size /\ l' \in 0..(WORD - 1)
      /\ l' <= Len(buf') /\ Len(buf') <= BUF_LIMIT
      /\ wrote' \in [Places -> Bytes \cup {NULL}] /\ Holds(buf', wrote')
      /\ rec' = SubSeq(buf', 1, l')
  BY <1>1, <1>2, <1>3, LoadedFacts
<1>5. p' \in 0..(WORD - 1) /\ stray' \subseteq {"read", "write"} /\ dirty' \in BOOLEAN
  <2>1. 0 \in 0..(WORD - 1)
    OBVIOUS
  <2> QED
    BY <1>3, <2>1, Zenon
<1>6. TypeOK'
  BY <1>1, <1>4, <1>5, Zenon DEF TypeOK
<1> QED
  BY <1>3, <1>4, <1>6, Zenon DEF FileInv, BufferHoldsWrites, CleanIsRecord, Holds

LEMMA InitInv ==
  ASSUME Init
  PROVE  FileInv
<1>1. PICK n \in 1..MAX_REC : rec \in Strings(n)
  BY DEF Init
<1>2. rec \in Seq(Bytes) /\ Len(rec) = n /\ n <= BUF_LIMIT
  BY <1>1, StringsAreSeqs
<1>3. PICK size \in Len(rec)..BUF_LIMIT : buf = Loaded(rec, size)
  BY DEF Init
<1>4. p = 0 /\ l = Len(rec) /\ dirty = FALSE /\ wrote = LoadedBytes(rec) /\ stray = {}
  BY DEF Init
<1>5. /\ buf \in Seq(Bytes) /\ Len(buf) = size /\ l \in 0..(WORD - 1)
      /\ l <= Len(buf) /\ Len(buf) <= BUF_LIMIT
      /\ wrote \in [Places -> Bytes \cup {NULL}] /\ Holds(buf, wrote)
      /\ rec = SubSeq(buf, 1, l)
  BY <1>2, <1>3, <1>4, LoadedFacts
<1>6. p \in 0..(WORD - 1) /\ stray \subseteq {"read", "write"} /\ dirty \in BOOLEAN
  <2>1. 0 \in 0..(WORD - 1)
    OBVIOUS
  <2> QED
    BY <1>4, <2>1, Zenon
<1>7. TypeOK
  BY <1>2, <1>5, <1>6, Zenon DEF TypeOK
<1> QED
  BY <1>4, <1>5, <1>7, Zenon DEF FileInv, BufferHoldsWrites, CleanIsRecord, Holds

-----------------------------------------------------------------------------
(* What a reader gets.                                                     *)

LEMMA HeldByte ==
  ASSUME FileInv, Intact, NEW i \in Nat \ {0}, i <= l
  PROVE  wrote[i] \in {buf[i], NULL}
<1>1. i \in Places
  BY FileFacts, IntactFacts DEF Places
<1>2. Holds(buf, wrote)
  BY IntactFacts
<1> QED
  BY <1>1, <1>2, Zenon DEF Holds

LEMMA FreadReturns ==
  ASSUME FileInv, Intact, p <= l, NEW size \in Nat \ {0}, NEW nmemb \in Nat,
         NEW r \in Returned(size, nmemb)
  PROVE  /\ Len(r) = size * Max({k \in 0..nmemb : p + k * size <= l})
         /\ \A i \in 1..Len(r) : wrote[p + i] \in {r[i], NULL}
<1> DEFINE m == Readable(size, nmemb)
           n == m * size
           S == {k \in 0..nmemb : p + k * size <= l}
<1>1. /\ m \in 0..nmemb /\ n \in Nat /\ p + n <= l
      /\ \A i \in 0..nmemb : p + i * size <= l => i <= m
  BY ReadableIsMost
<1>2. p \in Nat /\ l \in Nat /\ Len(buf) \in Nat /\ l <= Len(buf)
  BY FileFacts, IntactFacts
<1>3. r \in Strings(n) /\ \A i \in 1..n : p + i <= Len(buf) => r[i] = buf[p + i]
  BY DEF Returned, Memory
<1>4. Max(S) = m
  <2> HIDE DEF m
  <2>1. S \in SUBSET Nat /\ m \in S /\ \A j \in S : j <= m
    BY <1>1, <1>2, SMTT(30) DEF n
  <2> HIDE DEF S
  <2> QED
    BY <2>1, MaxUnique
<1>5. n = size * m
  <2>1. m \in Nat
    BY <1>1
  <2> HIDE DEF m
  <2> QED
    BY <2>1
<1> HIDE DEF n, m, S
<1>6. Len(r) = n
  BY <1>1, <1>3, StringsAreSeqs
<1>7. ASSUME NEW i \in 1..n PROVE wrote[p + i] \in {r[i], NULL}
  <2>1. p + i \in Nat \ {0} /\ p + i <= l /\ p + i <= Len(buf)
    BY <1>1, <1>2
  <2>2. r[i] = buf[p + i]
    BY <1>3, <2>1
  <2> QED
    BY <2>1, <2>2, HeldByte
<1> QED
  BY <1>4, <1>5, <1>6, <1>7, Zenon DEF S

LEMMA FgetsReturns ==
  ASSUME FileInv, Intact, p < l, NEW n \in Nat \ {0}
  PROVE  LET k == Max(LineLengths(n)) IN
         /\ \A i \in 1..k : wrote[p + i] \notin {NUL, NEWLINE}
         /\ k = n - 1 \/ p + k = l \/ wrote[p + k + 1] \in {NUL, NEWLINE, NULL}
<1> DEFINE k == Max(LineLengths(n))
<1>1. k \in LineLengths(n) /\ (\A j \in LineLengths(n) : j <= k) /\ k \in Nat /\ p + k <= l
  BY LineFacts
<1>2. p \in Nat /\ l \in Nat
  BY FileFacts
<1> HIDE DEF k
<1>3. \A i \in 1..k : buf[p + i] \notin {NUL, NEWLINE}
  BY <1>1 DEF LineLengths
<1>4. ASSUME NEW i \in 1..k PROVE wrote[p + i] \notin {NUL, NEWLINE}
  <2>1. p + i \in Nat \ {0} /\ p + i <= l
    BY <1>1, <1>2
  <2>2. wrote[p + i] \in {buf[p + i], NULL}
    BY <2>1, HeldByte
  <2>3. NULL \notin {NUL, NEWLINE}
    OBVIOUS
  <2> QED
    BY <1>3, <2>2, <2>3, Zenon
<1>5. ASSUME k # n - 1, p + k # l PROVE wrote[p + k + 1] \in {NUL, NEWLINE, NULL}
  <2>1. k \in 0..(n - 1)
    BY <1>1 DEF LineLengths
  <2>2. k + 1 \in 0..(n - 1) /\ p + (k + 1) <= l /\ ~(k + 1 <= k)
    BY <1>1, <1>2, <1>5, <2>1
  <2>3. k + 1 \notin LineLengths(n)
    BY <1>1, <2>2
  <2>4. PICK i \in 1..(k + 1) : buf[p + i] \in {NUL, NEWLINE}
    BY <2>2, <2>3 DEF LineLengths
  <2>5. i = k + 1
    BY <1>1, <1>3, <2>4
  <2>6. p + k + 1 \in Nat \ {0} /\ p + k + 1 <= l /\ p + i = p + k + 1
    BY <1>1, <1>2, <2>2, <2>5
  <2>7. wrote[p + k + 1] \in {buf[p + k + 1], NULL}
    BY <2>6, HeldByte
  <2> QED
    BY <2>4, <2>6, <2>7, Zenon
<1> QED
  BY <1>4, <1>5, Zenon DEF k

-----------------------------------------------------------------------------
(* Theorems.                                                               *)

LEMMA StepInv ==
  ASSUME FileInv, [Next]_vars
  PROVE  FileInv' /\ (p <= l => stray' \subseteq stray)
<1>1. CASE Intact /\ \E size \in 1..MAX_IO, nmemb \in 1..MAX_IO : ss_fread(size, nmemb)
  BY <1>1, FreadInv
<1>2. CASE Intact /\ \E n \in 1..(MAX_IO + 1) : ss_fgets(n)
  BY <1>2, FgetsInv
<1>3. CASE Intact /\ \E whence \in {"SEEK_SET", "SEEK_CUR", "SEEK_END"}, offset \in -MAX_SEEK..MAX_SEEK :
                       ss_fseek(offset, whence)
  BY <1>3, FseekInv
<1>4. CASE Intact /\ \E c \in Bytes : ss_fputc(c)
  BY <1>4, FputcInv
<1>5. CASE Intact /\ \E data \in Data : ss_fwrite(data)
  BY <1>5, FwriteInv
<1>6. CASE Intact /\ commit_and_reopen
  BY <1>6, CommitInv
<1>7. CASE load
  BY <1>7, LoadInv
<1>8. CASE UNCHANGED vars
  BY <1>8, Zenon DEF vars, FileInv, TypeOK, Intact, BufferHoldsWrites, CleanIsRecord
<1> QED
  BY <1>1, <1>2, <1>3, <1>4, <1>5, <1>6, <1>7, <1>8 DEF Next, calls

(* The inductive invariant of an open file, for a buffer, a record and a   *)
(* transfer of any size and seeks to anywhere: as long as no ss_fputc far  *)
(* past the end wrote outside the buffer, the length stays in the buffer,  *)
(* and the buffer and the record stay in step with what was written.       *)
THEOREM FileInvariance == Spec => []FileInv
<1>1. Init => FileInv
  BY InitInv
<1>2. FileInv /\ [Next]_vars => FileInv'
  BY StepInv
<1> QED
  BY <1>1, <1>2, PTL DEF Spec

(* Every byte that was loaded or written is in the buffer at its place,    *)
(* whatever ss_fputc and ss_fwrite grew, ss_fwrite skipped or a commit     *)
(* left, and wherever the caller had sought.                               *)
THEOREM BytesKept == Spec => []BufferHoldsWrites
<1>1. FileInv => BufferHoldsWrites
  BY DEF FileInv
<1> QED
  BY <1>1, FileInvariance, PTL

(* No call made from a position at or before _l accesses memory outside    *)
(* the buffer, the conversion of _l - _p to size_t and the fixed growth of *)
(* ss_fputc included: only a seek past the end, which ss_fseek does not    *)
(* refuse, takes an access out of the buffer.                              *)
THEOREM AccessesInBuffer == Spec => InsideStaysInside
<1>1. FileInv /\ [Next]_vars => [p <= l => stray' \subseteq stray]_vars
  BY StepInv
<1> QED
  BY <1>1, FileInvariance, PTL DEF Spec, InsideStaysInside

(* From a position at or before _l, ss_fread and ss_fgets return the bytes *)
(* last written from there on, as many as were asked for or are left.      *)
THEOREM ReadsAreExact == Spec => []ReadsTheFile
<1>1. FileInv => ReadsTheFile
  <2> SUFFICES ASSUME FileInv, Intact, p <= l
               PROVE  /\ \A size \in 1..MAX_IO, nmemb \in 1..MAX_IO : \A r \in Returned(size, nmemb) :
                           /\ Len(r) = size * Max({k \in 0..nmemb : p + k * size <= l})
                           /\ \A i \in 1..Len(r) : wrote[p + i] \in {r[i], NULL}
                      /\ p < l => \A n \in 1..(MAX_IO + 1) :
                           LET k == Max(LineLengths(n)) IN
                           /\ \A i \in 1..k : wrote[p + i] \notin {NUL, NEWLINE}
                           /\ k = n - 1 \/ p + k = l \/ wrote[p + k + 1] \in {NUL, NEWLINE, NULL}
    BY Zenon DEF ReadsTheFile
  <2>1. \A i \in 1..MAX_IO : i \in Nat \ {0} /\ i \in Nat
    OBVIOUS
  <2>2. \A i \in 1..(MAX_IO + 1) : i \in Nat \ {0}
    OBVIOUS
  <2>3. \A size \in 1..MAX_IO, nmemb \in 1..MAX_IO : \A r \in Returned(size, nmemb) :
          /\ Len(r) = size * Max({k \in 0..nmemb : p + k * size <= l})
          /\ \A i \in 1..Len(r) : wrote[p + i] \in {r[i], NULL}
    BY <2>1, FreadReturns, Zenon
  <2>4. p < l => \A n \in 1..(MAX_IO + 1) :
          LET k == Max(LineLengths(n)) IN
          /\ \A i \in 1..k : wrote[p + i] \notin {NUL, NEWLINE}
          /\ k = n - 1 \/ p + k = l \/ wrote[p + k + 1] \in {NUL, NEWLINE, NULL}
    BY <2>2, FgetsReturns, Zenon
  <2> QED
    BY <2>3, <2>4, Zenon
<1> QED
  BY <1>1, FileInvariance, PTL

(* A file whose _b_dirty is clear is in NVS to the byte, up to its length  *)
(* _l: the comparison with which ss_fwrite decides about dirty misses no   *)
(* change there.                                                           *)
THEOREM CleanIsStored == Spec => []CleanIsRecord
<1>1. FileInv => CleanIsRecord
  BY DEF FileInv
<1> QED
  BY <1>1, FileInvariance, PTL
=============================================================================
