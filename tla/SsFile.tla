------------------------------- MODULE SsFile -------------------------------
(***************************************************************************)
(* One open file of lib/ss_fs.c byte by byte: the buffer of its slot, the  *)
(* 16-bit position _p and length _l, and the stdio-like calls that move    *)
(* them.  SoftSimFs treats the content as one value; this module is about  *)
(* what the calls do to it, next to what the caller wrote at each place.   *)
(*                                                                         *)
(* The caller makes any calls: it seeks anywhere, also past the end, and   *)
(* writes there.  C's integer conversions are kept.  Fresh memory, and     *)
(* memory outside the buffer, hold any bytes.                              *)
(***************************************************************************)
EXTENDS Integers, Sequences, FiniteSetsExt

CONSTANTS
  Bytes,         \* the values of a byte
  NUL, NEWLINE,  \* two of them: zero, and the end of a line
  NULL,          \* no byte
  WORD,          \* 2^16, the range of _p, _l and _b_size
  FPUTC_GROWTH,  \* what ss_fputc adds to a full buffer (20)
  BUF_LIMIT,     \* the largest buffer the heap can hold
  MAX_REC,       \* bound of the model: length of the record at first
  MAX_SEEK,      \* bound of the model: the offset of a seek
  MAX_IO         \* bound of the model: bytes and elements of a read or write

ASSUME FileAssumption ==
  /\ NUL \in Bytes /\ NEWLINE \in Bytes
  /\ NULL \notin Bytes
  /\ WORD \in Nat \ {0}
  /\ FPUTC_GROWTH \in Nat \ {0}
  /\ BUF_LIMIT \in Nat /\ BUF_LIMIT < WORD
  /\ MAX_REC \in 1..BUF_LIMIT
  /\ MAX_SEEK \in Nat
  /\ MAX_IO \in Nat

VARIABLES
  rec,      \* the record in NVS
  buf,      \* the buffer; its length is _b_size
  p, l,     \* _p and _l
  dirty,    \* _b_dirty
  wrote,    \* ghost: the byte last loaded or written at each place, or NULL
  stray     \* history: accesses outside the buffer, of {"read", "write"}

vars == <<rec, buf, p, l, dirty, wrote, stray>>

Places == 1..BUF_LIMIT

Strings(n) == [1..n -> Bytes]

Data == UNION {Strings(n) : n \in 0..MAX_IO}

SIZE == WORD * WORD    \* 2^32, the range of size_t

(* b written over s from offset n on; it fits                              *)
Over(s, n, b) ==
  [i \in 1..Len(s) |-> IF i > n /\ i <= n + Len(b) THEN b[i - n] ELSE s[i]]

(* n bytes of memory from an offset of the buffer on                       *)
Memory(from, n) ==
  {b \in Strings(n) : \A i \in 1..n : from + i <= Len(buf) => b[i] = buf[from + i]}

TypeOK ==
  /\ rec \in Seq(Bytes) /\ buf \in Seq(Bytes)
  /\ Len(rec) <= BUF_LIMIT /\ Len(buf) <= BUF_LIMIT
  /\ p \in 0..(WORD - 1) /\ l \in 0..(WORD - 1)
  /\ dirty \in BOOLEAN
  /\ wrote \in [Places -> Bytes \cup {NULL}]
  /\ stray \subseteq {"read", "write"}

(* ss_load_to_slot: the record r is in a buffer of its size, or in a       *)
(* larger one that was zeroed.                                             *)
Loaded(r, size) == [i \in 1..size |-> IF i <= Len(r) THEN r[i] ELSE NUL]

(* the ghost of a file that was just loaded                                *)
LoadedBytes(r) == [i \in Places |-> IF i <= Len(r) THEN r[i] ELSE NULL]

(* NVS has no empty records.                                               *)
Init ==
  /\ \E n \in 1..MAX_REC : rec \in Strings(n)
  /\ \E size \in Len(rec)..BUF_LIMIT : buf = Loaded(rec, size)
  /\ p = 0 /\ l = Len(rec) /\ dirty = FALSE
  /\ wrote = LoadedBytes(rec)
  /\ stray = {}

-----------------------------------------------------------------------------
(* Fault: a last partial element is counted.                               *)
ReadableUp(size, nmemb) == Min({nmemb, (((l - p) % SIZE) + size - 1) \div size})

(* ss_fread: whole elements, at most those that are left.  The difference  *)
(* _l - _p is converted to size_t.                                         *)
Readable(size, nmemb) == Min({nmemb, ((l - p) % SIZE) \div size})

(* What the caller of ss_fread may be given.                               *)
Returned(size, nmemb) == Memory(p, Readable(size, nmemb) * size)

ss_fread(size, nmemb) ==
  LET n == Readable(size, nmemb) * size IN
  /\ stray' = IF n > 0 /\ p + n > Len(buf) THEN stray \cup {"read"} ELSE stray
  /\ p' = (p + n) % WORD
  /\ UNCHANGED <<rec, buf, l, dirty, wrote>>

(* ss_fgets: the bytes, below n, up to the end of the file or of the line, *)
(* which is not consumed.                                                  *)
LineLengths(n) ==
  {k \in 0..(n - 1) : p + k <= l /\ \A i \in 1..k : buf[p + i] \notin {NUL, NEWLINE}}

ss_fgets(n) ==
  /\ p < l
  /\ p' = p + Max(LineLengths(n))
  /\ UNCHANGED <<rec, buf, l, dirty, wrote, stray>>

(* SEEK_CUR does not move past the last byte.                              *)
ClampedToLast(q) == IF q >= l THEN (l - 1) % WORD ELSE q

(* Fault: SEEK_END takes the length off the offset, and keeps the sign.    *)
SoughtSigned(offset, whence) ==
  CASE whence = "SEEK_SET" -> offset % WORD
    [] whence = "SEEK_CUR" -> ClampedToLast((p + offset) % WORD)
    [] whence = "SEEK_END" -> offset - l

(* The position is 16 bits wide; only SEEK_CUR looks at the length.        *)
Sought(offset, whence) ==
  CASE whence = "SEEK_SET" -> offset % WORD
    [] whence = "SEEK_CUR" -> ClampedToLast((p + offset) % WORD)
    [] whence = "SEEK_END" -> (l - offset) % WORD

ss_fseek(offset, whence) ==
  /\ p' = Sought(offset, whence)
  /\ UNCHANGED <<rec, buf, l, dirty, wrote, stray>>

(* ss_fputc: a full buffer grows by a fixed step, which may not reach the  *)
(* position; the length follows a byte put at or past the end.  When the   *)
(* heap is exhausted the call fails and changes nothing.                   *)
ss_fputc(c) ==
  LET size == IF p >= Len(buf) THEN Len(buf) + FPUTC_GROWTH ELSE Len(buf) IN
  /\ size <= BUF_LIMIT
  /\ \E b \in Memory(0, size) :
       IF p < size
         THEN /\ buf' = Over(b, p, <<c>>)
              /\ wrote' = [wrote EXCEPT ![p + 1] = c]
              /\ UNCHANGED stray
         ELSE /\ buf' = b
              /\ stray' = stray \cup {"write"}
              /\ UNCHANGED wrote
  /\ dirty' = TRUE
  /\ p' = (p + 1) % WORD
  /\ l' = IF l >= p' THEN l ELSE p'
  /\ UNCHANGED rec

(* Fault: only the first byte is compared.                                 *)
DiffersAtStart(b, data) == Len(data) > 0 /\ b[p + 1] # data[1]

(* memcmp of the buffer and the data                                       *)
Differs(b, data) == SubSeq(b, p + 1, p + Len(data)) # data

(* Fault: an equal write makes the file clean.                             *)
DirtyIfDiffers(b, data) == Differs(b, data)

(* Equal bytes do not make the file dirty.                                 *)
DirtyAfter(b, data) == dirty \/ Differs(b, data)

(* ss_fwrite: the buffer grows to what is needed; the length stays, also   *)
(* when the bytes go past it.  When the heap is exhausted the call fails   *)
(* and changes nothing.                                                    *)
ss_fwrite(data) ==
  LET need == p + Len(data)
      size == IF need > Len(buf) THEN need ELSE Len(buf)
  IN
  /\ size <= BUF_LIMIT
  /\ \E b \in Memory(0, size) :
       /\ buf' = IF Differs(b, data) THEN Over(b, p, data) ELSE b
       /\ dirty' = DirtyAfter(b, data)
  /\ wrote' = [i \in Places |-> IF i > p /\ i <= need THEN data[i - p] ELSE wrote[i]]
  /\ p' = need % WORD
  /\ UNCHANGED <<rec, l, stray>>

(* commit_slot writes the first _l bytes.                                  *)
CommittedBytes == SubSeq(buf, 1, l)

(* ss_fclose of a commit-on-close file, or the next commit, and the next   *)
(* ss_fopen: the record is written, unless NVS refuses it.                 *)
commit_and_reopen ==
  /\ p' = 0
  /\ \/ dirty /\ rec' = CommittedBytes /\ dirty' = FALSE
     \/ UNCHANGED <<rec, dirty>>
  /\ UNCHANGED <<buf, l, wrote, stray>>

(* The buffer is gone, after a power loss or an eviction, and the file is  *)
(* opened again.                                                           *)
load ==
  /\ \E size \in Len(rec)..BUF_LIMIT : buf' = Loaded(rec, size)
  /\ p' = 0 /\ l' = Len(rec) /\ dirty' = FALSE
  /\ wrote' = LoadedBytes(rec)
  /\ stray' = {}
  /\ UNCHANGED rec

(* A write outside the buffer corrupts the heap.  What the program does    *)
(* then is undefined, and not modelled before the next start.              *)
Intact == "write" \notin stray

calls ==
  \/ \E size \in 1..MAX_IO, nmemb \in 1..MAX_IO : ss_fread(size, nmemb)
  \/ \E n \in 1..(MAX_IO + 1) : ss_fgets(n)
  \/ \E whence \in {"SEEK_SET", "SEEK_CUR", "SEEK_END"}, offset \in -MAX_SEEK..MAX_SEEK :
       ss_fseek(offset, whence)
  \/ \E c \in Bytes : ss_fputc(c)
  \/ \E data \in Data : ss_fwrite(data)
  \/ commit_and_reopen

Next ==
  \/ Intact /\ calls
  \/ load

Spec == Init /\ [][Next]_vars

-----------------------------------------------------------------------------
(* Properties.                                                             *)

(* The buffer holds every byte that was loaded or written, at its place:   *)
(* neither growth, of either call, nor a skipped equal write, nor a write  *)
(* past the end loses one.                                                 *)
BufferHoldsWrites ==
  Intact => \A i \in Places : wrote[i] # NULL => i <= Len(buf) /\ buf[i] = wrote[i]

(* A call made from a position inside the file or at its end accesses only *)
(* the buffer, wherever earlier calls had been.                            *)
InsideStaysInside == [][p <= l => stray' \subseteq stray]_vars

(* From a position inside the file or at its end ss_fread returns whole    *)
(* elements, as many as are left, and every byte as it was last written;   *)
(* ss_fgets stops at the first end of a line that was written.             *)
ReadsTheFile ==
  Intact /\ p <= l =>
    /\ \A size \in 1..MAX_IO, nmemb \in 1..MAX_IO : \A r \in Returned(size, nmemb) :
         /\ Len(r) = size * Max({k \in 0..nmemb : p + k * size <= l})
         /\ \A i \in 1..Len(r) : wrote[p + i] \in {r[i], NULL}
    /\ p < l => \A n \in 1..(MAX_IO + 1) :
         LET k == Max(LineLengths(n)) IN
         /\ \A i \in 1..k : wrote[p + i] \notin {NUL, NEWLINE}
         /\ k = n - 1 \/ p + k = l \/ wrote[p + k + 1] \in {NUL, NEWLINE, NULL}

(* A file that is not dirty can be dropped: the record is the file up to   *)
(* its length _l, to the byte.                                             *)
CleanIsRecord == Intact /\ ~dirty => rec = SubSeq(buf, 1, l)

(* A commit of a dirty file stores every byte the caller wrote.            *)
CommitStoresWrites ==
  Intact /\ dirty => \A i \in Places :
    wrote[i] # NULL => i <= Len(CommittedBytes) /\ CommittedBytes[i] = wrote[i]

(* The inductive invariant, for the proofs: the length never leaves the    *)
(* buffer, unless a write did.                                             *)
FileInv ==
  /\ TypeOK
  /\ Intact => l <= Len(buf)
  /\ BufferHoldsWrites /\ CleanIsRecord
=============================================================================
