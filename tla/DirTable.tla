------------------------------ MODULE DirTable ------------------------------
(***************************************************************************)
(* The directory table, lib/ss_cache.c: ss_dir_table_from_blob builds it   *)
(* from the DIR record of NVS in two passes over the record, one to count  *)
(* and one to fill, and refuses a table in which two paths share a hash;   *)
(* lookups compare hashes only.  One step per iteration of a loop.         *)
(*                                                                         *)
(* A record of the blob is <name_len, id_hi, id_lo, name...>.  Offsets     *)
(* count from 0, as in the code.  The hash is a parameter: what is said    *)
(* here holds of any; Fnv has the code's.  The blob is flash content and   *)
(* can be anything.                                                        *)
(***************************************************************************)
EXTENDS Integers, Sequences

CONSTANTS
  Blobs,      \* the contents of the DIR record
  fnv1a(_)    \* the hash of a name

Byte == 0..255

DIR_RECORD_HEADER_LEN == 3

ASSUME DirAssumption == \A b \in Blobs : b \in Seq(Byte)

VARIABLES
  blob,      \* the argument
  parse_pc,  \* "count", "alloc", "fill" or "done"
  cursor,
  count,     \* records counted by the first pass
  dir,       \* the table: what the second pass has filled
  filled,    \* i, the loop variable of the second pass
  ret,       \* the return value; 0 until there is one
  read,      \* history: the offsets of the blob that were read
  starts     \* history: where the records that were counted start

parse_vars == <<blob, parse_pc, cursor, count, dir, filled, ret, read, starts>>

ParseInit ==
  /\ blob \in Blobs
  /\ parse_pc = "count"
  /\ cursor = 0 /\ count = 0
  /\ dir = <<>> /\ filled = 0
  /\ ret = 0
  /\ read = {} /\ starts = <<>>

-----------------------------------------------------------------------------
(* A byte of the blob.  What lies behind its end is taken as zero; that it *)
(* is never read is a property.                                            *)
At(c) == IF c < Len(blob) THEN blob[c + 1] ELSE 0

(* The space the record at offset c takes up.                              *)
RecordLen(c) == DIR_RECORD_HEADER_LEN + At(c)

(* Fault: the header of the record is not reckoned with.                   *)
TruncatedName(c) == c + At(c) > Len(blob)

(* Fault: a record that ends with the blob does not fit.                   *)
TruncatedLast(c) == c + RecordLen(c) >= Len(blob)

(* The record at offset c runs past the end of the blob.                   *)
Truncated(c) == c + RecordLen(c) > Len(blob)

(* Fault: a truncated record is skipped without moving on.                 *)
count_record_stuck ==
  /\ parse_pc = "count" /\ cursor < Len(blob)
  /\ read' = read \cup {cursor}
  /\ IF Truncated(cursor)
       THEN UNCHANGED <<cursor, count, starts>>
       ELSE /\ cursor' = cursor + RecordLen(cursor)
            /\ count' = count + 1
            /\ starts' = Append(starts, cursor)
  /\ UNCHANGED <<blob, parse_pc, dir, filled, ret>>

(* One iteration of the counting pass, which peeks at the name length and  *)
(* stops at a truncated record.                                            *)
count_record ==
  /\ parse_pc = "count" /\ cursor < Len(blob)
  /\ read' = read \cup {cursor}
  /\ IF Truncated(cursor)
       THEN parse_pc' = "alloc" /\ UNCHANGED <<cursor, count, starts>>
       ELSE /\ cursor' = cursor + RecordLen(cursor)
            /\ count' = count + 1
            /\ starts' = Append(starts, cursor)
            /\ UNCHANGED parse_pc
  /\ UNCHANGED <<blob, dir, filled, ret>>

count_end ==
  /\ parse_pc = "count" /\ cursor >= Len(blob)
  /\ parse_pc' = "alloc"
  /\ UNCHANGED <<blob, cursor, count, dir, filled, ret, read, starts>>

(* Fault: the second pass goes on from where the first has ended.          *)
allocate_no_rewind ==
  /\ parse_pc = "alloc"
  /\ \/ /\ count > 0
        /\ parse_pc' = "fill"
        /\ UNCHANGED <<cursor, ret>>
     \/ /\ ret' = IF count = 0 THEN 0 ELSE -1
        /\ parse_pc' = "done"
        /\ UNCHANGED cursor
  /\ UNCHANGED <<blob, count, dir, filled, read, starts>>

(* An empty table is none; the allocation may fail.                        *)
allocate ==
  /\ parse_pc = "alloc"
  /\ \/ /\ count > 0
        /\ cursor' = 0
        /\ parse_pc' = "fill"
        /\ UNCHANGED ret
     \/ /\ ret' = IF count = 0 THEN 0 ELSE -1
        /\ parse_pc' = "done"
        /\ UNCHANGED cursor
  /\ UNCHANGED <<blob, count, dir, filled, read, starts>>

(* The entry of a record: its flags are the high byte of the key.          *)
Entry(id, name) == [hash |-> fnv1a(name), key |-> id, flags |-> id \div 256, hits |-> 0]

(* The name and the key of the record at offset c; the key is big-endian.  *)
NameAt(c) == [k \in 1..At(c) |-> At(c + DIR_RECORD_HEADER_LEN + k - 1)]

KeyAt(c) == 256 * At(c + 1) + At(c + 2)

(* One iteration of the filling pass, as often as records were counted.    *)
fill_record ==
  /\ parse_pc = "fill" /\ filled < count
  /\ filled' = filled + 1
  /\ dir' = Append(dir, Entry(KeyAt(cursor), NameAt(cursor)))
  /\ read' = read \cup cursor..(cursor + RecordLen(cursor) - 1)
  /\ cursor' = cursor + RecordLen(cursor)
  /\ UNCHANGED <<blob, parse_pc, count, ret, starts>>

(* Fault: only neighbours are compared.                                    *)
CollidesNext == \E i \in 2..Len(dir) : dir[i].hash = dir[i - 1].hash

(* Two entries share a hash.                                               *)
Collides == \E i \in 2..Len(dir) : \E j \in 1..(i - 1) : dir[i].hash = dir[j].hash

(* A table with a collision is freed and refused.                          *)
check_hashes ==
  /\ parse_pc = "fill" /\ filled = count
  /\ parse_pc' = "done"
  /\ IF Collides THEN ret' = -1 /\ dir' = <<>>
                 ELSE ret' = count /\ UNCHANGED dir
  /\ UNCHANGED <<blob, cursor, count, filled, read, starts>>

ParseNext == count_record \/ count_end \/ allocate \/ fill_record \/ check_hashes

ParseSpec == ParseInit /\ [][ParseNext]_parse_vars /\ WF_parse_vars(ParseNext)

(* A C string: strlen ends a name at its first NUL.                        *)
IsString(name) == \A k \in DOMAIN name : name[k] # 0

(* ss_dir_find on a finished table: the index of the first entry with the  *)
(* hash of the name, or -1.                                                *)
dir_find(name) ==
  LET found == {i \in DOMAIN dir : dir[i].hash = fnv1a(name)}
  IN  IF found = {} THEN -1 ELSE (CHOOSE i \in found : \A j \in found : i <= j) - 1

-----------------------------------------------------------------------------
(* Properties.                                                             *)

(* The reference: the complete records of the blob from offset c on, each  *)
(* with its key and name, up to the first that does not fit.               *)
RecordAt(c) == [key  |-> 256 * blob[c + 2] + blob[c + 3],
                name |-> SubSeq(blob, c + 4, c + 3 + blob[c + 1])]

Fits(c) == c < Len(blob) /\ c + 3 + blob[c + 1] <= Len(blob)

Records[c \in 0..Len(blob)] ==
  IF Fits(c) THEN <<RecordAt(c)>> \o Records[c + 3 + blob[c + 1]] ELSE <<>>

(* Neither pass reads past the end of the blob (ss_cache.h: "truncated     *)
(* flash content must not be read past").                                  *)
ReadInBlob == read \subseteq 0..(Len(blob) - 1)

(* The invariant of the two loops ReadInBlob rests on: the records that    *)
(* were counted follow each other from the start of the blob and each lies *)
(* inside it, and the second pass stops at the same places as the first.   *)
ParseInv ==
  /\ blob \in Seq(Byte) /\ cursor \in Nat /\ count \in Nat /\ filled \in 0..count
  /\ starts \in Seq(Nat) /\ Len(starts) = count
  /\ \A k \in 1..count :
       /\ ~Truncated(starts[k])
       /\ starts[k] = IF k = 1 THEN 0 ELSE starts[k - 1] + RecordLen(starts[k - 1])
  /\ parse_pc \in {"count", "alloc"} => filled = 0
  /\ parse_pc = "count" =>
       cursor = IF count = 0 THEN 0 ELSE starts[count] + RecordLen(starts[count])
  /\ parse_pc = "fill" /\ filled < count => cursor = starts[filled + 1]

(* The table is the blob's complete records, no more and no fewer, in      *)
(* their order and under their own keys; a table is refused only when two  *)
(* names share a hash or there is no memory.                               *)
TableIsBlob ==
  parse_pc = "done" =>
    /\ ret > 0 => /\ Len(dir) = Len(Records[0])
                  /\ \A i \in DOMAIN dir : dir[i].key = Records[0][i].key
    /\ ret = 0 => Records[0] = <<>>
    /\ ret <= 0 => dir = <<>>
    /\ ret \in {-1, 0, Len(Records[0])}

(* In an accepted table a path is found under its own key and flag byte,   *)
(* and under no other's (ss_cache.h: "within a table a hash identifies     *)
(* exactly one file").                                                     *)
LookupExact ==
  parse_pc = "done" /\ ret > 0 =>
    \A i \in DOMAIN Records[0] :
      /\ IsString(Records[0][i].name) => dir_find(Records[0][i].name) = i - 1
      /\ 256 * dir[i].flags + (Records[0][i].key % 256) = Records[0][i].key

(* The records the first pass has counted, and the entry the second makes  *)
(* of the record at c.                                                     *)
Counted == [k \in 1..count |-> RecordAt(starts[k])]

EntryAt(c) == Entry(KeyAt(c), NameAt(c))

(* The invariant the two rest on, of both loops of ss_dir_table_from_blob: *)
(* the records that were counted, followed by those the first pass has     *)
(* still to see, are the blob's; the second pass has filled in the first   *)
(* of them, in order; and a table is returned only when complete and       *)
(* without colliding hashes.                                               *)
TableInv ==
  /\ ParseInv
  /\ Records[0] = IF parse_pc = "count" THEN Counted \o Records[cursor] ELSE Counted
  /\ dir \in Seq({EntryAt(starts[k]) : k \in 1..count})
  /\ parse_pc \in {"count", "alloc"} => dir = <<>>
  /\ parse_pc = "fill" => count > 0 /\ Len(dir) = filled
  /\ \A k \in 1..Len(dir) : dir[k] = EntryAt(starts[k])
  /\ parse_pc = "done" => \/ ret = 0 /\ count = 0 /\ dir = <<>>
                          \/ ret = -1 /\ dir = <<>>
                          \/ ret = count /\ count > 0 /\ Len(dir) = count /\ ~Collides

(* The parse comes to an end, whatever is in the blob.                     *)
ParseEnds == <>(parse_pc = "done")
=============================================================================
