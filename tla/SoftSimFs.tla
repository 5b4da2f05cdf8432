----------------------------- MODULE SoftSimFs -----------------------------
(***************************************************************************)
(* The SoftSIM filesystem of lib/ss_fs.c and lib/ss_cache.c: a directory   *)
(* table built from the DIR record of NVS, and a fixed table of slots that *)
(* buffer file contents in RAM.  Writes stay in a slot until a close of a  *)
(* commit-on-close file, an eviction, a commit or a deinit writes them to  *)
(* NVS.  NVS may refuse any write, any allocation may fail, and the power  *)
(* may go at any time.                                                     *)
(*                                                                         *)
(* Data abstraction: a file is identified by its path (the FNV-1a hash and *)
(* the NVS key stand for it one to one, which the code checks when it      *)
(* builds the table).  A content is a value with a size: the first _l      *)
(* bytes of a buffer, which is what a commit writes.  SsFile models the    *)
(* bytes, the file position and the calls that move it.                    *)
(***************************************************************************)
EXTENDS Integers, Sequences, FiniteSets

CONSTANTS
  Files,           \* the paths the DIR record names
  DirBlob,         \* the DIR record: those paths, in the order of the record
  CommitFiles,     \* the files whose NVS key carries FS_COMMIT_ON_CLOSE
  Contents,        \* file contents
  SizeOf,          \* SizeOf[c]: the length of content c in bytes
  NULL,            \* no record, no buffer, no path
  SS_MAX_ENTRIES,  \* slots in the cache (10)
  HITS_MAX,        \* ceiling of the open counter (0xFF)
  FPUTC_GROWTH,    \* what ss_fputc adds to a full buffer (20)
  BUF_LIMIT        \* bound of the model: no larger buffer can be allocated

Slots == 1..SS_MAX_ENTRIES

ASSUME FsAssumption ==
  /\ SS_MAX_ENTRIES \in Nat \ {0}
  /\ HITS_MAX \in Nat
  /\ FPUTC_GROWTH \in Nat \ {0}
  /\ BUF_LIMIT \in Nat
  /\ NULL \notin Contents
  /\ NULL \notin Files
  /\ CommitFiles \subseteq Files
  /\ SizeOf \in [Contents -> 0..BUF_LIMIT]
  /\ DirBlob \in Seq(Files)
  /\ \A i, j \in 1..Len(DirBlob) : DirBlob[i] = DirBlob[j] => i = j
  /\ \A f \in Files : \E i \in 1..Len(DirBlob) : DirBlob[i] = f
  /\ Len(DirBlob) > 0

VARIABLES
  nvs,                \* flash: the record of each file, or NULL
  fs_dir,             \* the directory table
  fs_slots,           \* the cache
  fs_is_initialized,
  fp,                 \* the handle the storage backend holds: a slot, or 0
  opened,             \* the path it opened, or NULL
  refused             \* history: files whose last NVS write was refused

vars == <<nvs, fs_dir, fs_slots, fs_is_initialized, fp, opened, refused>>

DirEntry == [path : Files, commit : BOOLEAN, hits : 0..HITS_MAX]

Slot == [buf : Contents \cup {NULL}, dir_idx : Nat, b_size : 0..BUF_LIMIT,
         dirty : BOOLEAN]

(* memset(0): the directory index of a free slot aliases the first entry   *)
FreeSlot == [buf |-> NULL, dir_idx |-> 1, b_size |-> 0, dirty |-> FALSE]

TypeOK ==
  /\ nvs \in [Files -> Contents \cup {NULL}]
  /\ fs_dir \in Seq(DirEntry)
  /\ fs_slots \in [Slots -> Slot]
  /\ fs_is_initialized \in BOOLEAN
  /\ fp \in Slots \cup {0}
  /\ opened \in Files \cup {NULL}
  /\ refused \in SUBSET Files

-----------------------------------------------------------------------------
(* Lookups.  Paths are unique in the table and a file has one slot, so the *)
(* first match of the code is the only one.                                *)

Used(s) == fs_slots[s].buf # NULL

(* the indices at which ss_dir_find finds path f: none or one              *)
ss_dir_find(f) == {d \in DOMAIN fs_dir : fs_dir[d].path = f}

(* Fault: a free slot, whose index aliases the first entry, also matches.  *)
ss_slot_find_free(d) == {s \in Slots : fs_slots[s].dir_idx = d}

(* the slots that buffer directory entry d: none or one                    *)
ss_slot_find(d) == {s \in Slots : Used(s) /\ fs_slots[s].dir_idx = d}

PathOf(s) == fs_dir[fs_slots[s].dir_idx].path

Hits(s) == fs_dir[fs_slots[s].dir_idx].hits

(* The member of S the scan of ss_slot_acquire keeps: fewest hits, the     *)
(* first slot on a tie, and only hits below the initial minimum count.     *)
FewestHits(S) ==
  {s \in S : /\ Hits(s) < HITS_MAX + 1
             /\ \A t \in S : Hits(s) < Hits(t) \/ (Hits(s) = Hits(t) /\ s <= t)}

(* The slot to load a file of want bytes into, as a set of at most one: a  *)
(* free slot, else a clean one with a large enough buffer, else a clean    *)
(* one, else any.                                                          *)
ss_slot_acquire(want) ==
  LET free  == {s \in Slots : ~Used(s)}
      clean == {s \in Slots : ~fs_slots[s].dirty}
      roomy == {s \in clean : fs_slots[s].b_size >= want}
  IN  IF free # {} THEN {s \in free : \A t \in free : s <= t}
      ELSE IF FewestHits(roomy) # {} THEN FewestHits(roomy)
      ELSE IF FewestHits(clean) # {} THEN FewestHits(clean)
      ELSE FewestHits(Slots)

-----------------------------------------------------------------------------
(* commit_slot for a set of dirty slots, of which NVS refuses some: a slot *)
(* that is written is clean, a refused one stays dirty.                    *)
DirtySlots == {s \in Slots : Used(s) /\ fs_slots[s].dirty}

Committed(done) ==
  [f \in Files |-> IF \E s \in done : PathOf(s) = f
                     THEN fs_slots[CHOOSE s \in done : PathOf(s) = f].buf
                     ELSE nvs[f]]

(* Fault: a slot counts as clean also when its write was refused.          *)
CleanedAlways(done) == [s \in Slots |-> [fs_slots[s] EXCEPT !.dirty = FALSE]]

Cleaned(done) ==
  [s \in Slots |-> IF s \in done THEN [fs_slots[s] EXCEPT !.dirty = FALSE]
                                 ELSE fs_slots[s]]

RefusedAfter(done, failed) ==
  (refused \ {PathOf(s) : s \in done}) \cup {PathOf(s) : s \in failed}

-----------------------------------------------------------------------------
Init ==
  /\ nvs \in [Files -> Contents]
  /\ fs_dir = <<>>
  /\ fs_slots = [s \in Slots |-> FreeSlot]
  /\ fs_is_initialized = FALSE
  /\ fp = 0
  /\ opened = NULL
  /\ refused = {}

(* The template is in flash.  Mount it and build the directory table.  A   *)
(* failed mount, a missing DIR record or a failed allocation leaves        *)
(* everything as it was, and so does a call when already initialized.      *)
ss_init_fs ==
  /\ ~fs_is_initialized
  /\ fs_slots' = [s \in Slots |-> FreeSlot]
  /\ fs_dir' = [d \in 1..Len(DirBlob) |->
                  [path |-> DirBlob[d], commit |-> DirBlob[d] \in CommitFiles,
                   hits |-> 0]]
  /\ fs_is_initialized' = TRUE
  /\ UNCHANGED <<nvs, fp, opened, refused>>

(* Write every dirty slot; a refused one does not stop the others.         *)
port_commit_fs ==
  \E failed \in SUBSET DirtySlots :
    LET done == DirtySlots \ failed IN
    /\ fs_is_initialized
    /\ fp = 0
    /\ nvs' = Committed(done)
    /\ fs_slots' = Cleaned(done)
    /\ refused' = RefusedAfter(done, failed)
    /\ UNCHANGED <<fs_dir, fs_is_initialized, fp, opened>>

(* Commit, and only if nothing was refused drop the cache and the table.   *)
ss_deinit_fs ==
  \E failed \in SUBSET DirtySlots :
    LET done == DirtySlots \ failed IN
    /\ fs_is_initialized
    /\ fp = 0
    /\ nvs' = Committed(done)
    /\ refused' = RefusedAfter(done, failed)
    /\ \/ /\ failed # {}
          /\ fs_slots' = Cleaned(done)
          /\ UNCHANGED <<fs_dir, fs_is_initialized>>
       \/ /\ failed = {}
          /\ fs_slots' = [s \in Slots |-> FreeSlot]
          /\ fs_dir' = <<>>
          /\ fs_is_initialized' = FALSE
    /\ UNCHANGED <<fp, opened>>

(* Fault: the buffer of a dirty victim is reused without a write.          *)
WriteBackSkipped(s) == {}

(* The victim has to be written before its buffer goes.                    *)
WriteBack(s) == {s} \cap DirtySlots

(* Read the record of entry d into slot s, after writing a dirty victim    *)
(* back.  The open fails, and the victim stays, when the write-back is     *)
(* refused; it fails with the slot free when the allocation or the read    *)
(* fails.                                                                  *)
ss_load_to_slot(d, s) ==
  LET victim == fs_slots[s]
      evict  == WriteBack(s)
      f      == fs_dir[d].path
      len    == SizeOf[nvs[f]]
  IN  \/ /\ evict # {}
         /\ refused' = RefusedAfter({}, evict)
         /\ UNCHANGED <<nvs, fs_slots, fp, opened>>
      \/ /\ nvs' = Committed(evict)
         /\ refused' = RefusedAfter(evict, {})
         /\ fs_slots' = [fs_slots EXCEPT ![s].buf = NULL, ![s].b_size = 0,
                                         ![s].dirty = FALSE]
         /\ UNCHANGED <<fp, opened>>
      \/ /\ nvs' = Committed(evict)
         /\ refused' = RefusedAfter(evict, {})
         /\ fs_slots' = [fs_slots EXCEPT ![s] =
                           [buf     |-> nvs[f],
                            dir_idx |-> d,
                            b_size  |-> IF Used(s) /\ len <= victim.b_size
                                          THEN victim.b_size ELSE len,
                            dirty   |-> FALSE]]
         /\ fp' = s
         /\ opened' = f

(* The open counter of an entry saturates.                                 *)
BumpHits(h) == IF h < HITS_MAX THEN h + 1 ELSE h

(* Open a file.  The storage backend opens one file at a time, so no       *)
(* handle is held.  An unknown path returns NULL and changes nothing.      *)
ss_fopen(f) ==
  \E d \in ss_dir_find(f) :
    /\ fp = 0
    /\ fs_dir' = [fs_dir EXCEPT ![d].hits = BumpHits(@)]
    /\ \/ \E s \in ss_slot_find(d) :         \* buffered: hand out its slot
            /\ fp' = s
            /\ opened' = f
            /\ UNCHANGED <<nvs, fs_slots, refused>>
       \/ /\ ss_slot_find(d) = {}            \* no record, or NVS cannot read it
          /\ UNCHANGED <<nvs, fs_slots, fp, opened, refused>>
       \/ /\ ss_slot_find(d) = {}
          /\ nvs[f] # NULL
          /\ \E s \in ss_slot_acquire(SizeOf[nvs[f]]) : ss_load_to_slot(d, s)
    /\ UNCHANGED fs_is_initialized

(* Fault: a write does not mark the slot.                                  *)
ss_fwrite_unmarked(c) ==
  /\ fp # 0
  /\ SizeOf[c] = SizeOf[fs_slots[fp].buf]
  /\ fs_slots' = [fs_slots EXCEPT ![fp].buf = c]
  /\ UNCHANGED <<nvs, fs_dir, fs_is_initialized, fp, opened, refused>>

(* ss_fwrite leaves _l alone, so the content keeps its size; the buffer    *)
(* may grow.  The slot is dirty when any byte of the buffer changed, also  *)
(* one past _l.  A failed allocation changes nothing.                      *)
ss_fwrite(c) ==
  /\ fp # 0
  /\ SizeOf[c] = SizeOf[fs_slots[fp].buf]
  /\ \E size \in fs_slots[fp].b_size..BUF_LIMIT, dirty \in BOOLEAN :
       /\ (c # fs_slots[fp].buf \/ fs_slots[fp].dirty) => dirty
       /\ dirty => (c # fs_slots[fp].buf \/ fs_slots[fp].dirty \/ SizeOf[c] < size)
       /\ fs_slots' = [fs_slots EXCEPT ![fp].buf = c, ![fp].b_size = size,
                                       ![fp].dirty = dirty]
  /\ UNCHANGED <<nvs, fs_dir, fs_is_initialized, fp, opened, refused>>

(* ss_fputc grows a full buffer by a fixed step and extends the file.  The *)
(* buffer is full when the position, and so the new length, is past it.    *)
ss_fputc(c) ==
  /\ fp # 0
  /\ SizeOf[c] >= SizeOf[fs_slots[fp].buf]
  /\ LET old  == fs_slots[fp].b_size
         size == IF SizeOf[c] > old THEN old + FPUTC_GROWTH ELSE old
     IN  /\ SizeOf[c] <= size
         /\ size <= BUF_LIMIT
         /\ fs_slots' = [fs_slots EXCEPT ![fp].buf = c, ![fp].b_size = size,
                                         ![fp].dirty = TRUE]
  /\ UNCHANGED <<nvs, fs_dir, fs_is_initialized, fp, opened, refused>>

(* Fault: a close leaves every file to the next commit.                    *)
DueOnCloseNever == {}

(* What a close writes: a dirty commit-on-close file.  (FS_READ_ONLY is    *)
(* bit 8 of an 8-bit field: it is never set.)                              *)
DueOnClose ==
  IF fs_dir[fs_slots[fp].dir_idx].commit THEN {fp} \cap DirtySlots ELSE {}

(* Close: a refused write leaves the file dirty.                           *)
ss_fclose ==
  /\ fp # 0
  /\ \E failed \in SUBSET DueOnClose :
       /\ nvs' = Committed(DueOnClose \ failed)
       /\ fs_slots' = Cleaned(DueOnClose \ failed)
       /\ refused' = RefusedAfter(DueOnClose \ failed, failed)
  /\ fp' = 0
  /\ opened' = NULL
  /\ UNCHANGED <<fs_dir, fs_is_initialized>>

(* Close the hole at d with the last entry.                                *)
CloseHole(d) ==
  [i \in 1..(Len(fs_dir) - 1) |-> IF i = d THEN fs_dir[Len(fs_dir)] ELSE fs_dir[i]]

(* Fault: the buffer of the entry that moves keeps the old index.          *)
DropAndKeepIndex(d) ==
  [s \in Slots |-> IF s \in ss_slot_find(d) THEN FreeSlot ELSE fs_slots[s]]

(* Drop the buffer of entry d and re-point that of the entry that moves.   *)
DropAndRepoint(d) ==
  [s \in Slots |-> IF s \in ss_slot_find(d) THEN FreeSlot
                  ELSE IF s \in ss_slot_find(Len(fs_dir))
                    THEN [fs_slots[s] EXCEPT !.dir_idx = d]
                    ELSE fs_slots[s]]

(* Remove a file other than the open one.  NVS's answer is ignored.        *)
ss_remove(f) ==
  \E d \in ss_dir_find(f), deleted \in BOOLEAN :
    /\ f # opened
    /\ nvs' = IF deleted THEN [nvs EXCEPT ![f] = NULL] ELSE nvs
    /\ fs_dir' = CloseHole(d)
    /\ fs_slots' = DropAndRepoint(d)
    /\ refused' = refused \ {f}
    /\ UNCHANGED <<fs_is_initialized, fp, opened>>

(* Power loss or reboot: RAM is gone, NVS stays.                           *)
PowerLoss ==
  /\ fs_is_initialized
  /\ fs_dir' = <<>>
  /\ fs_slots' = [s \in Slots |-> FreeSlot]
  /\ fs_is_initialized' = FALSE
  /\ fp' = 0
  /\ opened' = NULL
  /\ refused' = {}
  /\ UNCHANGED nvs

Next ==
  \/ ss_init_fs
  \/ port_commit_fs
  \/ ss_deinit_fs
  \/ \E f \in Files : ss_fopen(f) \/ ss_remove(f)
  \/ \E c \in Contents : ss_fwrite(c) \/ ss_fputc(c)
  \/ ss_fclose
  \/ PowerLoss

Spec == Init /\ [][Next]_vars

-----------------------------------------------------------------------------
(* Properties.                                                             *)

(* The directory table names a file once, also after ss_remove has moved   *)
(* the last entry into the hole: a lookup has one answer.                  *)
DirUnique ==
  \A i, j \in DOMAIN fs_dir : fs_dir[i].path = fs_dir[j].path => i = j

(* Every buffer belongs to an entry of the directory table, no two buffers *)
(* to the same entry, and a buffer is at least as long as its file: loads, *)
(* evictions, removals and re-pointing keep the two tables consistent.     *)
SlotsMatchDir ==
  /\ \A s \in Slots : Used(s) => fs_slots[s].dir_idx \in DOMAIN fs_dir
  /\ \A s, t \in Slots :
       Used(s) /\ Used(t) /\ fs_slots[s].dir_idx = fs_slots[t].dir_idx => s = t
  /\ \A s \in Slots : Used(s) => SizeOf[fs_slots[s].buf] <= fs_slots[s].b_size

(* A buffer that is not marked dirty holds what NVS holds: no change of a  *)
(* file can be dropped because its slot looks clean.                       *)
CleanIsDurable ==
  \A s \in Slots : Used(s) /\ ~fs_slots[s].dirty => fs_slots[s].buf = nvs[PathOf(s)]

(* A handle stays good as long as it is held: its slot holds the file that *)
(* was opened, whatever is removed in between (ss_cache.h: "an open file   *)
(* is never evicted").                                                     *)
HandleHoldsFile ==
  IF fp = 0 THEN opened = NULL
  ELSE Used(fp) /\ fs_slots[fp].dir_idx \in DOMAIN fs_dir /\ PathOf(fp) = opened

(* A change NVS refused stays buffered, over every later operation, until  *)
(* a later write succeeds.                                                 *)
RefusedStaysBuffered ==
  \A f \in refused : \E s \in DirtySlots : PathOf(s) = f

(* A commit-on-close file that is not open is durable, unless NVS refused  *)
(* its last write: a power loss does not roll it back.                     *)
CommitOnCloseDurable ==
  \A s \in DirtySlots :
    PathOf(s) \in CommitFiles /\ s # fp => PathOf(s) \in refused

(* Without a mounted filesystem there is no table, no buffer and no        *)
(* handle, so ss_init_fs overwrites nothing.                               *)
DownIsEmpty ==
  ~fs_is_initialized => /\ fs_dir = <<>>
                        /\ \A s \in Slots : ~Used(s)
                        /\ fp = 0

(* The flag of an entry is the one of its NVS key, also after ss_remove    *)
(* has moved the entry.                                                    *)
FlagsFromKey ==
  \A d \in DOMAIN fs_dir : fs_dir[d].commit <=> fs_dir[d].path \in CommitFiles

(* The inductive invariant behind the theorems of SoftSimFsProofs.         *)
IInv == /\ TypeOK /\ DirUnique /\ SlotsMatchDir /\ CleanIsDurable
        /\ HandleHoldsFile /\ DownIsEmpty /\ FlagsFromKey
        /\ RefusedStaysBuffered /\ CommitOnCloseDurable

(* What the core sees of a file: its buffer, else its NVS record; nothing  *)
(* of a file that was removed.                                             *)
View ==
  [f \in Files |->
     IF ~fs_is_initialized THEN nvs[f]
     ELSE IF ss_dir_find(f) = {} THEN NULL
     ELSE IF \E s \in Slots : Used(s) /\ PathOf(s) = f
       THEN fs_slots[CHOOSE s \in Slots : Used(s) /\ PathOf(s) = f].buf
       ELSE nvs[f]]

Store == INSTANCE FileStore WITH up <- fs_is_initialized, view <- View, disk <- nvs, open <- opened

(* The cache is transparent: the filesystem behaves as the plain store of  *)
(* FileStore.  Opening, evicting, closing and committing never change what *)
(* the core sees, only a write through the handle changes it, and only for *)
(* the open file; only the content it sees reaches flash; nothing but a    *)
(* power loss undoes a write.                                              *)
ImplementsFileStore == Store!Spec

(* Fault: the size is that of the NVS record, buffered or not.             *)
ss_file_size_of_record(f) ==
  IF ss_dir_find(f) = {} \/ nvs[f] = NULL THEN {-1} ELSE {SizeOf[nvs[f]], -1}

(* ss_file_size: the size of the buffer, else of the record, else -1; what *)
(* it may return, since NVS may fail to read the record.                   *)
ss_file_size(f) ==
  LET cached == UNION {ss_slot_find(d) : d \in ss_dir_find(f)} IN
  IF ss_dir_find(f) = {} THEN {-1}
  ELSE IF cached # {} THEN {SizeOf[fs_slots[CHOOSE s \in cached : TRUE].buf]}
  ELSE IF nvs[f] # NULL THEN {SizeOf[nvs[f]], -1} ELSE {-1}

(* The size reported for a file is the size of what a read would return,   *)
(* buffered or not; an error is reported only for one that is not buffered.*)
SizeIsOfView ==
  fs_is_initialized =>
    \A f \in Files : \A n \in ss_file_size(f) :
      \/ View[f] # NULL /\ n = SizeOf[View[f]]
      \/ n = -1 /\ \A s \in Slots : Used(s) => PathOf(s) # f
=============================================================================
