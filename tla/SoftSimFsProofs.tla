-------------------------- MODULE SoftSimFsProofs --------------------------
(***************************************************************************)
(* Proofs about SoftSimFs, for any number of files, slots and contents.    *)
(***************************************************************************)
EXTENDS SoftSimFs, SequenceTheorems, TLAPS

(* Two used slots never buffer the same file.                              *)
LEMMA PathInjective ==
  ASSUME TypeOK, DirUnique, SlotsMatchDir,
         NEW s \in Slots, NEW t \in Slots, Used(s), Used(t), PathOf(s) = PathOf(t)
  PROVE  s = t
<1>1. /\ fs_slots[s].dir_idx \in DOMAIN fs_dir
      /\ fs_slots[t].dir_idx \in DOMAIN fs_dir
  BY DEF SlotsMatchDir
<1>2. fs_slots[s].dir_idx = fs_slots[t].dir_idx
  BY <1>1 DEF DirUnique, PathOf
<1> QED
  BY <1>2 DEF SlotsMatchDir

(* The path of a used slot is a file.                                      *)
LEMMA PathType ==
  ASSUME TypeOK, SlotsMatchDir, NEW s \in Slots, Used(s)
  PROVE  /\ PathOf(s) \in Files
         /\ fs_slots[s].dir_idx \in DOMAIN fs_dir
         /\ fs_slots[s].buf \in Contents
<1>1. fs_slots[s] \in Slot
  BY DEF TypeOK
<1>2. fs_slots[s].dir_idx \in DOMAIN fs_dir
  BY DEF SlotsMatchDir
<1>3. fs_dir[fs_slots[s].dir_idx] \in DirEntry
  BY <1>2, ElementOfSeq DEF TypeOK
<1> QED
  BY <1>1, <1>2, <1>3 DEF PathOf, Used, Slot, DirEntry

(* What NVS holds after the slots in done were written.                    *)
LEMMA CommittedValue ==
  ASSUME TypeOK, DirUnique, SlotsMatchDir,
         NEW done \in SUBSET {s \in Slots : Used(s)}
  PROVE  /\ Committed(done) \in [Files -> Contents \cup {NULL}]
         /\ \A s \in done : Committed(done)[PathOf(s)] = fs_slots[s].buf
         /\ \A f \in Files : (\A s \in done : PathOf(s) # f) => Committed(done)[f] = nvs[f]
<1>1. ASSUME NEW s \in done
      PROVE  Committed(done)[PathOf(s)] = fs_slots[s].buf
  <2> DEFINE f == PathOf(s)
             c == CHOOSE t \in done : PathOf(t) = f
  <2>1. c \in done /\ PathOf(c) = f
    OBVIOUS
  <2>2. c = s
    BY <2>1, PathInjective
  <2>3. f \in Files
    BY PathType
  <2> QED
    BY <2>2, <2>3, Zenon DEF Committed
<1>2. ASSUME NEW f \in Files, \A s \in done : PathOf(s) # f
      PROVE  Committed(done)[f] = nvs[f]
  BY <1>2 DEF Committed
<1>3. ASSUME NEW f \in Files
      PROVE  Committed(done)[f] \in Contents \cup {NULL}
  <2>1. CASE \E s \in done : PathOf(s) = f
    BY <2>1, <1>1, PathType
  <2>2. CASE \A s \in done : PathOf(s) # f
    BY <2>2, <1>2 DEF TypeOK
  <2> QED
    BY <2>1, <2>2
<1>4. Committed(done) = [f \in Files |-> Committed(done)[f]]
  BY DEF Committed
<1> QED
  BY <1>1, <1>2, <1>3, <1>4

(* Marking slots clean changes nothing else.                               *)
LEMMA CleanedValue ==
  ASSUME TypeOK, NEW done \in SUBSET Slots
  PROVE  /\ Cleaned(done) \in [Slots -> Slot]
         /\ \A s \in Slots : /\ Cleaned(done)[s].buf = fs_slots[s].buf
                             /\ Cleaned(done)[s].dir_idx = fs_slots[s].dir_idx
                             /\ Cleaned(done)[s].b_size = fs_slots[s].b_size
                             /\ Cleaned(done)[s].dirty <=> (fs_slots[s].dirty /\ s \notin done)
BY Zenon DEF TypeOK, Cleaned, Slot

-----------------------------------------------------------------------------
(* One lemma per action: it preserves the inductive invariant.             *)

LEMMA FreeSlotType == FreeSlot \in Slot /\ FreeSlot.buf = NULL
BY FsAssumption DEF FreeSlot, Slot

LEMMA InitFsInv == IInv /\ ss_init_fs => IInv'
<1> SUFFICES ASSUME IInv, ss_init_fs PROVE IInv'
  OBVIOUS
<1>1. \A s \in Slots : ~Used(s)'
  BY DEF ss_init_fs, Used, FreeSlot
<1>2. fs_dir' \in Seq(DirEntry) /\ DOMAIN fs_dir' = 1..Len(DirBlob)
  <2>1. Len(DirBlob) \in Nat /\ \A d \in 1..Len(DirBlob) : DirBlob[d] \in Files
    BY FsAssumption, LenProperties, ElementOfSeq
  <2>2. \A d \in 1..Len(DirBlob) : [path |-> DirBlob[d], commit |-> DirBlob[d] \in CommitFiles,
                                     hits |-> 0] \in DirEntry
    BY <2>1, FsAssumption DEF DirEntry
  <2> QED
    BY <2>1, <2>2, IsASeq DEF ss_init_fs
<1>3. TypeOK'
  BY <1>2, FreeSlotType DEF ss_init_fs, IInv, TypeOK
<1>4. DirUnique' /\ FlagsFromKey'
  <2>1. \A d \in 1..Len(DirBlob) : /\ fs_dir'[d].path = DirBlob[d]
                                   /\ fs_dir'[d].commit = (DirBlob[d] \in CommitFiles)
    BY DEF ss_init_fs
  <2>2. DirUnique'
    BY <1>2, <2>1, FsAssumption DEF DirUnique
  <2>3. FlagsFromKey'
    BY <1>2, <2>1, Zenon DEF FlagsFromKey
  <2> QED
    BY <2>2, <2>3
<1>5. fp' = 0 /\ refused' = {}
  <2>1. fp = 0 /\ \A s \in Slots : ~Used(s)
    BY DEF ss_init_fs, IInv, DownIsEmpty
  <2> QED
    BY <2>1 DEF ss_init_fs, IInv, RefusedStaysBuffered, DirtySlots
<1> QED
  BY <1>1, <1>3, <1>4, <1>5 DEF ss_init_fs, IInv, SlotsMatchDir, CleanIsDurable, HandleHoldsFile,
     DownIsEmpty, RefusedStaysBuffered, CommitOnCloseDurable, DirtySlots

(* The RAM state of a filesystem that is down.                             *)
Down == /\ fs_dir = <<>>
        /\ fs_slots = [s \in Slots |-> FreeSlot]
        /\ fs_is_initialized = FALSE
        /\ fp = 0
        /\ opened = NULL
        /\ refused = {}

LEMMA DownInv == nvs \in [Files -> Contents \cup {NULL}] /\ Down => IInv
<1> SUFFICES ASSUME nvs \in [Files -> Contents \cup {NULL}], Down PROVE IInv
  OBVIOUS
<1>1. \A s \in Slots : ~Used(s)
  BY DEF Down, Used, FreeSlot
<1>2. TypeOK
  <2>1. fs_dir \in Seq(DirEntry)
    BY EmptySeq DEF Down
  <2> QED
    BY <2>1, FreeSlotType, Zenon DEF Down, TypeOK
<1>3. DOMAIN fs_dir = {}
  BY DEF Down
<1> QED
  BY <1>1, <1>2, <1>3 DEF Down, IInv, DirUnique, SlotsMatchDir, CleanIsDurable, HandleHoldsFile,
     DownIsEmpty, FlagsFromKey, RefusedStaysBuffered, CommitOnCloseDurable, DirtySlots

LEMMA InitInv == Init => IInv
BY DownInv DEF Init, Down

LEMMA PowerLossInv == IInv /\ PowerLoss => IInv'
<1> SUFFICES ASSUME IInv, PowerLoss PROVE IInv'
  OBVIOUS
<1>1. (nvs \in [Files -> Contents \cup {NULL}])' /\ Down'
  BY DEF IInv, TypeOK, PowerLoss, Down
<1>2. (nvs \in [Files -> Contents \cup {NULL}] /\ Down => IInv)'
  BY DownInv, PTL
<1> QED
  BY <1>1, <1>2

(* Writing the slots in done and being refused those in failed, as the     *)
(* commit, deinit and close do it.                                         *)
CommitStep(done, failed) ==
  /\ nvs' = Committed(done)
  /\ fs_slots' = Cleaned(done)
  /\ refused' = RefusedAfter(done, failed)
  /\ UNCHANGED <<fs_dir, fs_is_initialized>>

LEMMA CommitStepInv ==
  ASSUME IInv, NEW done \in SUBSET DirtySlots, NEW failed \in SUBSET DirtySlots,
         done \cap failed = {}, CommitStep(done, failed),
         fp' \in Slots \cup {0}, opened' \in Files \cup {NULL}
  PROVE  /\ TypeOK' /\ DirUnique' /\ SlotsMatchDir' /\ CleanIsDurable' /\ FlagsFromKey'
         /\ RefusedStaysBuffered'
         /\ DirtySlots' = DirtySlots \ done
         /\ \A s \in Slots : (Used(s)' <=> Used(s)) /\ PathOf(s)' = PathOf(s)
                              /\ fs_slots'[s].dir_idx = fs_slots[s].dir_idx
<1> USE DEF CommitStep
<1>1. /\ TypeOK /\ DirUnique /\ SlotsMatchDir
      /\ done \in SUBSET {s \in Slots : Used(s)} /\ done \in SUBSET Slots
      /\ failed \in SUBSET {s \in Slots : Used(s)}
  BY DEF IInv, DirtySlots
<1>2. \A s \in Slots : /\ fs_slots'[s].buf = fs_slots[s].buf
                       /\ fs_slots'[s].dir_idx = fs_slots[s].dir_idx
                       /\ fs_slots'[s].b_size = fs_slots[s].b_size
                       /\ fs_slots'[s].dirty <=> (fs_slots[s].dirty /\ s \notin done)
  BY <1>1, CleanedValue
<1>3. \A s \in Slots : (Used(s)' <=> Used(s)) /\ PathOf(s)' = PathOf(s)
  BY <1>2 DEF Used, PathOf
<1>4. DirtySlots' = DirtySlots \ done
  BY <1>2, <1>3 DEF DirtySlots
<1>5. \A s \in Slots : Used(s) => PathOf(s) \in Files
  BY <1>1, PathType
<1>6. TypeOK'
  <2>1. nvs' \in [Files -> Contents \cup {NULL}]
    BY <1>1, CommittedValue
  <2>2. fs_slots' \in [Slots -> Slot]
    BY <1>1, CleanedValue
  <2>3. refused' \in SUBSET Files
    BY <1>1, <1>5 DEF RefusedAfter, TypeOK
  <2> QED
    BY <1>1, <2>1, <2>2, <2>3 DEF TypeOK
<1>7. DirUnique' /\ FlagsFromKey'
  BY DEF IInv, DirUnique, FlagsFromKey
<1>8. SlotsMatchDir'
  BY <1>1, <1>2, <1>3 DEF SlotsMatchDir
<1>9. CleanIsDurable'
  <2> SUFFICES ASSUME NEW s \in Slots, Used(s), ~fs_slots'[s].dirty
               PROVE  fs_slots[s].buf = nvs'[PathOf(s)]
    BY <1>2, <1>3 DEF CleanIsDurable
  <2>1. CASE s \in done
    BY <2>1, <1>1, CommittedValue
  <2>2. CASE s \notin done
    <3>1. fs_slots[s].buf = nvs[PathOf(s)]
      BY <2>2, <1>2 DEF IInv, CleanIsDurable
    <3>2. \A t \in done : PathOf(t) # PathOf(s)
      BY <2>2, <1>1, PathInjective
    <3> QED
      BY <3>1, <3>2, <1>1, <1>5, CommittedValue
  <2> QED
    BY <2>1, <2>2
<1>10. RefusedStaysBuffered'
  <2> SUFFICES ASSUME NEW f \in refused'
               PROVE  \E s \in DirtySlots \ done : PathOf(s) = f
    BY <1>3, <1>4 DEF RefusedStaysBuffered, DirtySlots
  <2>1. CASE f \in {PathOf(s) : s \in failed}
    BY <2>1
  <2>2. CASE f \in refused /\ f \notin {PathOf(s) : s \in done}
    BY <2>2 DEF IInv, RefusedStaysBuffered
  <2> QED
    BY <2>1, <2>2 DEF RefusedAfter
<1> QED
  BY <1>2, <1>3, <1>4, <1>6, <1>7, <1>8, <1>9, <1>10

LEMMA CommitInv == IInv /\ port_commit_fs => IInv'
<1> SUFFICES ASSUME IInv, NEW failed \in SUBSET DirtySlots, fp = 0, fs_is_initialized,
                    CommitStep(DirtySlots \ failed, failed), UNCHANGED <<fp, opened>>
             PROVE  IInv'
  BY DEF port_commit_fs, CommitStep
<1> DEFINE done == DirtySlots \ failed
<1>1. /\ TypeOK' /\ DirUnique' /\ SlotsMatchDir' /\ CleanIsDurable' /\ FlagsFromKey'
      /\ RefusedStaysBuffered'
      /\ DirtySlots' = failed
      /\ \A s \in Slots : PathOf(s)' = PathOf(s)
  <2>1. done \cap failed = {} /\ DirtySlots \ done = failed
    OBVIOUS
  <2>2. fp' \in Slots \cup {0} /\ opened' \in Files \cup {NULL}
    BY DEF IInv, TypeOK
  <2> QED
    BY <2>1, <2>2, CommitStepInv
<1>2. CommitOnCloseDurable'
  BY <1>1 DEF CommitOnCloseDurable, CommitStep, RefusedAfter, DirtySlots
<1>3. HandleHoldsFile' /\ DownIsEmpty'
  BY DEF IInv, HandleHoldsFile, DownIsEmpty, CommitStep
<1> QED
  BY <1>1, <1>2, <1>3 DEF IInv

LEMMA DeinitInv == IInv /\ ss_deinit_fs => IInv'
<1> SUFFICES ASSUME IInv, ss_deinit_fs PROVE IInv'
  OBVIOUS
<1>1. PICK failed \in SUBSET DirtySlots :
        LET done == DirtySlots \ failed IN
        /\ fs_is_initialized /\ fp = 0
        /\ nvs' = Committed(done)
        /\ refused' = RefusedAfter(done, failed)
        /\ \/ failed # {} /\ fs_slots' = Cleaned(done) /\ UNCHANGED <<fs_dir, fs_is_initialized>>
           \/ /\ failed = {} /\ fs_slots' = [s \in Slots |-> FreeSlot]
              /\ fs_dir' = <<>> /\ fs_is_initialized' = FALSE
        /\ UNCHANGED <<fp, opened>>
  BY Zenon DEF ss_deinit_fs
<1>2. CASE failed # {}
  <2>1. port_commit_fs
    BY <1>1, <1>2, Zenon DEF port_commit_fs
  <2> QED
    BY <2>1, CommitInv
<1>3. CASE failed = {}
  <2>1. nvs' \in [Files -> Contents \cup {NULL}]
    <3>1. TypeOK /\ DirUnique /\ SlotsMatchDir /\ DirtySlots \in SUBSET {s \in Slots : Used(s)}
      BY DEF IInv, DirtySlots
    <3> QED
      BY <1>1, <1>3, <3>1, CommittedValue
  <2>2. refused' = {}
    <3>1. refused' = refused \ {PathOf(s) : s \in DirtySlots}
      BY <1>1, <1>3 DEF RefusedAfter
    <3> QED
      BY <3>1 DEF IInv, RefusedStaysBuffered
  <2>3. Down'
    BY <1>1, <1>3, <2>2 DEF Down, IInv, HandleHoldsFile
  <2>4. (nvs \in [Files -> Contents \cup {NULL}] /\ Down => IInv)'
    BY DownInv, PTL
  <2> QED
    BY <2>1, <2>3, <2>4
<1> QED
  BY <1>2, <1>3

LEMMA CloseInv == IInv /\ ss_fclose => IInv'
<1> SUFFICES ASSUME IInv, ss_fclose PROVE IInv'
  OBVIOUS
<1> DEFINE due == IF fs_dir[fs_slots[fp].dir_idx].commit THEN {fp} \cap DirtySlots ELSE {}
<1>1. PICK failed \in SUBSET due : CommitStep(due \ failed, failed)
  BY Zenon DEF ss_fclose, CommitStep, DueOnClose
<1>2. fp # 0 /\ fp' = 0 /\ opened' = NULL
  BY DEF ss_fclose, DueOnClose
<1>3. /\ TypeOK' /\ DirUnique' /\ SlotsMatchDir' /\ CleanIsDurable' /\ FlagsFromKey'
      /\ RefusedStaysBuffered'
      /\ DirtySlots' = DirtySlots \ (due \ failed)
      /\ \A s \in Slots : PathOf(s)' = PathOf(s)
  <2>1. due \in SUBSET DirtySlots
    OBVIOUS
  <2>2. due \ failed \in SUBSET DirtySlots /\ failed \in SUBSET DirtySlots
    BY <2>1
  <2>3. (due \ failed) \cap failed = {}
    OBVIOUS
  <2> QED
    BY <1>1, <1>2, <2>2, <2>3, CommitStepInv, Zenon
<1>4. CommitOnCloseDurable'
  <2> SUFFICES ASSUME NEW s \in DirtySlots', PathOf(s)' \in CommitFiles
               PROVE  PathOf(s)' \in refused'
    BY DEF CommitOnCloseDurable
  <2>1. s \in DirtySlots /\ s \in Slots /\ s \notin due \ failed /\ PathOf(s)' = PathOf(s)
    BY <1>3 DEF DirtySlots
  <2>2. refused' = (refused \ {PathOf(t) : t \in due \ failed}) \cup {PathOf(t) : t \in failed}
    BY <1>1 DEF CommitStep, RefusedAfter
  <2>3. CASE s \in failed
    BY <2>1, <2>2, <2>3
  <2>4. CASE s \notin failed
    <3>1. s \notin due
      BY <2>1, <2>4
    <3>2. s # fp
      <4>1. SUFFICES ASSUME s = fp PROVE FALSE
        OBVIOUS
      <4>2. fs_slots[fp].dir_idx \in DOMAIN fs_dir
        BY <1>2 DEF IInv, HandleHoldsFile
      <4>3. fs_dir[fs_slots[fp].dir_idx].commit
        BY <2>1, <4>1, <4>2 DEF IInv, FlagsFromKey, PathOf
      <4> QED
        BY <3>1, <2>1, <4>1, <4>3
    <3>3. PathOf(s) \in refused
      BY <2>1, <3>2 DEF IInv, CommitOnCloseDurable
    <3>4. \A t \in due : PathOf(t) # PathOf(s)
      <4>1. TypeOK /\ DirUnique /\ SlotsMatchDir
        BY DEF IInv
      <4> QED
        BY <3>1, <2>1, <4>1, PathInjective DEF DirtySlots
    <3> QED
      BY <2>1, <2>2, <3>3, <3>4
  <2> QED
    BY <2>3, <2>4
<1>5. HandleHoldsFile'
  BY <1>2 DEF HandleHoldsFile
<1>6. DownIsEmpty'
  BY <1>1, <1>2 DEF DownIsEmpty, CommitStep, IInv
<1> QED
  BY <1>3, <1>4, <1>5, <1>6 DEF IInv

(* A write through the handle: the slot keeps its file, becomes dirty when *)
(* its content changes and never becomes clean.                            *)
WriteStep(c, size, dirty) ==
  /\ fp # 0
  /\ size \in 0..BUF_LIMIT /\ SizeOf[c] <= size /\ dirty \in BOOLEAN
  /\ (c # fs_slots[fp].buf \/ fs_slots[fp].dirty) => dirty
  /\ fs_slots' = [fs_slots EXCEPT ![fp].buf = c, ![fp].b_size = size, ![fp].dirty = dirty]
  /\ UNCHANGED <<nvs, fs_dir, fs_is_initialized, fp, opened, refused>>

LEMMA WriteStepInv ==
  ASSUME IInv, NEW c \in Contents, NEW size, NEW dirty, WriteStep(c, size, dirty)
  PROVE  IInv'
<1> USE DEF WriteStep
<1>1. fp \in Slots /\ c # NULL /\ Used(fp)
  BY FsAssumption DEF IInv, TypeOK, HandleHoldsFile
<1>2. /\ fs_slots' \in [Slots -> Slot]
      /\ \A s \in Slots : /\ fs_slots'[s].dir_idx = fs_slots[s].dir_idx
                           /\ s # fp => fs_slots'[s] = fs_slots[s]
      /\ fs_slots'[fp].buf = c /\ fs_slots'[fp].b_size = size /\ fs_slots'[fp].dirty = dirty
  BY <1>1, ZenonT(30) DEF IInv, TypeOK, Slot
<1>3. \A s \in Slots : (Used(s)' <=> Used(s)) /\ PathOf(s)' = PathOf(s)
  BY <1>1, <1>2 DEF Used, PathOf
<1>4. /\ \A s \in DirtySlots : s \in DirtySlots'
      /\ \A s \in DirtySlots' : s \in DirtySlots \/ s = fp
  BY <1>1, <1>2, <1>3 DEF DirtySlots
<1>5. TypeOK' /\ DirUnique' /\ FlagsFromKey'
  BY <1>2 DEF IInv, TypeOK, DirUnique, FlagsFromKey
<1>6. SlotsMatchDir'
  <2>1. \A s \in Slots : Used(s)' => SizeOf[fs_slots'[s].buf] <= fs_slots'[s].b_size
    BY <1>1, <1>2, <1>3 DEF IInv, SlotsMatchDir
  <2> QED
    BY <1>2, <1>3, <2>1 DEF IInv, SlotsMatchDir
<1>7. CleanIsDurable'
  <2> SUFFICES ASSUME NEW s \in Slots, Used(s), ~fs_slots'[s].dirty
               PROVE  fs_slots'[s].buf = nvs[PathOf(s)]
    BY <1>3, Zenon DEF CleanIsDurable
  <2>1. ~fs_slots[s].dirty /\ fs_slots'[s].buf = fs_slots[s].buf
    BY <1>1, <1>2
  <2> QED
    BY <2>1 DEF IInv, CleanIsDurable
<1>8. HandleHoldsFile' /\ DownIsEmpty'
  BY <1>1, <1>2, <1>3 DEF IInv, HandleHoldsFile, DownIsEmpty
<1>9. RefusedStaysBuffered'
  BY <1>3, <1>4, Zenon DEF IInv, RefusedStaysBuffered, DirtySlots
<1>10. CommitOnCloseDurable'
  BY <1>3, <1>4 DEF IInv, CommitOnCloseDurable, DirtySlots
<1> QED
  BY <1>5, <1>6, <1>7, <1>8, <1>9, <1>10 DEF IInv

LEMMA FwriteInv ==
  ASSUME IInv, NEW c \in Contents, ss_fwrite(c)
  PROVE  IInv'
<1>1. PICK size \in fs_slots[fp].b_size..BUF_LIMIT, dirty \in BOOLEAN :
         /\ (c # fs_slots[fp].buf \/ fs_slots[fp].dirty) => dirty
         /\ fs_slots' = [fs_slots EXCEPT ![fp].buf = c, ![fp].b_size = size, ![fp].dirty = dirty]
  BY Zenon DEF ss_fwrite
<1>2. fp \in Slots /\ Used(fp)
  BY DEF ss_fwrite, IInv, TypeOK, HandleHoldsFile
<1>3. fs_slots[fp].b_size \in 0..BUF_LIMIT /\ SizeOf[c] <= fs_slots[fp].b_size
  BY <1>2 DEF ss_fwrite, IInv, TypeOK, Slot, SlotsMatchDir
<1>4. size \in 0..BUF_LIMIT /\ SizeOf[c] <= size
  BY <1>3, FsAssumption
<1>5. WriteStep(c, size, dirty)
  BY <1>1, <1>4, Zenon DEF ss_fwrite, WriteStep
<1> QED
  BY <1>5, WriteStepInv

LEMMA FputcInv ==
  ASSUME IInv, NEW c \in Contents, ss_fputc(c)
  PROVE  IInv'
<1> DEFINE old  == fs_slots[fp].b_size
           size == IF SizeOf[c] > old THEN old + FPUTC_GROWTH ELSE old
<1>1.    /\ SizeOf[c] <= size /\ size <= BUF_LIMIT
         /\ fs_slots' = [fs_slots EXCEPT ![fp].buf = c, ![fp].b_size = size, ![fp].dirty = TRUE]
  BY DEF ss_fputc
<1>2. fp \in Slots
  BY DEF ss_fputc, IInv, TypeOK
<1>3. size \in 0..BUF_LIMIT
  <2>1. old \in 0..BUF_LIMIT
    <3>1. fs_slots[fp] \in Slot
      BY <1>2 DEF IInv, TypeOK
    <3> QED
      BY <3>1 DEF Slot
  <2>2. size <= BUF_LIMIT
    BY <1>1
  <2> HIDE DEF old
  <2>3. size \in Nat
    <3>1. old \in Nat /\ old + FPUTC_GROWTH \in Nat
      BY ONLY <2>1, FsAssumption
    <3> QED
      BY ONLY <3>1
  <2> HIDE DEF size
  <2> QED
    BY ONLY <2>2, <2>3, FsAssumption
<1> HIDE DEF size
<1>4. WriteStep(c, size, TRUE)
  BY <1>1, <1>3, Zenon DEF ss_fputc, WriteStep
<1> QED
  BY <1>4, WriteStepInv, Zenon

(* The open counter touches neither paths nor flags.                       *)
LEMMA BumpFacts ==
  ASSUME TypeOK, NEW d \in DOMAIN fs_dir, fs_dir' = [fs_dir EXCEPT ![d].hits = BumpHits(@)]
  PROVE  /\ fs_dir' \in Seq(DirEntry)
         /\ DOMAIN fs_dir' = DOMAIN fs_dir
         /\ \A i \in DOMAIN fs_dir : /\ fs_dir'[i].path = fs_dir[i].path
                                     /\ fs_dir'[i].commit = fs_dir[i].commit
<1>1. fs_dir \in Seq(DirEntry) /\ fs_dir[d] \in DirEntry
  BY ElementOfSeq DEF TypeOK
<1>2. BumpHits(fs_dir[d].hits) \in 0..HITS_MAX
  <2> DEFINE h == fs_dir[d].hits
  <2>1. h \in 0..HITS_MAX
    BY <1>1 DEF DirEntry
  <2> HIDE DEF h
  <2>2. BumpHits(h) \in 0..HITS_MAX
    BY <2>1, FsAssumption DEF BumpHits
  <2> QED
    BY <2>2 DEF h
<1>3. [fs_dir[d] EXCEPT !.hits = BumpHits(@)] \in DirEntry
  BY <1>1, <1>2, Zenon DEF DirEntry
<1>4. fs_dir' = [fs_dir EXCEPT ![d] = [fs_dir[d] EXCEPT !.hits = BumpHits(@)]]
  OBVIOUS
<1>5. fs_dir' \in Seq(DirEntry)
  BY <1>1, <1>3, <1>4, ExceptSeq
<1> QED
  BY <1>1, <1>4, <1>5 DEF DirEntry

(* A step that leaves slots and NVS alone and bumps a hit counter: what an *)
(* open does that finds its file buffered, or fails before the load.       *)
LEMMA QuietOpenInv ==
  ASSUME IInv, NEW d \in DOMAIN fs_dir, fs_dir' = [fs_dir EXCEPT ![d].hits = BumpHits(@)],
         UNCHANGED <<nvs, fs_slots, fs_is_initialized>>,
         IF fp' = 0 THEN opened' = NULL ELSE fp' \in ss_slot_find(d) /\ opened' = fs_dir[d].path,
         fp = 0, opened' \in Files \cup {NULL}, fp' \in Slots \cup {0},
         \/ refused' = refused
         \/ \E s \in DirtySlots : refused' = refused \cup {PathOf(s)}
  PROVE  IInv'
<1>1. /\ fs_dir' \in Seq(DirEntry) /\ DOMAIN fs_dir' = DOMAIN fs_dir
      /\ \A i \in DOMAIN fs_dir : /\ fs_dir'[i].path = fs_dir[i].path
                                  /\ fs_dir'[i].commit = fs_dir[i].commit
  BY BumpFacts, Zenon DEF IInv
<1>2. \A s \in Slots : /\ Used(s)' <=> Used(s)
                       /\ Used(s) => PathOf(s)' = PathOf(s)
  BY <1>1 DEF IInv, SlotsMatchDir, Used, PathOf
<1>3. DirtySlots' = DirtySlots
  BY <1>2 DEF DirtySlots
<1>4. refused' \in SUBSET Files /\ refused \subseteq refused' /\ RefusedStaysBuffered'
  <2>1. \A s \in DirtySlots : s \in Slots /\ Used(s) /\ PathOf(s) \in Files
    BY PathType DEF DirtySlots, IInv
  <2> QED
    BY <1>2, <1>3, <2>1 DEF IInv, TypeOK, RefusedStaysBuffered
<1>5. TypeOK' /\ DirUnique' /\ FlagsFromKey'
  BY <1>1, <1>4 DEF IInv, TypeOK, DirUnique, FlagsFromKey
<1>6. SlotsMatchDir' /\ CleanIsDurable'
  BY <1>1, <1>2 DEF IInv, SlotsMatchDir, CleanIsDurable
<1>7. HandleHoldsFile'
  BY <1>1, <1>2 DEF HandleHoldsFile, ss_slot_find, PathOf
<1>8. CommitOnCloseDurable'
  <2>1. 0 \notin Slots
    BY DEF Slots
  <2> QED
    BY <1>2, <1>3, <1>4, <2>1 DEF IInv, CommitOnCloseDurable, DirtySlots
<1>9. DownIsEmpty'
  BY <1>2 DEF IInv, DownIsEmpty, ss_slot_find
<1> QED
  BY <1>4, <1>5, <1>6, <1>7, <1>8, <1>9 DEF IInv

(* A load writes a dirty victim s back and puts rec in its place: a free   *)
(* slot, or the record of a file no slot buffers.                          *)
LEMMA ReplaceSlotInv ==
  ASSUME IInv, NEW d \in DOMAIN fs_dir, fs_dir' = [fs_dir EXCEPT ![d].hits = BumpHits(@)],
         NEW s \in Slots, NEW rec \in Slot, ss_slot_find(d) = {}, ~rec.dirty,
         nvs' = Committed({s} \cap DirtySlots),
         refused' = RefusedAfter({s} \cap DirtySlots, {}),
         fs_slots' = [fs_slots EXCEPT ![s] = rec],
         \/ rec.buf = NULL /\ fp' = 0 /\ opened' = opened
         \/ /\ rec.buf = nvs[fs_dir[d].path] /\ rec.buf # NULL /\ rec.dir_idx = d
            /\ SizeOf[rec.buf] <= rec.b_size
            /\ fp' = s /\ opened' = fs_dir[d].path,
         fp = 0, UNCHANGED fs_is_initialized
  PROVE  IInv'
<1> DEFINE done == {s} \cap DirtySlots
<1>1. /\ fs_dir' \in Seq(DirEntry) /\ DOMAIN fs_dir' = DOMAIN fs_dir
      /\ \A i \in DOMAIN fs_dir : /\ fs_dir'[i].path = fs_dir[i].path
                                  /\ fs_dir'[i].commit = fs_dir[i].commit
  BY BumpFacts, Zenon DEF IInv
<1>2. /\ fs_slots' \in [Slots -> Slot] /\ fs_slots'[s] = rec
      /\ \A t \in Slots \ {s} : fs_slots'[t] = fs_slots[t]
  BY DEF IInv, TypeOK
<1>3. \A t \in Slots \ {s} : /\ Used(t)' <=> Used(t)
                             /\ Used(t) => PathOf(t)' = PathOf(t)
  BY <1>1, <1>2 DEF IInv, SlotsMatchDir, Used, PathOf
<1>4. DirtySlots' = DirtySlots \ {s}
  BY <1>2, <1>3 DEF DirtySlots
<1>5. /\ nvs' \in [Files -> Contents \cup {NULL}]
      /\ \A f \in Files : (\A t \in done : PathOf(t) # f) => nvs'[f] = nvs[f]
  <2>1. done \in SUBSET {t \in Slots : Used(t)}
    BY DEF DirtySlots
  <2> HIDE DEF done
  <2>2. nvs' = Committed(done)
    BY DEF done
  <2> QED
    BY <2>1, <2>2, CommittedValue, Zenon DEF IInv
<1>6. fs_dir[d].path \in Files
  <2>1. fs_dir[d] \in DirEntry
    BY ElementOfSeq DEF IInv, TypeOK
  <2> QED
    BY <2>1 DEF DirEntry
<1>7. Used(s)' => rec.dir_idx = d /\ PathOf(s)' = fs_dir[d].path /\ fp' = s
  BY <1>1, <1>2 DEF Used, PathOf
<1>8. \A t \in Slots : Used(t) => fs_slots[t].dir_idx # d /\ PathOf(t) # fs_dir[d].path
  BY DEF ss_slot_find, IInv, SlotsMatchDir, DirUnique, PathOf
<1>9. \A t \in Slots \ {s} : Used(t) => \A u \in done : PathOf(u) # PathOf(t)
  BY PathInjective DEF DirtySlots, IInv
<1>10. refused' = refused \ {PathOf(t) : t \in done} /\ refused' \in SUBSET Files
  BY DEF RefusedAfter, IInv, TypeOK
<1>11. TypeOK' /\ DirUnique' /\ FlagsFromKey'
  <2>1. fp' \in Slots \cup {0} /\ opened' \in Files \cup {NULL} /\ fs_is_initialized' \in BOOLEAN
    BY <1>6 DEF IInv, TypeOK
  <2>2. TypeOK'
    BY <1>1, <1>2, <1>5, <1>10, <2>1, Zenon DEF TypeOK
  <2> QED
    BY <1>1, <2>2 DEF IInv, DirUnique, FlagsFromKey
<1>12. SlotsMatchDir'
  <2>1. \A t \in Slots : Used(t)' => fs_slots'[t].dir_idx \in DOMAIN fs_dir'
    BY <1>1, <1>2, <1>3, <1>7 DEF IInv, SlotsMatchDir
  <2>2. \A t, u \in Slots : Used(t)' /\ Used(u)' /\ fs_slots'[t].dir_idx = fs_slots'[u].dir_idx
                              => t = u
    BY <1>2, <1>3, <1>7, <1>8 DEF IInv, SlotsMatchDir
  <2>3. \A t \in Slots : Used(t)' => SizeOf[fs_slots'[t].buf] <= fs_slots'[t].b_size
    BY <1>2, <1>3, <1>7 DEF IInv, SlotsMatchDir, Used
  <2> QED
    BY <2>1, <2>2, <2>3 DEF SlotsMatchDir
<1>13. CleanIsDurable'
  <2> SUFFICES ASSUME NEW t \in Slots, Used(t)', ~fs_slots'[t].dirty
               PROVE  fs_slots'[t].buf = nvs'[PathOf(t)']
    BY Zenon DEF CleanIsDurable
  <2>1. CASE t = s
    <3>1. nvs'[fs_dir[d].path] = nvs[fs_dir[d].path]
      BY <1>5, <1>6, <1>8 DEF DirtySlots
    <3> QED
      BY <1>2, <1>7, <2>1, <3>1 DEF Used
  <2>2. CASE t # s
    <3>1. Used(t) /\ PathOf(t) \in Files
      BY <1>3, <2>2, PathType DEF IInv
    <3>2. nvs'[PathOf(t)] = nvs[PathOf(t)]
      BY <1>5, <1>9, <2>2, <3>1, Zenon
    <3> QED
      BY <1>2, <1>3, <2>2, <3>1, <3>2 DEF IInv, CleanIsDurable
  <2> QED
    BY <2>1, <2>2
<1>14. RefusedStaysBuffered'
  <2> SUFFICES ASSUME NEW f \in refused' PROVE \E t \in DirtySlots' : PathOf(t)' = f
    BY Zenon DEF RefusedStaysBuffered
  <2>1. PICK t \in DirtySlots : PathOf(t) = f
    BY <1>10 DEF IInv, RefusedStaysBuffered
  <2>2. t # s
    BY <1>10, <2>1, Zenon
  <2> QED
    BY <1>3, <1>4, <2>1, <2>2 DEF DirtySlots
<1>15. CommitOnCloseDurable'
  <2> SUFFICES ASSUME NEW t \in DirtySlots', PathOf(t)' \in CommitFiles PROVE PathOf(t)' \in refused'
    BY Zenon DEF CommitOnCloseDurable
  <2>1. t \in DirtySlots /\ t \in Slots \ {s} /\ Used(t) /\ PathOf(t)' = PathOf(t)
    BY <1>3, <1>4 DEF DirtySlots
  <2>2. PathOf(t) \in refused
    <3>1. t # fp
      BY <2>1 DEF Slots
    <3> QED
      BY <2>1, <3>1 DEF IInv, CommitOnCloseDurable
  <2> QED
    BY <1>9, <1>10, <2>1, <2>2, Zenon
<1>16. HandleHoldsFile'
  <2>1. CASE rec.buf = NULL /\ fp' = 0 /\ opened' = opened
    BY <2>1 DEF IInv, HandleHoldsFile
  <2>2. CASE rec.buf # NULL /\ fp' = s /\ opened' = fs_dir[d].path
    <3>1. Used(s)' /\ s # 0 /\ fs_slots'[s].dir_idx \in DOMAIN fs_dir'
      BY <1>1, <1>2, <1>7, <2>2 DEF Used, Slots
    <3> QED
      BY <1>7, <2>2, <3>1 DEF HandleHoldsFile, Used, PathOf
  <2> QED
    BY <2>1, <2>2
<1>17. DownIsEmpty'
  <2>1. fs_is_initialized
    BY DEF IInv, DownIsEmpty
  <2> QED
    BY <2>1 DEF DownIsEmpty
<1> QED
  BY <1>11, <1>12, <1>13, <1>14, <1>15, <1>16, <1>17 DEF IInv

LEMMA OpenInv ==
  ASSUME IInv, NEW f \in Files, ss_fopen(f)
  PROVE  IInv'
<1>1. PICK d \in ss_dir_find(f) :
        /\ fp = 0
        /\ fs_dir' = [fs_dir EXCEPT ![d].hits = BumpHits(@)]
        /\ \/ \E s \in ss_slot_find(d) :
                 fp' = s /\ opened' = f /\ UNCHANGED <<nvs, fs_slots, refused>>
           \/ ss_slot_find(d) = {} /\ UNCHANGED <<nvs, fs_slots, fp, opened, refused>>
           \/ /\ ss_slot_find(d) = {} /\ nvs[f] # NULL
              /\ \E s \in ss_slot_acquire(SizeOf[nvs[f]]) : ss_load_to_slot(d, s)
        /\ UNCHANGED fs_is_initialized
  BY Zenon DEF ss_fopen
<1>2. d \in DOMAIN fs_dir /\ fs_dir[d].path = f
  BY DEF ss_dir_find
<1>3. opened \in Files \cup {NULL} /\ opened = NULL
  BY <1>1 DEF IInv, HandleHoldsFile
<1>4. CASE \E s \in ss_slot_find(d) :
             fp' = s /\ opened' = f /\ UNCHANGED <<nvs, fs_slots, refused>>
  <2>1. ss_slot_find(d) \subseteq Slots /\ 0 \notin Slots
    BY DEF ss_slot_find, Slots
  <2> QED
    BY <1>1, <1>2, <1>4, <2>1, QuietOpenInv, Zenon
<1>5. CASE ss_slot_find(d) = {} /\ UNCHANGED <<nvs, fs_slots, fp, opened, refused>>
  BY <1>1, <1>2, <1>3, <1>5, QuietOpenInv, Zenon
<1>6. CASE /\ ss_slot_find(d) = {} /\ nvs[f] # NULL
           /\ \E s \in ss_slot_acquire(SizeOf[nvs[f]]) : ss_load_to_slot(d, s)
  <2>1. PICK s \in ss_slot_acquire(SizeOf[nvs[f]]) : ss_load_to_slot(d, s)
    BY <1>6
  <2>2. s \in Slots
    BY DEF ss_slot_acquire, FewestHits
  <2> DEFINE evict == {s} \cap DirtySlots
             len   == SizeOf[nvs[f]]
             freed == [fs_slots[s] EXCEPT !.buf = NULL, !.b_size = 0, !.dirty = FALSE]
             size  == IF Used(s) /\ len <= fs_slots[s].b_size THEN fs_slots[s].b_size ELSE len
             rec   == [buf |-> nvs[f], dir_idx |-> d, b_size |-> size, dirty |-> FALSE]
  <2>3. CASE evict # {} /\ refused' = RefusedAfter({}, evict) /\ UNCHANGED <<nvs, fs_slots, fp, opened>>
    <3>1. s \in DirtySlots /\ refused' = refused \cup {PathOf(s)}
      BY <2>3 DEF RefusedAfter
    <3> QED
      BY <1>1, <1>2, <1>3, <2>3, <3>1, QuietOpenInv, Zenon
  <2>4. CASE /\ nvs' = Committed(evict) /\ refused' = RefusedAfter(evict, {})
             /\ fs_slots' = [fs_slots EXCEPT ![s].buf = NULL, ![s].b_size = 0, ![s].dirty = FALSE]
             /\ UNCHANGED <<fp, opened>>
    <3>1. freed \in Slot /\ freed.buf = NULL /\ ~freed.dirty
      <4>1. fs_slots[s] \in Slot
        BY <2>2 DEF IInv, TypeOK
      <4>2. 0 \in 0..BUF_LIMIT
        BY FsAssumption
      <4> QED
        BY <4>1, <4>2, Zenon DEF Slot
    <3>2. fs_slots' = [fs_slots EXCEPT ![s] = freed]
      BY <2>2, <2>4, Zenon DEF IInv, TypeOK
    <3> HIDE DEF freed
    <3> QED
      BY <1>1, <1>2, <1>6, <2>2, <2>4, <3>1, <3>2, ReplaceSlotInv, Zenon
  <2>5. CASE /\ nvs' = Committed(evict) /\ refused' = RefusedAfter(evict, {})
             /\ fs_slots' = [fs_slots EXCEPT ![s] = rec] /\ fp' = s /\ opened' = f
    <3>1. nvs[f] \in Contents /\ d \in Nat
      <4>1. nvs[f] \in Contents
        BY <1>6 DEF IInv, TypeOK
      <4>2. DOMAIN fs_dir = 1..Len(fs_dir) /\ Len(fs_dir) \in Nat
        BY LenProperties DEF IInv, TypeOK
      <4> QED
        BY <1>2, <4>1, <4>2
    <3>2. len \in 0..BUF_LIMIT /\ size \in 0..BUF_LIMIT /\ len <= size
      <4>1. len \in 0..BUF_LIMIT
        BY <3>1, FsAssumption
      <4>2. fs_slots[s].b_size \in 0..BUF_LIMIT
        BY <2>2 DEF IInv, TypeOK, Slot
      <4> HIDE DEF len
      <4> QED
        BY <4>1, <4>2
    <3>3. rec \in Slot
      <4> HIDE DEF size
      <4> QED
        BY <3>1, <3>2 DEF Slot
    <3>4. rec.buf = nvs[f] /\ rec.dir_idx = d /\ rec.b_size = size /\ ~rec.dirty
      OBVIOUS
    <3> HIDE DEF rec
    <3> QED
      BY <1>1, <1>2, <1>6, <2>2, <2>5, <3>2, <3>3, <3>4, ReplaceSlotInv, Zenon
  <2> QED
    BY <1>2, <2>1, <2>3, <2>4, <2>5 DEF ss_load_to_slot, WriteBack
<1> QED
  BY <1>1, <1>4, <1>5, <1>6

LEMMA RemoveInv ==
  ASSUME IInv, NEW f \in Files, ss_remove(f)
  PROVE  IInv'
<1> DEFINE last == Len(fs_dir)
<1>1. PICK d \in ss_dir_find(f), deleted \in BOOLEAN :
        /\ f # opened
        /\ nvs' = IF deleted THEN [nvs EXCEPT ![f] = NULL] ELSE nvs
        /\ fs_dir' = [i \in 1..(last - 1) |-> IF i = d THEN fs_dir[last] ELSE fs_dir[i]]
        /\ fs_slots' = [s \in Slots |->
                          IF s \in ss_slot_find(d) THEN FreeSlot
                          ELSE IF s \in ss_slot_find(last)
                                 THEN [fs_slots[s] EXCEPT !.dir_idx = d]
                                 ELSE fs_slots[s]]
        /\ refused' = refused \ {f}
        /\ UNCHANGED <<fs_is_initialized, fp, opened>>
  BY Zenon DEF ss_remove, CloseHole, DropAndRepoint
<1>2. /\ last \in Nat /\ DOMAIN fs_dir = 1..last /\ d \in 1..last /\ fs_dir[d].path = f
      /\ \A i \in 1..last : fs_dir[i] \in DirEntry
  <2>1. last \in Nat /\ DOMAIN fs_dir = 1..last
    BY LenProperties DEF IInv, TypeOK
  <2> QED
    BY <2>1, ElementOfSeq DEF IInv, TypeOK, ss_dir_find
<1> HIDE DEF last
<1>3. /\ DOMAIN fs_dir' = 1..(last - 1)
      /\ \A i \in 1..(last - 1) : fs_dir'[i] = fs_dir[IF i = d THEN last ELSE i]
      /\ fs_dir' \in Seq(DirEntry)
  <2>1. \A i \in 1..(last - 1) : (IF i = d THEN fs_dir[last] ELSE fs_dir[i]) \in DirEntry
    BY <1>2
  <2>2. last - 1 \in Nat
    BY <1>2
  <2> QED
    BY <1>1, <2>1, <2>2, IsASeq
(* the old index of each new entry *)
<1> DEFINE was(i) == IF i = d THEN last ELSE i
<1>4. \A i \in DOMAIN fs_dir' : /\ was(i) \in 1..last /\ was(i) # d
                                /\ fs_dir'[i] = fs_dir[was(i)]
  BY <1>2, <1>3
<1>5. \A i, j \in DOMAIN fs_dir' : was(i) = was(j) => i = j
  BY <1>2, <1>3
<1>6. DirUnique' /\ FlagsFromKey'
  BY <1>2, <1>4, <1>5 DEF IInv, DirUnique, FlagsFromKey
<1>7. fs_slots' \in [Slots -> Slot]
  <2>1. d \in Nat
    BY <1>2
  <2> QED
    BY <1>1, <2>1, FreeSlotType, Zenon DEF IInv, TypeOK, Slot
<1>8. TypeOK'
  <2>1. nvs' \in [Files -> Contents \cup {NULL}]
    BY <1>1, SMTT(30) DEF IInv, TypeOK
  <2> QED
    BY <1>1, <1>3, <1>7, <2>1 DEF IInv, TypeOK
(* a slot that survives keeps its content and its file *)
<1>9. ASSUME NEW s \in Slots
      PROVE  /\ Used(s)' <=> Used(s) /\ fs_slots[s].dir_idx # d
             /\ Used(s)' => /\ fs_slots'[s].dir_idx \in DOMAIN fs_dir'
                            /\ was(fs_slots'[s].dir_idx) = fs_slots[s].dir_idx
                            /\ fs_slots'[s].buf = fs_slots[s].buf
                            /\ fs_slots'[s].b_size = fs_slots[s].b_size
                            /\ fs_slots'[s].dirty = fs_slots[s].dirty
                            /\ PathOf(s)' = PathOf(s)
  <2>0. fs_slots[s] \in Slot
    BY DEF IInv, TypeOK
  <2>1. CASE s \in ss_slot_find(d)
    BY <1>1, <2>1, FreeSlotType DEF ss_slot_find, Used
  <2>2. CASE s \notin ss_slot_find(d) /\ ~Used(s)
    BY <1>1, <2>2 DEF ss_slot_find, Used
  <2>3. CASE s \notin ss_slot_find(d) /\ Used(s) /\ fs_slots[s].dir_idx = last
    <3>1. fs_slots'[s] = [fs_slots[s] EXCEPT !.dir_idx = d] /\ d # last
      BY <1>1, <2>3 DEF ss_slot_find, Used
    <3>2. /\ fs_slots'[s].dir_idx = d /\ fs_slots'[s].buf = fs_slots[s].buf
          /\ fs_slots'[s].b_size = fs_slots[s].b_size /\ fs_slots'[s].dirty = fs_slots[s].dirty
      BY <2>0, <3>1 DEF Slot
    <3>3. d \in DOMAIN fs_dir'
      BY <1>2, <1>3, <3>1
    <3>4. PathOf(s)' = PathOf(s)
      BY <1>4, <2>3, <3>2, <3>3 DEF PathOf
    <3> QED
      BY <2>3, <3>1, <3>2, <3>3, <3>4 DEF Used
  <2>4. CASE s \notin ss_slot_find(d) /\ Used(s) /\ fs_slots[s].dir_idx # last
    <3>1. fs_slots'[s] = fs_slots[s]
      BY <1>1, <2>4 DEF ss_slot_find, Used
    <3>2. fs_slots[s].dir_idx # d /\ fs_slots[s].dir_idx \in 1..last
      BY <1>2, <2>4 DEF ss_slot_find, IInv, SlotsMatchDir
    <3>3. fs_slots[s].dir_idx \in DOMAIN fs_dir'
      BY <1>2, <1>3, <2>4, <3>2
    <3>4. PathOf(s)' = PathOf(s)
      BY <1>4, <3>1, <3>2, <3>3 DEF PathOf
    <3> QED
      BY <2>4, <3>1, <3>2, <3>3, <3>4 DEF Used
  <2> QED
    BY <2>1, <2>2, <2>3, <2>4
(* it is not the removed file *)
<1>10. \A s \in Slots : Used(s) => (fs_slots[s].dir_idx # d <=> PathOf(s) # f)
  BY <1>2 DEF IInv, SlotsMatchDir, DirUnique, PathOf
<1>11. DirtySlots' = {s \in DirtySlots : PathOf(s) # f}
  BY <1>9, <1>10 DEF DirtySlots
<1> HIDE DEF was
<1>12. SlotsMatchDir'
  <2>1. \A s, t \in Slots :
          Used(s)' /\ Used(t)' /\ fs_slots'[s].dir_idx = fs_slots'[t].dir_idx => s = t
    BY <1>9 DEF IInv, SlotsMatchDir
  <2>2. \A s \in Slots : Used(s)' => /\ fs_slots'[s].dir_idx \in DOMAIN fs_dir'
                                    /\ SizeOf[fs_slots'[s].buf] <= fs_slots'[s].b_size
    BY <1>9 DEF IInv, SlotsMatchDir
  <2> QED
    BY <2>1, <2>2, SMTT(30) DEF SlotsMatchDir
<1>13. CleanIsDurable'
  <2> SUFFICES ASSUME NEW s \in Slots, Used(s)', ~fs_slots'[s].dirty
               PROVE  fs_slots'[s].buf = nvs'[PathOf(s)']
    BY DEF CleanIsDurable
  <2>1. Used(s) /\ PathOf(s) # f /\ PathOf(s) \in Files
    BY <1>9, <1>10, PathType DEF IInv
  <2>2. nvs'[PathOf(s)] = nvs[PathOf(s)]
    BY <1>1, <2>1 DEF IInv, TypeOK
  <2> QED
    BY <1>9, <2>1, <2>2 DEF IInv, CleanIsDurable
<1>14. HandleHoldsFile'
  <2>1. CASE fp = 0
    BY <1>1, <2>1 DEF IInv, HandleHoldsFile
  <2>2. CASE fp # 0
    <3>1. PICK s \in Slots : s = fp /\ Used(s) /\ PathOf(s) = opened
      BY <2>2 DEF IInv, TypeOK, HandleHoldsFile
    <3>2. fs_slots[s].dir_idx # d
      BY <1>1, <1>10, <3>1
    <3>3. Used(s)' /\ fs_slots'[s].dir_idx \in DOMAIN fs_dir' /\ PathOf(s)' = opened
      BY <1>9, <3>1, <3>2
    <3> QED
      BY <1>1, <2>2, <3>1, <3>3 DEF HandleHoldsFile, Used, PathOf
  <2> QED
    BY <2>1, <2>2
<1>15. RefusedStaysBuffered' /\ CommitOnCloseDurable'
  <2>1. \A s \in DirtySlots' : s \in DirtySlots /\ PathOf(s) # f /\ PathOf(s)' = PathOf(s)
    BY <1>9, <1>11 DEF DirtySlots
  <2>2. \A s \in DirtySlots : PathOf(s) # f => s \in DirtySlots'
    BY <1>11
  <2> QED
    BY <1>1, <2>1, <2>2 DEF IInv, RefusedStaysBuffered, CommitOnCloseDurable
<1>16. DownIsEmpty'
  <2>1. fs_is_initialized
    BY <1>2 DEF IInv, DownIsEmpty
  <2> QED
    BY <1>1, <2>1 DEF DownIsEmpty
<1> QED
  BY <1>6, <1>8, <1>12, <1>13, <1>14, <1>15, <1>16 DEF IInv

-----------------------------------------------------------------------------
LEMMA NextInv == IInv /\ [Next]_vars => IInv'
<1> SUFFICES ASSUME IInv, [Next]_vars PROVE IInv'
  BY SMTT(30)
<1>1. CASE UNCHANGED vars
  BY <1>1 DEF vars, IInv, TypeOK, DirUnique, SlotsMatchDir, CleanIsDurable, HandleHoldsFile,
     DownIsEmpty, FlagsFromKey, RefusedStaysBuffered, CommitOnCloseDurable, DirtySlots, Used, PathOf
<1>2. CASE Next
  BY <1>2, InitFsInv, CommitInv, DeinitInv, OpenInv, RemoveInv, FwriteInv, FputcInv, CloseInv,
     PowerLossInv DEF Next
<1> QED
  BY <1>1, <1>2

(* Over every sequence of filesystem calls, refused NVS writes and power   *)
(* losses, for any number of files and slots, the cache and the directory  *)
(* table stay consistent in the sense of IInv.                             *)
THEOREM Invariance == Spec => []IInv
BY InitInv, NextInv, PTL DEF Spec

(* The variables keep their types: hit counters saturate, indices stay in  *)
(* the table, buffers within the limit.                                    *)
THEOREM TypeCorrect == Spec => []TypeOK
<1>1. IInv => TypeOK
  BY DEF IInv
<1> QED
  BY <1>1, Invariance, PTL

(* Every buffer belongs to exactly one file, also after a removal moved    *)
(* the last directory entry (ss_remove) or an eviction reused a slot.      *)
THEOREM TablesConsistent == Spec => [](DirUnique /\ SlotsMatchDir)
<1>1. IInv => DirUnique /\ SlotsMatchDir
  BY DEF IInv
<1> QED
  BY <1>1, Invariance, PTL

(* A slot that is not dirty holds what NVS holds, so that dropping it, as  *)
(* an eviction does, loses nothing.                                        *)
THEOREM CleanSlotsDurable == Spec => []CleanIsDurable
<1>1. IInv => CleanIsDurable
  BY DEF IInv
<1> QED
  BY <1>1, Invariance, PTL

(* An open handle keeps referring to the file it was opened for.           *)
THEOREM HandleSafe == Spec => []HandleHoldsFile
<1>1. IInv => HandleHoldsFile
  BY DEF IInv
<1> QED
  BY <1>1, Invariance, PTL

(* A closed commit-on-close file is in NVS unless NVS refused it.          *)
THEOREM CloseDurable == Spec => []CommitOnCloseDurable
<1>1. IInv => CommitOnCloseDurable
  BY DEF IInv
<1> QED
  BY <1>1, Invariance, PTL

(* What NVS refused to commit_slot is still buffered and dirty, whatever   *)
(* is opened, evicted or removed since.                                    *)
THEOREM RefusedKept == Spec => []RefusedStaysBuffered
<1>1. IInv => RefusedStaysBuffered
  BY DEF IInv
<1> QED
  BY <1>1, Invariance, PTL
=============================================================================
