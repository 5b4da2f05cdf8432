-------------------------- MODULE SoftSimFsRefines --------------------------
(***************************************************************************)
(* SoftSimFs implements FileStore: the cache is transparent.  The mapping  *)
(* is View, what a read of each file would return.                         *)
(***************************************************************************)
EXTENDS SoftSimFsProofs

(* What View is, by the three places a file can be in.                     *)
ViewSpec ==
  /\ View \in [Files -> Contents \cup {NULL}]
  /\ ~fs_is_initialized => View = nvs
  /\ fs_is_initialized =>
       /\ \A s \in Slots : Used(s) => View[PathOf(s)] = fs_slots[s].buf
       /\ \A f \in Files : (\A d \in DOMAIN fs_dir : fs_dir[d].path # f) => View[f] = NULL
       /\ \A d \in DOMAIN fs_dir :
            (\A s \in Slots : Used(s) => PathOf(s) # fs_dir[d].path)
              => View[fs_dir[d].path] = nvs[fs_dir[d].path]

LEMMA ViewFacts == IInv => ViewSpec
<1> SUFFICES ASSUME IInv PROVE ViewSpec
  OBVIOUS
<1>0. TypeOK /\ DirUnique /\ SlotsMatchDir
  BY DEF IInv
<1>1. ~fs_is_initialized => View = nvs
  BY <1>0 DEF View, TypeOK
<1>2. ASSUME NEW s \in Slots, Used(s), fs_is_initialized
      PROVE  View[PathOf(s)] = fs_slots[s].buf
  <2> DEFINE f == PathOf(s)
             c == CHOOSE t \in Slots : Used(t) /\ PathOf(t) = f
  <2>1. c \in Slots /\ Used(c) /\ PathOf(c) = f
    BY <1>2
  <2>2. c = s
    BY <1>0, <1>2, <2>1, PathInjective
  <2>3. f \in Files /\ ss_dir_find(f) # {}
    BY <1>0, <1>2, PathType DEF ss_dir_find, PathOf
  <2> QED
    BY <1>2, <2>2, <2>3, Zenon DEF View
<1>3. ASSUME NEW f \in Files, \A d \in DOMAIN fs_dir : fs_dir[d].path # f, fs_is_initialized
      PROVE  View[f] = NULL
  BY <1>3 DEF View, ss_dir_find
<1>4. ASSUME NEW d \in DOMAIN fs_dir, fs_is_initialized,
             \A s \in Slots : Used(s) => PathOf(s) # fs_dir[d].path
      PROVE  View[fs_dir[d].path] = nvs[fs_dir[d].path]
  <2>1. fs_dir[d] \in DirEntry
    BY <1>0, ElementOfSeq DEF TypeOK
  <2>2. fs_dir[d].path \in Files
    BY <2>1 DEF DirEntry
  <2>3. d \in ss_dir_find(fs_dir[d].path)
    BY DEF ss_dir_find
  <2> QED
    BY <1>4, <2>2, <2>3 DEF View
<1>5. ASSUME NEW f \in Files
      PROVE  View[f] \in Contents \cup {NULL}
  <2>1. CASE ~fs_is_initialized
    BY <1>0, <1>1, <2>1 DEF TypeOK
  <2>2. CASE fs_is_initialized /\ \E s \in Slots : Used(s) /\ PathOf(s) = f
    BY <1>0, <1>2, <2>2, PathType
  <2>3. CASE fs_is_initialized /\ \A s \in Slots : Used(s) => PathOf(s) # f
    <3>1. CASE \E d \in DOMAIN fs_dir : fs_dir[d].path = f
      BY <1>0, <1>4, <2>3, <3>1 DEF TypeOK
    <3>2. CASE \A d \in DOMAIN fs_dir : fs_dir[d].path # f
      BY <1>3, <2>3, <3>2
    <3> QED
      BY <3>1, <3>2
  <2> QED
    BY <2>1, <2>2, <2>3
<1>6. View = [f \in Files |-> View[f]]
  BY DEF View
<1>7. View \in [Files -> Contents \cup {NULL}]
  BY <1>5, <1>6
<1> QED
  BY <1>1, <1>2, <1>3, <1>4, <1>7 DEF ViewSpec

LEMMA ViewFactsPrime == IInv' => ViewSpec'
BY ViewFacts, PTL

(* The view stays when every buffer of the new state holds what was seen   *)
(* of its file, and NVS what was seen of every other file of the table.    *)
LEMMA SameView ==
  ASSUME IInv, IInv', fs_is_initialized, fs_is_initialized',
         DOMAIN fs_dir' = DOMAIN fs_dir,
         \A d \in DOMAIN fs_dir : fs_dir'[d].path = fs_dir[d].path,
         \A s \in Slots : Used(s)' => View[PathOf(s)'] = fs_slots'[s].buf,
         \A d \in DOMAIN fs_dir :
            (\A s \in Slots : Used(s)' => PathOf(s)' # fs_dir[d].path)
              => nvs'[fs_dir[d].path] = View[fs_dir[d].path]
  PROVE  View' = View
<1>1. ViewSpec /\ ViewSpec'
  BY ViewFacts, ViewFactsPrime
<1>2. ASSUME NEW f \in Files PROVE View'[f] = View[f]
  <2>1. CASE \E s \in Slots : Used(s)' /\ PathOf(s)' = f
    BY <1>1, <2>1 DEF ViewSpec
  <2>2. CASE \A d \in DOMAIN fs_dir : fs_dir[d].path # f
    BY <1>1, <2>2 DEF ViewSpec
  <2>3. CASE /\ \A s \in Slots : Used(s)' => PathOf(s)' # f
             /\ \E d \in DOMAIN fs_dir : fs_dir[d].path = f
    <3>1. PICK d \in DOMAIN fs_dir : fs_dir[d].path = f
      BY <2>3
    <3>2. View'[f] = nvs'[f]
      BY <1>1, <2>3, <3>1 DEF ViewSpec
    <3> QED
      BY <2>3, <3>1, <3>2
  <2> QED
    BY <2>1, <2>2, <2>3
<1> QED
  BY <1>1, <1>2 DEF ViewSpec

(* The files of a set of slots.                                            *)
FilesOf(done) == {PathOf(s) : s \in done}

(* Writing dirty slots to NVS puts what is seen of their files in flash.   *)
LEMMA FlushStep ==
  ASSUME IInv, fs_is_initialized,
         NEW done \in SUBSET DirtySlots, nvs' = Committed(done)
  PROVE  FilesOf(done) \in SUBSET Files /\ Store!Flushed(FilesOf(done))
<1> DEFINE S == FilesOf(done)
<1>1. TypeOK /\ DirUnique /\ SlotsMatchDir /\ done \in SUBSET {s \in Slots : Used(s)}
  BY DEF IInv, DirtySlots
<1>2. \A s \in done : /\ PathOf(s) \in Files /\ fs_slots[s].buf # NULL
                      /\ View[PathOf(s)] = fs_slots[s].buf /\ nvs'[PathOf(s)] = fs_slots[s].buf
  <2>1. \A s \in done : s \in Slots /\ Used(s) /\ PathOf(s) \in Files
    BY <1>1, PathType
  <2>2. \A s \in done : View[PathOf(s)] = fs_slots[s].buf
    BY <2>1, ViewFacts DEF ViewSpec
  <2>3. \A s \in done : nvs'[PathOf(s)] = fs_slots[s].buf
    BY <1>1, CommittedValue
  <2> QED
    BY <2>1, <2>2, <2>3 DEF Used
<1>3. nvs' = [f \in Files |-> IF f \in S THEN View[f] ELSE nvs[f]]
  <2>1. \A f \in Files : f \notin S => nvs'[f] = nvs[f]
    BY <1>1, CommittedValue DEF FilesOf
  <2>2. nvs' \in [Files -> Contents \cup {NULL}]
    BY <1>1, CommittedValue
  <2> QED
    BY <1>2, <2>1, <2>2 DEF FilesOf
<1>4. S \in SUBSET Files /\ \A f \in S : View[f] # NULL
  BY <1>2 DEF FilesOf
<1> HIDE DEF S
<1>5. Store!Flushed(S)
  BY <1>3, <1>4 DEF Store!Flushed
<1> QED
  BY <1>4, <1>5 DEF S

-----------------------------------------------------------------------------
(* One lemma per action: it is a step of the store, or a stutter.          *)

LEMMA InitFsStep ==
  ASSUME IInv, IInv', ss_init_fs
  PROVE  Store!Next
<1>1. ~fs_is_initialized /\ fs_is_initialized' /\ nvs' = nvs /\ View = nvs
  BY ViewFacts DEF ss_init_fs, ViewSpec
<1>2. ViewSpec'
  BY ViewFactsPrime
<1>3. \A s \in Slots : ~Used(s)'
  BY DEF ss_init_fs, Used, FreeSlot
<1>4. ASSUME NEW f \in Files PROVE View'[f] = nvs[f]
  <2>1. PICK d \in 1..Len(DirBlob) : DirBlob[d] = f
    BY FsAssumption
  <2>2. d \in DOMAIN fs_dir' /\ fs_dir'[d].path = f
    BY <2>1 DEF ss_init_fs
  <2> QED
    BY <1>1, <1>2, <1>3, <2>2 DEF ViewSpec
<1>5. View' = View
  BY <1>1, <1>2, <1>4, ViewFacts DEF ViewSpec
<1>6. Store!Mount
  BY <1>1, <1>5 DEF Store!Mount, ss_init_fs
<1> QED
  BY <1>6 DEF Store!Next

(* Slots only become clean: the view stays.                                *)
LEMMA CommitStepView ==
  ASSUME IInv, IInv', fs_is_initialized, fs_is_initialized',
         NEW done \in SUBSET DirtySlots, nvs' = Committed(done),
         fs_slots' = Cleaned(done), fs_dir' = fs_dir
  PROVE  View' = View /\ FilesOf(done) \in SUBSET Files /\ Store!Flushed(FilesOf(done))
<1>1. TypeOK /\ DirUnique /\ SlotsMatchDir /\ ViewSpec
      /\ done \in SUBSET {s \in Slots : Used(s)} /\ done \in SUBSET Slots
  BY ViewFacts DEF IInv, DirtySlots
<1>2. \A s \in Slots : (Used(s)' <=> Used(s)) /\ PathOf(s)' = PathOf(s)
                       /\ fs_slots'[s].buf = fs_slots[s].buf
  BY <1>1, CleanedValue DEF Used, PathOf
<1>3. \A s \in Slots : Used(s)' => View[PathOf(s)'] = fs_slots'[s].buf
  BY <1>1, <1>2 DEF ViewSpec
<1>4. ASSUME NEW d \in DOMAIN fs_dir, \A s \in Slots : Used(s)' => PathOf(s)' # fs_dir[d].path
      PROVE  nvs'[fs_dir[d].path] = View[fs_dir[d].path]
  <2>1. \A s \in Slots : Used(s) => PathOf(s) # fs_dir[d].path
    BY <1>2, <1>4
  <2>2. fs_dir[d].path \in Files
    <3>1. fs_dir[d] \in DirEntry
      BY <1>1, ElementOfSeq DEF TypeOK
    <3> QED
      BY <3>1 DEF DirEntry
  <2>3. nvs'[fs_dir[d].path] = nvs[fs_dir[d].path]
    BY <1>1, <2>1, <2>2, CommittedValue
  <2> QED
    BY <1>1, <2>1, <2>3 DEF ViewSpec
<1>5. View' = View
  BY <1>3, <1>4, SameView
<1> QED
  BY <1>5, FlushStep

LEMMA CommitStepMaps ==
  ASSUME IInv, IInv', port_commit_fs
  PROVE  Store!Next
<1>1. PICK failed \in SUBSET DirtySlots :
        /\ fs_is_initialized /\ UNCHANGED <<fs_dir, fs_is_initialized, opened>>
        /\ nvs' = Committed(DirtySlots \ failed) /\ fs_slots' = Cleaned(DirtySlots \ failed)
  BY Zenon DEF port_commit_fs
<1>2. PICK S \in SUBSET Files : View' = View /\ Store!Flushed(S)
  BY <1>1, CommitStepView
<1>3. Store!Flush(S)
  BY <1>1, <1>2 DEF Store!Flush
<1> QED
  BY <1>3 DEF Store!Next

LEMMA CloseStepMaps ==
  ASSUME IInv, IInv', ss_fclose
  PROVE  Store!Next
<1> DEFINE due == IF fs_dir[fs_slots[fp].dir_idx].commit THEN {fp} \cap DirtySlots ELSE {}
<1>1. PICK failed \in SUBSET due :
        nvs' = Committed(due \ failed) /\ fs_slots' = Cleaned(due \ failed)
  BY Zenon DEF ss_fclose, DueOnClose
<1>2. due \ failed \in SUBSET DirtySlots
  OBVIOUS
<1>3. fs_is_initialized /\ fs_is_initialized' /\ fs_dir' = fs_dir /\ opened' = NULL
  BY DEF ss_fclose, IInv, DownIsEmpty
(* the slot that is written is that of the open file *)
<1>4. opened \in Files /\ PathOf(fp) = opened
  <2>1. PICK s \in Slots : s = fp /\ Used(s) /\ PathOf(s) = opened
    BY DEF ss_fclose, IInv, TypeOK, HandleHoldsFile
  <2> QED
    BY <2>1, PathType DEF IInv
<1>5. FilesOf(due \ failed) \subseteq {opened}
  BY <1>4 DEF FilesOf
<1> HIDE DEF due
<1>6. /\ View' = View /\ FilesOf(due \ failed) \in SUBSET Files
      /\ Store!Flushed(FilesOf(due \ failed))
  BY <1>1, <1>2, <1>3, CommitStepView
<1>7. Store!Close(FilesOf(due \ failed))
  BY <1>3, <1>4, <1>5, <1>6, FsAssumption, Zenon DEF Store!Close
<1> QED
  BY <1>6, <1>7 DEF Store!Next

LEMMA DeinitStepMaps ==
  ASSUME IInv, IInv', ss_deinit_fs
  PROVE  Store!Next
<1>1. PICK failed \in SUBSET DirtySlots :
        /\ fs_is_initialized
        /\ nvs' = Committed(DirtySlots \ failed)
        /\ \/ /\ failed # {} /\ fs_slots' = Cleaned(DirtySlots \ failed)
              /\ UNCHANGED <<fs_dir, fs_is_initialized>>
           \/ failed = {} /\ fs_is_initialized' = FALSE
        /\ opened = NULL /\ opened' = NULL
  BY Zenon DEF ss_deinit_fs, IInv, HandleHoldsFile
<1>2. CASE failed # {}
  <2>1. PICK S \in SUBSET Files : View' = View /\ Store!Flushed(S)
    BY <1>1, <1>2, CommitStepView, Zenon
  <2>2. Store!Flush(S)
    BY <1>1, <1>2, <2>1, Zenon DEF Store!Flush
  <2> QED
    BY <2>2 DEF Store!Next
<1>3. CASE failed = {}
  <2>1. nvs' = Committed(DirtySlots) /\ ~fs_is_initialized'
    BY <1>1, <1>3
  <2>2. TypeOK /\ DirUnique /\ SlotsMatchDir /\ CleanIsDurable /\ ViewSpec
        /\ DirtySlots \in SUBSET {s \in Slots : Used(s)}
    BY ViewFacts DEF IInv, DirtySlots
  <2>3. /\ \A s \in DirtySlots : nvs'[PathOf(s)] = fs_slots[s].buf
        /\ \A f \in Files : (\A s \in DirtySlots : PathOf(s) # f) => nvs'[f] = nvs[f]
        /\ nvs' \in [Files -> Contents \cup {NULL}]
    BY <2>1, <2>2, CommittedValue
  <2>4. ASSUME NEW f \in Files
        PROVE  nvs'[f] = IF View[f] # NULL THEN View[f] ELSE nvs[f]
    <3>1. CASE \E s \in Slots : Used(s) /\ PathOf(s) = f
      <4>1. PICK s \in Slots : Used(s) /\ PathOf(s) = f
        BY <3>1
      <4>2. View[f] = fs_slots[s].buf /\ View[f] # NULL
        BY <1>1, <2>2, <4>1 DEF ViewSpec, Used
      <4>3. CASE fs_slots[s].dirty
        BY <2>3, <4>1, <4>2, <4>3 DEF DirtySlots
      <4>4. CASE ~fs_slots[s].dirty
        <5>1. \A t \in DirtySlots : PathOf(t) # f
          BY <2>2, <4>1, <4>4, PathInjective DEF DirtySlots
        <5>2. fs_slots[s].buf = nvs[f]
          BY <2>2, <4>1, <4>4 DEF CleanIsDurable
        <5> QED
          BY <2>3, <4>2, <5>1, <5>2
      <4> QED
        BY <4>3, <4>4
    <3>2. CASE \A s \in Slots : Used(s) => PathOf(s) # f
      <4>1. nvs'[f] = nvs[f]
        BY <2>3, <3>2 DEF DirtySlots
      <4>2. View[f] = nvs[f] \/ View[f] = NULL
        BY <1>1, <2>2, <3>2 DEF ViewSpec
      <4> QED
        BY <4>1, <4>2
    <3> QED
      BY <3>1, <3>2
  <2>5. nvs' = [f \in Files |-> IF View[f] # NULL THEN View[f] ELSE nvs[f]]
    BY <2>3, <2>4
  <2>6. View' = nvs'
    BY <2>1, ViewFactsPrime DEF ViewSpec
  <2>7. Store!Unmount
    BY <1>1, <1>3, <2>5, <2>6 DEF Store!Unmount
  <2> QED
    BY <2>7 DEF Store!Next
<1> QED
  BY <1>2, <1>3

(* A write through the handle changes the view of the open file only.      *)
LEMMA WriteStepMaps ==
  ASSUME IInv, IInv', NEW c \in Contents, fp # 0, fs_slots'[fp].buf = c,
         \A s \in Slots : s # fp => fs_slots'[s] = fs_slots[s],
         fs_slots'[fp].dir_idx = fs_slots[fp].dir_idx,
         UNCHANGED <<nvs, fs_dir, fs_is_initialized, opened>>
  PROVE  Store!Next
<1>1. fp \in Slots /\ Used(fp) /\ fs_is_initialized /\ fs_is_initialized'
  BY DEF IInv, TypeOK, HandleHoldsFile, DownIsEmpty
<1>2. PICK s \in Slots : s = fp
  BY <1>1
<1> DEFINE f == PathOf(s)
<1>3. /\ ViewSpec /\ ViewSpec' /\ f \in Files /\ TypeOK /\ DirUnique /\ SlotsMatchDir
      /\ f = opened
  BY <1>1, <1>2, ViewFacts, ViewFactsPrime, PathType DEF IInv, HandleHoldsFile
<1>4. /\ \A t \in Slots : (Used(t)' <=> Used(t)) /\ PathOf(t)' = PathOf(t)
      /\ \A t \in Slots \ {s} : fs_slots'[t].buf = fs_slots[t].buf
      /\ fs_slots'[s].buf = c
  <2>1. \A t \in Slots : fs_slots'[t].dir_idx = fs_slots[t].dir_idx
    BY <1>2
  <2>2. /\ \A t \in Slots \ {s} : fs_slots'[t].buf = fs_slots[t].buf
        /\ fs_slots'[s].buf = c /\ c # NULL
    BY <1>2, FsAssumption
  <2>3. \A t \in Slots : Used(t)' <=> Used(t)
    BY <1>1, <1>2, <2>2 DEF Used
  <2>4. \A t \in Slots : PathOf(t)' = PathOf(t)
    BY <2>1 DEF PathOf
  <2> QED
    BY <2>2, <2>3, <2>4
<1>5. View[f] # NULL /\ View'[f] = c
  <2>1. View[f] # NULL
    BY <1>1, <1>2, <1>3 DEF ViewSpec, Used
  <2>2. View'[f] = c
    BY <1>1, <1>2, <1>3, <1>4 DEF ViewSpec
  <2> QED
    BY <2>1, <2>2
<1> HIDE DEF f
<1>6. ASSUME NEW g \in Files, g # f PROVE View'[g] = View[g]
  <2>1. CASE \E t \in Slots : Used(t) /\ PathOf(t) = g
    <3>1. PICK t \in Slots : Used(t) /\ PathOf(t) = g
      BY <2>1
    <3>2. t # s
      BY <1>6, <3>1 DEF f
    <3> QED
      BY <1>1, <1>3, <1>4, <3>1, <3>2 DEF ViewSpec
  <2>2. CASE \A d \in DOMAIN fs_dir : fs_dir[d].path # g
    BY <1>1, <1>3, <2>2 DEF ViewSpec
  <2>3. CASE /\ \A t \in Slots : Used(t) => PathOf(t) # g
             /\ \E d \in DOMAIN fs_dir : fs_dir[d].path = g
    BY <1>1, <1>3, <1>4, <2>3 DEF ViewSpec
  <2> QED
    BY <2>1, <2>2, <2>3
<1>7. View' = [View EXCEPT ![f] = c]
  BY <1>3, <1>5, <1>6 DEF ViewSpec
<1>8. Store!Write(c)
  BY <1>1, <1>3, <1>7, FsAssumption DEF Store!Write
<1> QED
  BY <1>8 DEF Store!Next

LEMMA FwriteStepMaps ==
  ASSUME IInv, IInv', NEW c \in Contents, ss_fwrite(c)
  PROVE  Store!Next
<1>1. PICK size \in fs_slots[fp].b_size..BUF_LIMIT, dirty \in BOOLEAN :
        fs_slots' = [fs_slots EXCEPT ![fp].buf = c, ![fp].b_size = size, ![fp].dirty = dirty]
  BY Zenon DEF ss_fwrite
<1>2. fp # 0 /\ fp \in Slots /\ UNCHANGED <<nvs, fs_dir, fs_is_initialized, opened>>
  BY DEF ss_fwrite, IInv, TypeOK
<1>3. /\ fs_slots'[fp].buf = c /\ fs_slots'[fp].dir_idx = fs_slots[fp].dir_idx
      /\ \A s \in Slots : s # fp => fs_slots'[s] = fs_slots[s]
  BY <1>1, <1>2 DEF IInv, TypeOK, Slot
<1> QED
  BY <1>2, <1>3, WriteStepMaps, SMTT(30)

LEMMA FputcStepMaps ==
  ASSUME IInv, IInv', NEW c \in Contents, ss_fputc(c)
  PROVE  Store!Next
<1> DEFINE old  == fs_slots[fp].b_size
           size == IF SizeOf[c] > old THEN old + FPUTC_GROWTH ELSE old
<1>1. fs_slots' = [fs_slots EXCEPT ![fp].buf = c, ![fp].b_size = size, ![fp].dirty = TRUE]
  BY DEF ss_fputc
<1>2. fp # 0 /\ fp \in Slots /\ UNCHANGED <<nvs, fs_dir, fs_is_initialized, opened>>
  BY DEF ss_fputc, IInv, TypeOK
<1> HIDE DEF size
<1>3. /\ fs_slots'[fp].buf = c /\ fs_slots'[fp].dir_idx = fs_slots[fp].dir_idx
      /\ \A s \in Slots : s # fp => fs_slots'[s] = fs_slots[s]
  BY <1>1, <1>2 DEF IInv, TypeOK, Slot
<1> QED
  BY <1>2, <1>3, WriteStepMaps

LEMMA PowerLossStepMaps ==
  ASSUME IInv, IInv', PowerLoss
  PROVE  Store!Next
<1>1. fs_is_initialized /\ fs_is_initialized' = FALSE /\ nvs' = nvs /\ opened' = NULL
  BY DEF PowerLoss
<1>2. View' = nvs'
  BY <1>1, ViewFactsPrime DEF ViewSpec
<1>3. Store!PowerLoss
  BY <1>1, <1>2 DEF Store!PowerLoss
<1> QED
  BY <1>3 DEF Store!Next

LEMMA RemoveStepMaps ==
  ASSUME IInv, IInv', NEW f \in Files, ss_remove(f)
  PROVE  Store!Next
<1> DEFINE last == Len(fs_dir)
<1>1. PICK d \in ss_dir_find(f), deleted \in BOOLEAN :
        /\ nvs' = IF deleted THEN [nvs EXCEPT ![f] = NULL] ELSE nvs
        /\ fs_dir' = [i \in 1..(last - 1) |-> IF i = d THEN fs_dir[last] ELSE fs_dir[i]]
        /\ fs_slots' = [s \in Slots |->
                          IF s \in ss_slot_find(d) THEN FreeSlot
                          ELSE IF s \in ss_slot_find(last)
                                 THEN [fs_slots[s] EXCEPT !.dir_idx = d]
                                 ELSE fs_slots[s]]
        /\ f # opened /\ UNCHANGED <<fs_is_initialized, opened>>
  BY Zenon DEF ss_remove, CloseHole, DropAndRepoint
<1>2. /\ last \in Nat /\ DOMAIN fs_dir = 1..last /\ d \in 1..last /\ fs_dir[d].path = f
      /\ fs_is_initialized /\ fs_is_initialized'
  <2>1. last \in Nat /\ DOMAIN fs_dir = 1..last
    BY LenProperties DEF IInv, TypeOK
  <2> QED
    BY <1>1, <2>1 DEF ss_dir_find, IInv, DownIsEmpty
<1> HIDE DEF last
<1>3. ViewSpec /\ ViewSpec' /\ TypeOK /\ DirUnique /\ SlotsMatchDir
  BY ViewFacts, ViewFactsPrime DEF IInv
<1>4. DOMAIN fs_dir' = 1..(last - 1)
      /\ \A i \in 1..(last - 1) : fs_dir'[i] = fs_dir[IF i = d THEN last ELSE i]
  BY <1>1
(* the table still names every other file, and no longer f *)
<1>5. /\ \A i \in DOMAIN fs_dir' : fs_dir'[i].path # f
      /\ \A j \in 1..last : j # d => \E i \in DOMAIN fs_dir' : fs_dir'[i].path = fs_dir[j].path
      /\ \A i \in DOMAIN fs_dir' : \E j \in 1..last : fs_dir'[i].path = fs_dir[j].path
  <2>1. ASSUME NEW i \in DOMAIN fs_dir' PROVE fs_dir'[i].path # f
    <3>1. (IF i = d THEN last ELSE i) \in 1..last /\ (IF i = d THEN last ELSE i) # d
      BY <1>2, <1>4
    <3> QED
      BY <1>2, <1>3, <1>4, <3>1 DEF DirUnique
  <2>2. ASSUME NEW j \in 1..last, j # d
        PROVE  \E i \in DOMAIN fs_dir' : fs_dir'[i].path = fs_dir[j].path
    <3>1. CASE j = last
      <4>1. d \in DOMAIN fs_dir' /\ fs_dir'[d] = fs_dir[j]
        BY <1>2, <1>4, <2>2, <3>1
      <4> QED
        BY <4>1
    <3>2. CASE j # last
      <4>1. j \in DOMAIN fs_dir' /\ fs_dir'[j] = fs_dir[j]
        BY <1>2, <1>4, <2>2, <3>2
      <4> QED
        BY <4>1
    <3> QED
      BY <3>1, <3>2
  <2>3. ASSUME NEW i \in DOMAIN fs_dir'
        PROVE  \E j \in 1..last : fs_dir'[i].path = fs_dir[j].path
    BY <1>2, <1>4
  <2> QED
    BY <2>1, <2>2, <2>3
<1>6. ASSUME NEW s \in Slots, Used(s), PathOf(s) # f
      PROVE  Used(s)' /\ fs_slots'[s].buf = fs_slots[s].buf /\ PathOf(s)' = PathOf(s)
  <2>1. fs_slots[s] \in Slot /\ fs_slots[s].dir_idx \in 1..last /\ fs_slots[s].dir_idx # d
    BY <1>2, <1>3, <1>6 DEF TypeOK, SlotsMatchDir, PathOf
  <2>2. CASE fs_slots[s].dir_idx = last
    <3>1. fs_slots'[s] = [fs_slots[s] EXCEPT !.dir_idx = d]
      BY <1>1, <1>6, <2>1, <2>2 DEF ss_slot_find
    <3>2. fs_slots'[s].buf = fs_slots[s].buf /\ fs_slots'[s].dir_idx = d
      BY <2>1, <3>1 DEF Slot
    <3>3. fs_dir'[d] = fs_dir[last]
      BY <1>2, <1>4, <2>1, <2>2
    <3> QED
      BY <1>6, <2>2, <3>2, <3>3 DEF Used, PathOf
  <2>3. CASE fs_slots[s].dir_idx # last
    <3>1. fs_slots'[s] = fs_slots[s]
      BY <1>1, <1>6, <2>1, <2>3 DEF ss_slot_find
    <3>2. fs_dir'[fs_slots[s].dir_idx] = fs_dir[fs_slots[s].dir_idx]
      BY <1>2, <1>4, <2>1, <2>3
    <3> QED
      BY <1>6, <3>1, <3>2 DEF Used, PathOf
  <2> QED
    BY <2>2, <2>3
<1>7. ASSUME NEW s \in Slots, Used(s)'
      PROVE  Used(s)
  BY <1>1, <1>7, FreeSlotType DEF Used, ss_slot_find
<1>8. View'[f] = NULL
  BY <1>2, <1>3, <1>5 DEF ViewSpec
<1>9. ASSUME NEW g \in Files, g # f PROVE View'[g] = View[g]
  <2>1. CASE \E s \in Slots : Used(s) /\ PathOf(s) = g
    BY <1>2, <1>3, <1>6, <1>9, <2>1 DEF ViewSpec
  <2>2. CASE \A j \in 1..last : fs_dir[j].path # g
    <3>1. \A i \in DOMAIN fs_dir' : fs_dir'[i].path # g
      BY <1>5, <2>2
    <3> QED
      BY <1>2, <1>3, <2>2, <3>1 DEF ViewSpec
  <2>3. CASE /\ \A s \in Slots : Used(s) => PathOf(s) # g
             /\ \E j \in 1..last : fs_dir[j].path = g
    <3>1. PICK j \in 1..last : fs_dir[j].path = g
      BY <2>3
    <3>2. PICK i \in DOMAIN fs_dir' : fs_dir'[i].path = g
      BY <1>2, <1>5, <1>9, <3>1, SMTT(30)
    <3>3. View[g] = nvs[g]
      BY <1>2, <1>3, <2>3, <3>1, SMTT(30) DEF ViewSpec
    <3>4. \A s \in Slots : Used(s)' => PathOf(s)' # g
      <4> SUFFICES ASSUME NEW s \in Slots, Used(s)' PROVE PathOf(s)' # g
        OBVIOUS
      <4>1. Used(s)
        BY <1>7
      <4>2. PathOf(s) # f
        <5>1. SUFFICES ASSUME PathOf(s) = f PROVE FALSE
          OBVIOUS
        <5>2. fs_slots[s].dir_idx = d
          BY <1>2, <1>3, <4>1, <5>1 DEF SlotsMatchDir, DirUnique, PathOf
        <5> QED
          BY <1>1, <4>1, <5>2, FreeSlotType DEF ss_slot_find, Used
      <4> QED
        BY <1>6, <2>3, <4>1, <4>2
    <3>5. View'[g] = nvs'[g]
      BY <1>2, <1>3, <3>2, <3>4 DEF ViewSpec
    <3>6. nvs'[g] = nvs[g]
      BY <1>1, <1>3, <1>9 DEF TypeOK
    <3> QED
      BY <3>3, <3>5, <3>6
  <2> QED
    BY <2>1, <2>2, <2>3
<1>10. View' = [View EXCEPT ![f] = NULL]
  BY <1>3, <1>8, <1>9 DEF ViewSpec
<1>11. Store!Remove(f)
  BY <1>1, <1>2, <1>10 DEF Store!Remove
<1> QED
  BY <1>11 DEF Store!Next

(* An open that leaves the slots alone changes nothing the store has.      *)
LEMMA QuietOpenMaps ==
  ASSUME IInv, IInv', NEW d \in DOMAIN fs_dir,
         fs_dir' = [fs_dir EXCEPT ![d].hits = BumpHits(@)],
         UNCHANGED <<nvs, fs_slots, fs_is_initialized>>
  PROVE  UNCHANGED <<fs_is_initialized, View, nvs>>
<1>1. ViewSpec /\ fs_is_initialized /\ fs_is_initialized' /\ TypeOK /\ SlotsMatchDir
  BY ViewFacts DEF IInv, DownIsEmpty
<1>2. /\ DOMAIN fs_dir' = DOMAIN fs_dir
      /\ \A i \in DOMAIN fs_dir : fs_dir'[i].path = fs_dir[i].path
  BY <1>1, BumpFacts
<1>3. \A s \in Slots : /\ Used(s)' <=> Used(s)
                       /\ Used(s) => PathOf(s)' = PathOf(s)
  BY <1>1, <1>2 DEF SlotsMatchDir, Used, PathOf
<1>4. \A s \in Slots : Used(s)' => View[PathOf(s)'] = fs_slots'[s].buf
  BY <1>1, <1>3 DEF ViewSpec
<1>5. \A i \in DOMAIN fs_dir :
        (\A s \in Slots : Used(s)' => PathOf(s)' # fs_dir[i].path)
          => nvs'[fs_dir[i].path] = View[fs_dir[i].path]
  BY <1>1, <1>3 DEF ViewSpec
<1>6. View' = View
  BY <1>1, <1>2, <1>4, <1>5, SameView
<1> QED
  BY <1>6

(* An eviction flushes the victim; what it read into the slot was seen     *)
(* before.                                                                 *)
LEMMA ReplaceSlotMaps ==
  ASSUME IInv, IInv', NEW d \in DOMAIN fs_dir,
         fs_dir' = [fs_dir EXCEPT ![d].hits = BumpHits(@)],
         NEW s \in Slots, ss_slot_find(d) = {},
         nvs' = Committed({s} \cap DirtySlots),
         \A t \in Slots : t # s => fs_slots'[t] = fs_slots[t],
         \/ fs_slots'[s].buf = NULL
         \/ fs_slots'[s].buf = nvs[fs_dir[d].path] /\ fs_slots'[s].dir_idx = d,
         UNCHANGED fs_is_initialized
  PROVE  View' = View /\ \E S \in SUBSET Files : Store!Flushed(S)
<1> DEFINE done == {s} \cap DirtySlots
<1>1. /\ ViewSpec /\ fs_is_initialized /\ fs_is_initialized'
      /\ TypeOK /\ DirUnique /\ SlotsMatchDir /\ CleanIsDurable
  BY ViewFacts DEF IInv, DownIsEmpty
<1>2. /\ DOMAIN fs_dir' = DOMAIN fs_dir
      /\ \A i \in DOMAIN fs_dir : fs_dir'[i].path = fs_dir[i].path /\ fs_dir[i].path \in Files
  <2>1. \A i \in DOMAIN fs_dir : fs_dir[i] \in DirEntry
    BY <1>1, ElementOfSeq DEF TypeOK
  <2>2. \A i \in DOMAIN fs_dir : fs_dir[i].path \in Files
    BY <2>1 DEF DirEntry
  <2> QED
    BY <1>1, <2>2, BumpFacts
<1>3. \A t \in Slots \ {s} : /\ Used(t)' <=> Used(t)
                             /\ Used(t) => PathOf(t)' = PathOf(t)
                             /\ fs_slots'[t].buf = fs_slots[t].buf
  BY <1>1, <1>2 DEF SlotsMatchDir, Used, PathOf
<1>4. Used(s)' => fs_slots'[s].buf = nvs[fs_dir[d].path] /\ PathOf(s)' = fs_dir[d].path
  BY <1>2 DEF Used, PathOf
<1>5. \A t \in Slots : Used(t) => PathOf(t) # fs_dir[d].path
  BY <1>1 DEF ss_slot_find, SlotsMatchDir, DirUnique, PathOf
<1>6. View[fs_dir[d].path] = nvs[fs_dir[d].path]
  BY <1>1, <1>5 DEF ViewSpec
<1>7. \A t \in Slots : Used(t)' => View[PathOf(t)'] = fs_slots'[t].buf
  BY <1>1, <1>3, <1>4, <1>6 DEF ViewSpec
<1>8. done \in SUBSET DirtySlots /\ done \in SUBSET {t \in Slots : Used(t)} /\ nvs' = Committed(done)
  BY DEF DirtySlots
<1> HIDE DEF done
<1>9. /\ \A t \in done : nvs'[PathOf(t)] = fs_slots[t].buf
      /\ \A f \in Files : (\A t \in done : PathOf(t) # f) => nvs'[f] = nvs[f]
  <2>1. /\ \A t \in done : Committed(done)[PathOf(t)] = fs_slots[t].buf
        /\ \A f \in Files : (\A t \in done : PathOf(t) # f) => Committed(done)[f] = nvs[f]
    BY ONLY <1>1, <1>8, CommittedValue
  <2> QED
    BY <1>8, <2>1, Zenon
<1>10. ASSUME NEW i \in DOMAIN fs_dir, \A t \in Slots : Used(t)' => PathOf(t)' # fs_dir[i].path
       PROVE  nvs'[fs_dir[i].path] = View[fs_dir[i].path]
  <2>1. CASE Used(s) /\ PathOf(s) = fs_dir[i].path
    <3>1. View[fs_dir[i].path] = fs_slots[s].buf
      BY <1>1, <2>1 DEF ViewSpec
    <3>2. CASE s \in done
      BY <1>9, <2>1, <3>1, <3>2, Zenon
    <3>3. CASE s \notin done
      <4>1. ~fs_slots[s].dirty /\ done = {}
        BY <2>1, <3>3 DEF done, DirtySlots
      <4>2. fs_slots[s].buf = nvs[fs_dir[i].path]
        BY <1>1, <2>1, <4>1 DEF CleanIsDurable
      <4> QED
        BY <1>2, <1>9, <3>1, <4>1, <4>2, Zenon
    <3> QED
      BY <3>2, <3>3
  <2>2. CASE ~(Used(s) /\ PathOf(s) = fs_dir[i].path)
    <3>1. \A t \in Slots : Used(t) => PathOf(t) # fs_dir[i].path
      BY <1>3, <1>10, <2>2
    <3>2. View[fs_dir[i].path] = nvs[fs_dir[i].path]
      BY <1>1, <3>1 DEF ViewSpec
    <3>3. nvs'[fs_dir[i].path] = nvs[fs_dir[i].path]
      BY <1>2, <1>8, <1>9, <3>1, Zenon
    <3> QED
      BY <3>2, <3>3
  <2> QED
    BY <2>1, <2>2
<1>11. View' = View
  BY <1>1, <1>2, <1>7, <1>10, SameView, Zenon
<1> QED
  BY <1>1, <1>8, <1>11, FlushStep

LEMMA OpenStepMaps ==
  ASSUME IInv, IInv', NEW f \in Files, ss_fopen(f)
  PROVE  Store!Next \/ UNCHANGED <<fs_is_initialized, View, nvs, opened>>
<1>1. PICK d \in ss_dir_find(f) :
        /\ fp = 0
        /\ fs_dir' = [fs_dir EXCEPT ![d].hits = BumpHits(@)]
        /\ \/ \E s \in ss_slot_find(d) : opened' = f /\ UNCHANGED <<nvs, fs_slots>>
           \/ UNCHANGED <<nvs, fs_slots, opened>>
           \/ /\ ss_slot_find(d) = {} /\ nvs[f] # NULL
              /\ \E s \in ss_slot_acquire(SizeOf[nvs[f]]) : ss_load_to_slot(d, s)
        /\ UNCHANGED fs_is_initialized
  BY Zenon DEF ss_fopen
<1>2. /\ d \in DOMAIN fs_dir /\ fs_dir[d].path = f
      /\ fs_is_initialized /\ opened = NULL /\ ViewSpec
  <2>1. d \in DOMAIN fs_dir /\ fs_dir[d].path = f
    BY DEF ss_dir_find
  <2>2. fs_is_initialized /\ opened = NULL
    BY <1>1, <2>1 DEF IInv, DownIsEmpty, HandleHoldsFile
  <2> QED
    BY <2>1, <2>2, ViewFacts
<1>3. CASE UNCHANGED <<nvs, fs_slots, opened>>
  BY <1>1, <1>2, <1>3, QuietOpenMaps, Zenon
<1>4. CASE \E s \in ss_slot_find(d) : opened' = f /\ UNCHANGED <<nvs, fs_slots>>
  <2>1. PICK s \in ss_slot_find(d) : opened' = f /\ UNCHANGED <<nvs, fs_slots>>
    BY <1>4
  <2>2. s \in Slots /\ Used(s) /\ PathOf(s) = f
    BY <1>2 DEF ss_slot_find, PathOf
  <2>3. View[f] # NULL
    BY <1>2, <2>2 DEF ViewSpec, Used
  <2>4. UNCHANGED <<fs_is_initialized, View, nvs>>
    BY <1>1, <1>2, <2>1, QuietOpenMaps, Zenon
  <2>5. Store!Flushed({})
    BY <2>4 DEF Store!Flushed, IInv, TypeOK
  <2>6. Store!Open(f, {})
    BY <1>2, <2>1, <2>3, <2>4, <2>5 DEF Store!Open
  <2> QED
    BY <2>6 DEF Store!Next
<1>5. CASE /\ ss_slot_find(d) = {} /\ nvs[f] # NULL
           /\ \E s \in ss_slot_acquire(SizeOf[nvs[f]]) : ss_load_to_slot(d, s)
  <2>1. PICK s \in ss_slot_acquire(SizeOf[nvs[f]]) : ss_load_to_slot(d, s)
    BY <1>5
  <2>2. s \in Slots
    BY DEF ss_slot_acquire, FewestHits
  (* the write-back is refused *)
  <2>3. CASE UNCHANGED <<nvs, fs_slots, opened>>
    BY <1>3, <2>3
  (* the victim is gone and nothing is loaded *)
  <2>4. CASE /\ nvs' = Committed({s} \cap DirtySlots) /\ UNCHANGED opened
             /\ fs_slots' = [fs_slots EXCEPT ![s].buf = NULL, ![s].b_size = 0, ![s].dirty = FALSE]
    <3>1. fs_slots'[s].buf = NULL /\ \A t \in Slots : t # s => fs_slots'[t] = fs_slots[t]
      BY <2>2, <2>4 DEF IInv, TypeOK, Slot
    <3>2. PICK S \in SUBSET Files : View' = View /\ Store!Flushed(S)
      BY <1>1, <1>2, <1>5, <2>2, <2>4, <3>1, ReplaceSlotMaps, Zenon
    <3>3. Store!Flush(S)
      BY <1>1, <1>2, <2>4, <3>2 DEF Store!Flush
    <3> QED
      BY <3>3 DEF Store!Next
  (* the file is loaded *)
  <2>5. CASE /\ nvs' = Committed({s} \cap DirtySlots) /\ opened' = f
             /\ \E size : fs_slots' = [fs_slots EXCEPT ![s] =
                             [buf |-> nvs[f], dir_idx |-> d, b_size |-> size, dirty |-> FALSE]]
    <3>1. /\ fs_slots'[s].buf = nvs[f] /\ fs_slots'[s].dir_idx = d
          /\ \A t \in Slots : t # s => fs_slots'[t] = fs_slots[t]
      BY <2>2, <2>5 DEF IInv, TypeOK
    <3>2. PICK S \in SUBSET Files : View' = View /\ Store!Flushed(S)
      BY <1>1, <1>2, <1>5, <2>2, <2>5, <3>1, ReplaceSlotMaps, ZenonT(30)
    <3>3. \A t \in Slots : Used(t) => PathOf(t) # f
      BY <1>2, <1>5, Zenon DEF ss_slot_find, IInv, SlotsMatchDir, DirUnique, PathOf
    <3>4. View[f] # NULL
      BY <1>2, <1>5, <3>3 DEF ViewSpec
    <3>5. Store!Open(f, S)
      BY <1>1, <1>2, <2>5, <3>2, <3>4 DEF Store!Open
    <3> QED
      BY <3>5 DEF Store!Next
  <2> QED
    BY <1>2, <2>1, <2>3, <2>4, <2>5, Zenon DEF ss_load_to_slot, WriteBack
<1> QED
  BY <1>1, <1>3, <1>4, <1>5

LEMMA NextMaps ==
  ASSUME IInv, IInv', [Next]_vars
  PROVE  [Store!Next]_(Store!vars)
<1>1. CASE UNCHANGED vars
  <2>1. View' = View
    BY <1>1 DEF vars, View, ss_dir_find, Used, PathOf
  <2> QED
    BY <1>1, <2>1 DEF vars, Store!vars
<1>2. CASE Next
  <2>1. Store!Next \/ UNCHANGED <<fs_is_initialized, View, nvs, opened>>
    BY <1>2, InitFsStep, CommitStepMaps, DeinitStepMaps, OpenStepMaps, RemoveStepMaps,
       FwriteStepMaps, FputcStepMaps, CloseStepMaps, PowerLossStepMaps DEF Next
  <2> QED
    BY <2>1 DEF Store!vars
<1> QED
  BY <1>1, <1>2

LEMMA InitMaps == Init => Store!Init
<1> SUFFICES ASSUME Init PROVE Store!Init
  OBVIOUS
<1>1. View = nvs
  BY InitInv, ViewFacts DEF Init, ViewSpec
<1> QED
  BY <1>1 DEF Init, Store!Init, Store!MaybeContent

(* The filesystem with its cache, evictions and lazy writes implements the *)
(* plain file store, for any files, contents and number of slots.          *)
THEOREM Refinement == Spec => ImplementsFileStore
<1>1. IInv /\ IInv' /\ [Next]_vars => [Store!Next]_(Store!vars)
  BY NextMaps
<1> QED
  BY <1>1, InitMaps, Invariance, PTL DEF Spec, ImplementsFileStore, Store!Spec

(* ss_file_size finds the buffer of the file by its directory index, the   *)
(* view by its path: the tables make the two the same.                     *)
LEMMA SizeOfView == IInv => SizeIsOfView
<1> SUFFICES ASSUME IInv, fs_is_initialized, NEW f \in Files, NEW n \in ss_file_size(f)
             PROVE  \/ View[f] # NULL /\ n = SizeOf[View[f]]
                    \/ n = -1 /\ \A s \in Slots : Used(s) => PathOf(s) # f
  BY DEF SizeIsOfView
<1>0. TypeOK /\ DirUnique /\ SlotsMatchDir /\ ViewSpec
  BY ViewFacts DEF IInv
<1>1. CASE ss_dir_find(f) = {}
  <2>1. \A s \in Slots : Used(s) => PathOf(s) # f
    BY <1>0, <1>1 DEF ss_dir_find, SlotsMatchDir, PathOf
  <2> QED
    BY <1>1, <2>1 DEF ss_file_size
<1>2. CASE ss_dir_find(f) # {}
  <2>1. PICK d \in DOMAIN fs_dir : fs_dir[d].path = f
    BY <1>2 DEF ss_dir_find
  <2>2. ss_dir_find(f) = {d}
    BY <1>0, <2>1 DEF ss_dir_find, DirUnique
  <2>3. UNION {ss_slot_find(e) : e \in ss_dir_find(f)} = ss_slot_find(d)
    BY <2>2
  <2>4. CASE ss_slot_find(d) # {}
    <3> DEFINE c == CHOOSE s \in ss_slot_find(d) : TRUE
    <3>1. c \in ss_slot_find(d)
      BY <2>4
    <3>2. ss_file_size(f) = {SizeOf[fs_slots[c].buf]}
      BY <1>2, <2>3, <2>4, Zenon DEF ss_file_size
    <3> HIDE DEF c
    <3>3. c \in Slots /\ Used(c) /\ PathOf(c) = f
      BY <2>1, <3>1 DEF ss_slot_find, PathOf
    <3>4. View[f] = fs_slots[c].buf /\ View[f] # NULL
      BY <1>0, <3>3 DEF ViewSpec, Used
    <3> QED
      BY <3>2, <3>4
  <2>5. CASE ss_slot_find(d) = {}
    <3>1. \A s \in Slots : Used(s) => PathOf(s) # f
      BY <1>0, <2>1, <2>5 DEF SlotsMatchDir, DirUnique, PathOf, ss_slot_find
    <3>2. View[f] = nvs[f]
      BY <1>0, <2>1, <3>1 DEF ViewSpec
    <3>3. ss_file_size(f) = IF nvs[f] # NULL THEN {SizeOf[nvs[f]], -1} ELSE {-1}
      BY <1>2, <2>3, <2>5 DEF ss_file_size
    <3> QED
      BY <3>1, <3>2, <3>3
  <2> QED
    BY <2>4, <2>5
<1> QED
  BY <1>1, <1>2

(* ss_file_size reports the length of what a read of the file would        *)
(* return, whether it is buffered or only in NVS, and fails only when the  *)
(* file is not buffered.                                                   *)
THEOREM SizesOfViews == Spec => []SizeIsOfView
BY Invariance, SizeOfView, PTL
=============================================================================
