------------------------------ MODULE MCCache ------------------------------
(***************************************************************************)
(* DirTable and SlotScan for TLC.  The two calls have nothing in common:   *)
(* either the parser runs on every blob of up to MAX_BLOB bytes, or the    *)
(* search for a slot on every table of SS_MAX_ENTRIES slots.               *)
(***************************************************************************)
EXTENDS DirTable, SlotScan, Fnv, TLC

CONSTANT MAX_BLOB   \* bound of the model: length of the DIR record

(* Name lengths 0 and 1, and a length that never fits, which is also a key *)
(* byte with FS_COMMIT_ON_CLOSE.  On four bits the names <<1>> and <<129>> *)
(* collide.                                                                *)
MCBytes == {0, 1, 129}

MCBlobs == UNION {[1..n -> MCBytes] : n \in 0..MAX_BLOB}

(* Of SoftSimFs only the tables are used.                                  *)
MCDirBlob == <<"file">>
MCSizeOf == [c \in {"content"} |-> 0]

(* A search that found every slot free, and a parse of an empty record.    *)
ScanOver ==
  /\ want_len = 0 /\ fs_dir = <<>> /\ fs_slots = [s \in Slots |-> FreeSlot]
  /\ scan_pc = "done" /\ i = 1 /\ victim = 1
  /\ min_hits = [r \in Ranks |-> HITS_MAX + 1] /\ best = [r \in Ranks |-> 0]
  /\ nvs = <<>> /\ fs_is_initialized = TRUE /\ fp = 0 /\ opened = NULL /\ refused = {}

ParseOver ==
  /\ blob = <<>> /\ parse_pc = "done"
  /\ cursor = 0 /\ count = 0 /\ dir = <<>> /\ filled = 0 /\ ret = 0
  /\ read = {} /\ starts = <<>>

CacheInit == (ParseInit /\ ScanOver) \/ (ScanInit /\ ParseOver)

CacheNext == \/ ParseNext /\ UNCHANGED <<scan_vars, vars>>
             \/ ScanNext /\ UNCHANGED parse_vars

cache_vars == <<parse_vars, scan_vars, vars>>

CacheSpec == CacheInit /\ [][CacheNext]_cache_vars /\ WF_cache_vars(CacheNext)
=============================================================================
