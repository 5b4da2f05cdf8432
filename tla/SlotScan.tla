------------------------------ MODULE SlotScan ------------------------------
(***************************************************************************)
(* The search for a slot, ss_slot_acquire of lib/ss_cache.c, loop by loop: *)
(* a first pass for a free slot, a second that keeps three running minima  *)
(* of the open counter at once.  It runs on the tables of SoftSimFs, whose *)
(* one-line definition of the same function is what it must compute.       *)
(***************************************************************************)
EXTENDS SoftSimFs

CONSTANT MAX_WANT   \* bound of the model: lengths that are asked for

VARIABLES
  want_len,  \* the argument
  scan_pc,   \* "free", "scan" or "done"
  i,         \* the loop variable
  min_hits,  \* min_hits_1, min_hits_2, min_hits_3
  best,      \* the slots that have them, or 0
  victim     \* the return value, or 0

scan_vars == <<want_len, scan_pc, i, min_hits, best, victim>>

(* The three candidates, in the order of preference.                       *)
Ranks == {"roomy", "clean", "any"}

ScanTypeOK ==
  /\ want_len \in 0..MAX_WANT
  /\ scan_pc \in {"free", "scan", "done"}
  /\ i \in 1..(SS_MAX_ENTRIES + 1)
  /\ min_hits \in [Ranks -> 0..(HITS_MAX + 1)]
  /\ best \in [Ranks -> Slots \cup {0}]
  /\ victim \in Slots \cup {0}

(* The call is entered; the rest of the filesystem does not matter.        *)
ScanStart ==
  /\ scan_pc = "free" /\ i = 1
  /\ min_hits = [r \in Ranks |-> HITS_MAX + 1]
  /\ best = [r \in Ranks |-> 0]
  /\ victim = 0
  /\ nvs = <<>> /\ fs_is_initialized = TRUE /\ fp = 0 /\ opened = NULL /\ refused = {}

(* Any tables: slot s is free or buffers entry s, of which nothing matters *)
(* but the counter, the size of the buffer and whether it is dirty.        *)
ScanInit ==
  /\ want_len \in 0..MAX_WANT
  /\ fs_dir \in [Slots -> [hits : 0..HITS_MAX]]
  /\ fs_slots \in [Slots -> {FreeSlot} \cup
                            [buf : Contents, dir_idx : Slots, b_size : 0..BUF_LIMIT, dirty : BOOLEAN]]
  /\ \A s \in Slots : IF Used(s) THEN fs_slots[s].dir_idx = s ELSE fs_dir[s].hits = 0
  /\ ScanStart

(* First pass: the first free slot is taken.                               *)
find_free ==
  /\ scan_pc = "free"
  /\ \/ /\ i <= SS_MAX_ENTRIES /\ ~Used(i)
        /\ victim' = i /\ scan_pc' = "done"
        /\ UNCHANGED i
     \/ /\ i <= SS_MAX_ENTRIES /\ Used(i)
        /\ i' = i + 1
        /\ UNCHANGED <<victim, scan_pc>>
     \/ /\ i > SS_MAX_ENTRIES
        /\ i' = 1 /\ scan_pc' = "scan"
        /\ UNCHANGED victim
  /\ UNCHANGED <<want_len, min_hits, best, vars>>

(* What slot s has to be for a candidate of rank r.                        *)
Eligible(s, r) ==
  CASE r = "roomy" -> ~fs_slots[s].dirty /\ fs_slots[s].b_size >= want_len
    [] r = "clean" -> ~fs_slots[s].dirty
    [] OTHER       -> TRUE

(* Slot s takes over as candidate of rank r.                               *)
Improves(s, r) == Eligible(s, r) /\ Hits(s) < min_hits[r]

(* Second pass.                                                            *)
scan_slot ==
  /\ scan_pc = "scan" /\ i <= SS_MAX_ENTRIES
  /\ min_hits' = [r \in Ranks |-> IF Improves(i, r) THEN Hits(i) ELSE min_hits[r]]
  /\ best' = [r \in Ranks |-> IF Improves(i, r) THEN i ELSE best[r]]
  /\ i' = i + 1
  /\ UNCHANGED <<want_len, scan_pc, victim, vars>>

(* Fault: a slot that needs no write is not preferred.                     *)
PreferredAny == IF best["roomy"] # 0 THEN best["roomy"] ELSE best["any"]

Preferred ==
  IF best["roomy"] # 0 THEN best["roomy"] ELSE IF best["clean"] # 0 THEN best["clean"] ELSE best["any"]

pick ==
  /\ scan_pc = "scan" /\ i > SS_MAX_ENTRIES
  /\ victim' = Preferred
  /\ scan_pc' = "done"
  /\ UNCHANGED <<want_len, i, min_hits, best, vars>>

ScanNext == find_free \/ scan_slot \/ pick

ScanSpec == ScanInit /\ [][ScanNext]_<<scan_vars, vars>> /\ WF_<<scan_vars, vars>>(ScanNext)

-----------------------------------------------------------------------------
(* Properties.                                                             *)

(* The loops find the slot SoftSimFs takes: a free one first, else the     *)
(* least used of the clean and large enough, of the clean, or of all, the  *)
(* first of equals (ss_cache.h, "the victim preference is").               *)
ScanFindsVictim == scan_pc = "done" => ss_slot_acquire(want_len) = {victim}

(* The slots the second pass has looked at and could take at rank r.       *)
Seen(r) == {s \in Slots : scan_pc = "scan" /\ s < i /\ Eligible(s, r)}

(* The loop invariant ScanFindsVictim rests on: types, no free slot was    *)
(* passed over, and while it scans each candidate is the least used        *)
(* eligible slot so far.                                                   *)
ScanInv ==
  /\ ScanTypeOK
  /\ scan_pc = "free" => \A s \in 1..(i - 1) : Used(s)
  /\ scan_pc = "scan" => \A s \in Slots : Used(s)
  /\ scan_pc # "done" =>
       \A r \in Ranks :
         IF Seen(r) = {} THEN best[r] = 0 /\ min_hits[r] = HITS_MAX + 1
         ELSE {best[r]} = FewestHits(Seen(r)) /\ min_hits[r] = Hits(best[r])
=============================================================================
