----------------------------- MODULE FileStore -----------------------------
(***************************************************************************)
(* What the SoftSIM filesystem promises the SIM core: a set of files, each *)
(* with the content the core sees (view) and the content that survives a   *)
(* power loss (disk).  There is no cache here.  SoftSimFs, with its slot   *)
(* table and its evictions, is shown to implement this specification.      *)
(***************************************************************************)
CONSTANTS Files,     \* the paths of the card's file tree
          Contents,  \* the contents a file can have
          NULL       \* no such file

VARIABLES up,        \* the filesystem is mounted
          view,      \* what the SIM core sees of each file
          disk,      \* what flash holds of each file
          open       \* the file the core has open, or NULL

vars == <<up, view, disk, open>>

MaybeContent == Contents \cup {NULL}

Init == /\ up = FALSE
        /\ disk \in [Files -> MaybeContent]
        /\ view = disk
        /\ open = NULL

Mount == /\ ~up
         /\ up' = TRUE
         /\ open' = open
         /\ UNCHANGED <<view, disk>>

(* No content reaches flash but the one the core sees.                     *)
Flushed(S) == /\ \A f \in S : view[f] # NULL
              /\ disk' = [f \in Files |-> IF f \in S THEN view[f] ELSE disk[f]]

(* Any set of visible files may reach flash at any time.                   *)
Flush(S) == /\ up
            /\ open' = open
            /\ UNCHANGED <<up, view>>
            /\ Flushed(S)

(* A file is opened; others may have to go to flash for it.                *)
Open(f, S) == /\ up /\ open = NULL
              /\ view[f] # NULL
              /\ open' = f
              /\ UNCHANGED <<up, view>>
              /\ Flushed(S)

(* A write changes what the core sees of the open file, and nothing else.  *)
Write(c) == /\ up /\ open # NULL
            /\ UNCHANGED <<up, disk, open>>
            /\ view' = [view EXCEPT ![open] = c]

(* A close may write the file it closes to flash, and no other.            *)
Close(S) == /\ up /\ open # NULL
            /\ open' = NULL
            /\ UNCHANGED <<up, view>>
            /\ S \subseteq {open} /\ Flushed(S)

(* A removed file is gone from view; flash may refuse the deletion.        *)
Remove(f) == /\ up /\ f # open
             /\ UNCHANGED <<up, open>>
             /\ disk' \in {disk, [disk EXCEPT ![f] = NULL]}
             /\ view' = [view EXCEPT ![f] = NULL]

(* An orderly unmount loses nothing the core can see.  A file whose        *)
(* deletion flash refused comes back.                                      *)
Unmount == /\ up /\ open = NULL
           /\ up' = FALSE
           /\ disk' = [f \in Files |-> IF view[f] # NULL THEN view[f] ELSE disk[f]]
           /\ view' = disk'
           /\ open' = open

(* Only a power loss rolls the view back to what flash holds.              *)
PowerLoss == /\ up
             /\ up' = FALSE
             /\ view' = disk
             /\ open' = NULL
             /\ UNCHANGED disk

Next == \/ Mount
        \/ \E c \in Contents : Write(c)
        \/ \E f \in Files : Remove(f)
        \/ \E S \in SUBSET Files : Flush(S) \/ Close(S) \/ \E f \in Files : Open(f, S)
        \/ Unmount
        \/ PowerLoss

Spec == Init /\ [][Next]_vars
=============================================================================
