--------------------------- MODULE SoftSimHandler ---------------------------
(***************************************************************************)
(* The modem's requests, lib/nrf_softsim.c.  The request handler runs in   *)
(* an interrupt: it queues a node on a FIFO and submits a work item.  The  *)
(* work queue's thread drains the FIFO, serves each request with the UICC  *)
(* core and the filesystem, answers it and frees it.  The interrupt can    *)
(* come between any two steps of the thread, and the power can go.         *)
(*                                                                         *)
(* Composition: the filesystem is FileStore, which SoftSimFs implements.   *)
(* The UICC core and the modem are external: the core reads and writes     *)
(* files while it serves an APDU; the modem sends any request at any time. *)
(***************************************************************************)
EXTENDS Integers, Sequences, FiniteSets

CONSTANTS
  Files,         \* the card's files
  CommitFiles,   \* those flagged FS_COMMIT_ON_CLOSE
  Contents,      \* file contents
  NULL,          \* no file, no request
  MAX_REQ,       \* bound of the model: requests the modem sends
  MAX_OPS,       \* bound of the model: file operations of the core per APDU
  EarlyModem     \* the modem may send before nrf_softsim_init has returned

ASSUME HandlerAssumption ==
  /\ NULL \notin Contents
  /\ CommitFiles \subseteq Files
  /\ MAX_REQ \in Nat
  /\ MAX_OPS \in Nat
  /\ EarlyModem \in BOOLEAN

VARIABLES
  boot,       \* how far nrf_softsim_init has come, see Boots
  fifo,       \* softsim_req_fifo
  queued,     \* softsim_req_work is on the queue
  pc,         \* where the work queue's thread is
  s_req,      \* the request it serves, or NULL
  ops,        \* file operations the core made for it
  ctx,        \* the SIM context exists
  suspended,  \* ss_is_suspended(ctx)
  live,       \* contexts allocated and not freed
  fs_up, view, disk,  \* the filesystem, see FileStore
  refused,    \* history: files whose last NVS write was refused
  lazy,       \* history: files a plain APDU wrote since they were last saved
  reset_up,   \* history: the filesystem was up at every ss_reset
  next_id,    \* the req_id of the next request
  answers,    \* history: how often each request was answered
  payload,    \* history: the payload of each request
  rejected,   \* history: requests that got no node
  void,       \* history: requests a power loss took away
  early,      \* history: requests that came before the work queue was started
  hasty,      \* history: a request came before nrf_softsim_init returned
  session     \* history: "open" from the answer to INIT to that to DEINIT, or "closed"

worker_vars == <<pc, s_req, ops>>
core_vars   == <<ctx, suspended, live, reset_up>>
fs_vars     == <<fs_up, view, disk>>
save_vars   == <<refused, lazy>>
req_vars    == <<next_id, answers, payload, rejected, void, early, hasty>>
vars == <<boot, fifo, queued, worker_vars, core_vars, fs_vars, save_vars, req_vars, session>>

(* No file is open between the core's file operations. *)
FS == INSTANCE FileStore WITH up <- fs_up, open <- NULL

Ids == 1..MAX_REQ

(* An APDU is told apart by its instruction byte: STATUS is polled for,    *)
(* ENVELOPE is committed after.                                            *)
Apdus == {"APDU", "STATUS", "ENVELOPE"}
Cmds  == Apdus \cup {"INIT", "DEINIT", "RESET", "UNKNOWN"}

Request == [id : Ids, req : Cmds]

(* A pointer to a node is not NULL. *)
ASSUME NodeAssumption == NULL \notin Request

(* nrf_softsim_init has not run, has brought the filesystem up, registered *)
(* the handler, started the work queue, created the context.               *)
Boots == {"off", "mounted", "registered", "started", "ready"}

TypeOK ==
  /\ boot \in Boots
  /\ fifo \in Seq(Request)
  /\ queued \in BOOLEAN
  /\ pc \in {"idle", "get", "serve", "poll", "transact", "commit", "free", "return", "fault"}
  /\ s_req \in Request \cup {NULL}
  /\ ops \in 0..MAX_OPS
  /\ ctx \in BOOLEAN /\ suspended \in BOOLEAN /\ reset_up \in BOOLEAN
  /\ live \in Nat
  /\ fs_up \in BOOLEAN
  /\ view \in [Files -> Contents \cup {NULL}] /\ disk \in [Files -> Contents \cup {NULL}]
  /\ refused \subseteq Files /\ lazy \subseteq Files
  /\ next_id \in 1..(MAX_REQ + 1)
  /\ answers \in [Ids -> Nat]
  /\ payload \in [Ids -> {"none", "held", "freed", "again"}]
  /\ rejected \subseteq Ids /\ void \subseteq Ids /\ early \subseteq Ids /\ hasty \in BOOLEAN
  /\ session \in {"closed", "open"}

Init ==
  /\ boot = "off"
  /\ fifo = <<>> /\ queued = FALSE
  /\ pc = "idle" /\ s_req = NULL /\ ops = 0
  /\ ctx = FALSE /\ suspended = FALSE /\ live = 0 /\ reset_up = TRUE
  /\ disk \in [Files -> Contents] /\ FS!Init
  /\ refused = {} /\ lazy = {}
  /\ next_id = 1
  /\ answers = [i \in Ids |-> 0]
  /\ payload = [i \in Ids |-> "none"]
  /\ rejected = {} /\ void = {} /\ early = {} /\ hasty = FALSE
  /\ session = "closed"

-----------------------------------------------------------------------------
(* Calls into the other components.                                        *)

(* nrf_modem_softsim_res and nrf_modem_softsim_err.  To the modem the      *)
(* session is open once an INIT was answered, and not with an error.       *)
Answer(r, ok) ==
  /\ answers' = [answers EXCEPT ![r.id] = @ + 1]
  /\ session' = CASE r.req = "INIT"   -> IF ok THEN "open" ELSE "closed"
                  [] r.req = "DEINIT" -> "closed"
                  [] OTHER            -> session

(* ss_init_fs: no-op when up; the mount may fail.                          *)
ss_init_fs(result) ==
  IF fs_up \/ ~result THEN UNCHANGED fs_vars ELSE FS!Mount

Unsaved == {f \in Files : fs_up /\ view[f] # disk[f]}

(* What becomes of the histories when NVS takes done and refuses failed.   *)
Saved(done, failed) ==
  /\ refused' = (refused \ done) \cup failed
  /\ lazy' = lazy \ done

(* port_commit_fs: NVS may refuse any file.                                *)
port_commit_fs ==
  \E failed \in SUBSET Unsaved :
    /\ IF fs_up THEN FS!Flush(Unsaved \ failed) ELSE UNCHANGED fs_vars
    /\ Saved(Unsaved \ failed, failed)

(* ss_deinit_fs: stays up when NVS refuses a file; no-op when down.        *)
ss_deinit_fs ==
  \E failed \in SUBSET Unsaved :
    /\ IF ~fs_up THEN UNCHANGED fs_vars
       ELSE IF failed = {} THEN FS!Unmount
       ELSE FS!Flush(Unsaved \ failed)
    /\ Saved(Unsaved \ failed, failed)

(* ss_reset reads the master file's definition from the filesystem.  It    *)
(* may end a suspension.                                                   *)
ss_reset ==
  /\ reset_up' = (reset_up /\ fs_up)
  /\ suspended' \in {suspended, FALSE}

(* The core dereferences the context it is given.                          *)
NullContext ==
  /\ pc' = "fault"
  /\ UNCHANGED <<boot, fifo, queued, s_req, ops, core_vars, fs_vars, save_vars, req_vars, session>>

-----------------------------------------------------------------------------
(* nrf_softsim_init.  A failed mount returns and changes nothing.          *)
init_fs ==
  /\ boot = "off"
  /\ ss_init_fs(TRUE)
  /\ boot' = "mounted"
  /\ UNCHANGED <<fifo, queued, worker_vars, core_vars, save_vars, req_vars, session>>

(* nrf_modem_softsim_req_handler_set; after a failure the filesystem stays *)
(* up.                                                                     *)
register ==
  /\ boot = "mounted"
  /\ boot' \in {"off", "registered"}
  /\ UNCHANGED <<fifo, queued, worker_vars, core_vars, fs_vars, save_vars, req_vars, session>>

start_queue ==
  /\ boot = "registered"
  /\ boot' = "started"
  /\ UNCHANGED <<fifo, queued, worker_vars, core_vars, fs_vars, save_vars, req_vars, session>>

(* The first context, whose allocation is not checked; the thread of the   *)
(* work queue runs already.                                                *)
new_ctx ==
  /\ boot = "started" /\ pc # "fault"
  /\ boot' = "ready"
  /\ \E allocated \in BOOLEAN :
       /\ ctx' = allocated
       /\ live' = IF allocated THEN live + 1 ELSE live
  /\ suspended' = FALSE
  /\ UNCHANGED <<fifo, queued, worker_vars, reset_up, fs_vars, save_vars, req_vars, session>>

nrf_softsim_init == init_fs \/ register \/ start_queue \/ new_ctx

(* The modem hands a payload over with an APDU only.                       *)
PayloadOf(cmd) == IF cmd \in Apdus THEN "held" ELSE "none"

(* Fault: a node goes to the head of the queue.                            *)
QueuedFirst(node) == <<node>> \o fifo

(* k_fifo_put                                                              *)
QueuedLast(node) == Append(fifo, node)

(* Fault: the work is not submitted again while its handler runs.          *)
SubmittedWhenIdle == boot # "registered" /\ (queued \/ pc = "idle")

(* k_work_submit_to_queue: also while the handler runs, but not before the *)
(* queue is started.                                                       *)
Submitted == boot # "registered"

(* The handler is registered, and the modem is active.                     *)
MayInterrupt == boot \in (IF EarlyModem THEN {"registered", "started", "ready"} ELSE {"ready"})

(* The interrupt: queue a node and submit the work.  Without memory for    *)
(* the node the request is answered with an error, and its payload stays.  *)
nrf_modem_softsim_req_handler(cmd) ==
  /\ MayInterrupt /\ pc # "fault" /\ next_id \in Ids
  /\ next_id' = next_id + 1
  /\ payload' = [payload EXCEPT ![next_id] = PayloadOf(cmd)]
  /\ \/ /\ fifo' = QueuedLast([id |-> next_id, req |-> cmd])
        /\ queued' = Submitted
        /\ early' = IF boot = "registered" THEN early \cup {next_id} ELSE early
        /\ UNCHANGED <<answers, rejected>>
     \/ /\ answers' = [answers EXCEPT ![next_id] = @ + 1]
        /\ rejected' = rejected \cup {next_id}
        /\ UNCHANGED <<fifo, queued, early>>
  /\ hasty' = (hasty \/ boot # "ready")
  /\ UNCHANGED <<boot, worker_vars, core_vars, fs_vars, save_vars, void, session>>

-----------------------------------------------------------------------------
(* softsim_req_task, on the work queue's thread.                           *)

(* k_work: the item leaves the queue when its handler starts, and can be   *)
(* queued again while it runs.                                             *)
work_start ==
  /\ pc = "idle" /\ queued
  /\ queued' = FALSE
  /\ pc' = "get"
  /\ UNCHANGED <<boot, fifo, s_req, ops, core_vars, fs_vars, save_vars, req_vars, session>>

(* k_fifo_get without waiting: the loop ends when the FIFO is empty.       *)
fifo_get ==
  /\ pc = "get"
  /\ \/ /\ fifo = <<>>
        /\ pc' = "return"
        /\ UNCHANGED <<fifo, s_req, ops>>
     \/ /\ fifo # <<>>
        /\ s_req' = Head(fifo)
        /\ fifo' = Tail(fifo)
        /\ pc' = CASE s_req'.req = "STATUS" -> "poll"
                   [] s_req'.req \in {"APDU", "ENVELOPE"} -> "transact"
                   [] OTHER -> "serve"
        /\ ops' = 0
  /\ UNCHANGED <<boot, queued, core_vars, fs_vars, save_vars, req_vars, session>>

(* The handler returns and the work queue marks the item idle.  Requests   *)
(* can come between the last k_fifo_get and this.                          *)
work_return ==
  /\ pc = "return"
  /\ pc' = "idle"
  /\ UNCHANGED <<boot, fifo, queued, s_req, ops, core_vars, fs_vars, save_vars, req_vars, session>>

(* Fault: the allocation of the context is not checked.                    *)
req_INIT_unchecked ==
  /\ pc = "serve" /\ s_req.req = "INIT"
  /\ \E allocated \in BOOLEAN :
       /\ ctx' = (ctx \/ allocated)
       /\ live' = IF ~ctx /\ allocated THEN live + 1 ELSE live
  /\ Answer(s_req, TRUE)
  /\ pc' = "commit"
  /\ UNCHANGED <<boot, fifo, queued, s_req, ops, suspended, reset_up, fs_vars, save_vars,
                 next_id, payload, rejected, void, early, hasty>>

(* INIT: create the context if there is none; unless it is suspended,      *)
(* reset it and then bring the filesystem up; answer with the ATR.         *)
req_INIT ==
  /\ pc = "serve" /\ s_req.req = "INIT"
  /\ \/ /\ ~ctx
        /\ Answer(s_req, FALSE)
        /\ UNCHANGED <<core_vars, fs_vars>>
     \/ /\ ctx' = TRUE
        /\ live' = IF ctx THEN live ELSE live + 1
        /\ IF suspended THEN UNCHANGED <<suspended, reset_up, fs_vars>>
           ELSE ss_reset /\ \E mounted \in BOOLEAN : ss_init_fs(mounted)
        /\ Answer(s_req, TRUE)
  /\ pc' = "commit"
  /\ UNCHANGED <<boot, fifo, queued, s_req, ops, save_vars, next_id, payload, rejected, void, early, hasty>>

(* Fault: DEINIT neither looks for a context nor for a suspension.         *)
req_DEINIT_unguarded ==
  /\ pc = "serve" /\ s_req.req = "DEINIT"
  /\ ctx' = FALSE /\ suspended' = FALSE /\ live' = live - 1
  /\ ss_deinit_fs
  /\ Answer(s_req, TRUE)
  /\ pc' = "commit"
  /\ UNCHANGED <<boot, fifo, queued, s_req, ops, reset_up, next_id, payload, rejected, void, early, hasty>>

(* DEINIT: free the context and take the filesystem down, unless the card  *)
(* is suspended.                                                           *)
req_DEINIT ==
  /\ pc = "serve" /\ s_req.req = "DEINIT"
  /\ IF ctx /\ ~suspended
       THEN /\ ctx' = FALSE
            /\ live' = live - 1
            /\ ss_deinit_fs
            /\ UNCHANGED <<suspended, reset_up>>
       ELSE UNCHANGED <<core_vars, fs_vars, save_vars>>
  /\ Answer(s_req, TRUE)
  /\ pc' = "commit"
  /\ UNCHANGED <<boot, fifo, queued, s_req, ops, next_id, payload, rejected, void, early, hasty>>

req_RESET ==
  /\ pc = "serve" /\ s_req.req = "RESET"
  /\ \/ ~ctx /\ NullContext
     \/ /\ ctx
        /\ ss_reset
        /\ Answer(s_req, TRUE)
        /\ pc' = "commit"
        /\ UNCHANGED <<boot, fifo, queued, s_req, ops, ctx, live, fs_vars, save_vars,
                       next_id, payload, rejected, void, early, hasty>>

(* Fault: an unknown command is dropped.                                   *)
req_default_silent ==
  /\ pc = "serve" /\ s_req.req = "UNKNOWN"
  /\ pc' = "commit"
  /\ UNCHANGED <<boot, fifo, queued, s_req, ops, core_vars, fs_vars, save_vars, req_vars, session>>

(* An unknown command is answered with an error.                           *)
req_default ==
  /\ pc = "serve" /\ s_req.req = "UNKNOWN"
  /\ Answer(s_req, FALSE)
  /\ pc' = "commit"
  /\ UNCHANGED <<boot, fifo, queued, s_req, ops, core_vars, fs_vars, save_vars,
                 next_id, payload, rejected, void, early, hasty>>

(* STATUS: ss_poll runs the core's proactive tasks before the command.     *)
ss_poll ==
  /\ pc = "poll"
  /\ \/ ~ctx /\ NullContext
     \/ /\ ctx
        /\ pc' = "transact"
        /\ UNCHANGED <<boot, fifo, queued, s_req, ops, core_vars, fs_vars, save_vars, req_vars,
                       session>>

(* While it polls or serves an APDU the core opens, writes and closes      *)
(* files.  One flagged FS_COMMIT_ON_CLOSE is in flash at once, unless NVS  *)
(* refuses it.  The others become lazy, except in an ENVELOPE, which ends  *)
(* in a commit.                                                            *)
core_write(f, c) ==
  /\ pc \in {"poll", "transact"} /\ ctx /\ fs_up /\ ops < MAX_OPS
  /\ view' = [view EXCEPT ![f] = c]
  /\ IF f \in CommitFiles
       THEN \/ disk' = [disk EXCEPT ![f] = c] /\ Saved({f}, {})
            \/ UNCHANGED disk /\ Saved({}, {f})
       ELSE /\ UNCHANGED <<disk, refused>>
            /\ lazy' = IF s_req.req = "ENVELOPE" THEN lazy ELSE lazy \cup {f}
  /\ ops' = ops + 1
  /\ UNCHANGED <<boot, fifo, queued, pc, s_req, core_vars, fs_up, req_vars, session>>

(* Opening a file may evict another, which is then written to flash.       *)
core_evict(f) ==
  /\ pc \in {"poll", "transact"} /\ ctx /\ f \in Unsaved /\ ops < MAX_OPS
  /\ \/ FS!Flush({f}) /\ Saved({f}, {})
     \/ UNCHANGED fs_vars /\ Saved({}, {f})
  /\ ops' = ops + 1
  /\ UNCHANGED <<boot, fifo, queued, pc, s_req, core_vars, req_vars, session>>

(* ss_application_apdu_transact is done: answer.  The command may have     *)
(* suspended or resumed the card.  Only an ENVELOPE is committed.          *)
apdu_answer ==
  /\ pc = "transact"
  /\ \/ ~ctx /\ NullContext
     \/ /\ ctx
        /\ suspended' \in BOOLEAN
        /\ Answer(s_req, TRUE)
        /\ pc' = IF s_req.req = "ENVELOPE" THEN "commit" ELSE "free"
        /\ UNCHANGED <<boot, fifo, queued, s_req, ops, ctx, live, reset_up, fs_vars, save_vars,
                       next_id, payload, rejected, void, early, hasty>>

(* Fault: an ENVELOPE is left to the end of the session.                   *)
commit_session_only ==
  /\ pc = "commit"
  /\ IF s_req.req = "ENVELOPE" THEN UNCHANGED <<fs_vars, save_vars>> ELSE port_commit_fs
  /\ pc' = "free"
  /\ UNCHANGED <<boot, fifo, queued, s_req, ops, core_vars, req_vars, session>>

(* After the answer: commit what a session end or an ENVELOPE changed.     *)
commit ==
  /\ pc = "commit"
  /\ port_commit_fs
  /\ pc' = "free"
  /\ UNCHANGED <<boot, fifo, queued, s_req, ops, core_vars, req_vars, session>>

(* Fault: only the node is freed.                                          *)
FreedPayloadNever(p) == p

(* nrf_modem_softsim_data_free, when there is a payload                    *)
FreedPayload(p) == CASE p = "held" -> "freed" [] p = "freed" -> "again" [] OTHER -> p

(* Free the payload, if there is one, and the node.                        *)
req_free ==
  /\ pc = "free"
  /\ payload' = [payload EXCEPT ![s_req.id] = FreedPayload(@)]
  /\ s_req' = NULL
  /\ pc' = "get"
  /\ UNCHANGED <<boot, fifo, queued, ops, core_vars, fs_vars, save_vars, next_id, answers,
                 rejected, void, early, hasty, session>>

(* Power loss or reboot, also out of a fault.                              *)
PowerLoss ==
  /\ boot # "off"
  /\ boot' = "off"
  /\ fifo' = <<>> /\ queued' = FALSE
  /\ pc' = "idle" /\ s_req' = NULL /\ ops' = 0
  /\ ctx' = FALSE /\ suspended' = FALSE /\ live' = 0
  /\ fs_up' = FALSE /\ view' = disk
  /\ refused' = {} /\ lazy' = {}
  /\ void' = void \cup {i \in 1..(next_id - 1) : answers[i] = 0}
  /\ payload' = [i \in Ids |-> IF payload[i] = "held" THEN "none" ELSE payload[i]]
  /\ session' = "closed"
  /\ early' = {} /\ hasty' = FALSE
  /\ UNCHANGED <<disk, reset_up, next_id, answers, rejected>>

worker ==
  \/ work_start \/ fifo_get \/ work_return
  \/ req_INIT \/ req_DEINIT \/ req_RESET \/ req_default
  \/ ss_poll \/ apdu_answer
  \/ \E f \in Files : core_evict(f) \/ \E c \in Contents : core_write(f, c)
  \/ commit \/ req_free

Next ==
  \/ nrf_softsim_init
  \/ \E cmd \in Cmds : nrf_modem_softsim_req_handler(cmd)
  \/ worker
  \/ PowerLoss

Spec == Init /\ [][Next]_vars

(* The work queue's thread runs whenever it can: it has a priority of its  *)
(* own and nothing in it waits.  Nothing is assumed of the modem.          *)
FairSpec == Spec /\ WF_vars(worker)

-----------------------------------------------------------------------------
(* Properties.                                                             *)

InFifo(i) == \E k \in DOMAIN fifo : fifo[k].id = i

InHand(i) == s_req # NULL /\ s_req.id = i

(* Every request is answered exactly once: it waits in the FIFO or at the  *)
(* worker unanswered, or has its one answer, or went with a power loss.    *)
AnsweredOnce ==
  \A i \in 1..(next_id - 1) :
    /\ answers[i] \in {0, 1}
    /\ InFifo(i) => answers[i] = 0
    /\ answers[i] = 0 => i \in void \/ InFifo(i) \/ InHand(i)
    /\ InHand(i) => (answers[i] = 1 <=> pc \in {"commit", "free"})

(* A payload is freed at most once, and is held only as long as its node   *)
(* lives; the exception is a request that got no node.                     *)
PayloadFreedOnce ==
  \A i \in Ids : /\ payload[i] # "again"
                 /\ payload[i] = "held" => InFifo(i) \/ InHand(i) \/ i \in rejected

(* No wakeup is lost: whenever the handler has returned and the FIFO is    *)
(* not empty, the work is on the queue, however interrupts fall between    *)
(* the last k_fifo_get and the return.  Only requests that came before the *)
(* queue was started may wait, and then for the next request.              *)
NoLostWakeup ==
  boot # "off" /\ pc = "idle" => queued \/ \A k \in DOMAIN fifo : fifo[k].id \in early

(* Contexts are balanced: there is one when ctx is set, and none leaked,   *)
(* unless a request was served before nrf_softsim_init had created its own.*)
OneContext == hasty \/ live = IF ctx THEN 1 ELSE 0

(* The UICC core is handed a NULL context only outside a session, by a     *)
(* RESET or an APDU that no INIT came before or that follows a DEINIT or a *)
(* failed INIT: within a session neither a failed allocation nor requests  *)
(* that were queued behind others leave it without one.                    *)
NullOnlyOutsideSession == pc = "fault" => session = "closed" \/ hasty

(* Between requests a power loss can undo only what plain APDUs wrote to   *)
(* ordinary files since the last commit, or what NVS refused: neither an   *)
(* ENVELOPE's changes nor a commit-on-close file.                          *)
OnlyLazyAtRisk ==
  pc \in {"idle", "get", "return"} => Unsaved \subseteq (lazy \ CommitFiles) \cup refused

(* The inductive invariant, for the proofs.  Requests stand in the order   *)
(* of their ids, from the worker's through the FIFO to the next one.       *)
IdsInOrder ==
  /\ \A j, k \in DOMAIN fifo : j < k => fifo[j].id < fifo[k].id
  /\ \A k \in DOMAIN fifo : fifo[k].id < next_id
  /\ \A k \in DOMAIN fifo : s_req # NULL => s_req.id < fifo[k].id
  /\ s_req # NULL => s_req.id < next_id

(* Nothing is known of a request that has not come.                        *)
FutureIsBlank ==
  \A i \in Ids : i >= next_id => answers[i] = 0 /\ payload[i] = "none" /\ i \notin void

(* The thread holds a node exactly while it serves one, and has nothing to *)
(* do before the work queue is started.                                    *)
ThreadState ==
  /\ s_req # NULL <=> pc \in {"serve", "poll", "transact", "commit", "free", "fault"}
  /\ pc = "poll" => s_req.req = "STATUS"
  /\ pc = "transact" => s_req.req \in Apdus
  /\ boot \in {"off", "mounted", "registered"} => pc = "idle" /\ ~queued
  /\ boot \in {"off", "mounted"} => fifo = <<>>
  /\ boot = "registered" => \A k \in DOMAIN fifo : fifo[k].id \in early

(* Also between the last k_fifo_get and the return.                        *)
WakeupPending ==
  pc \in {"idle", "return"} => queued \/ \A k \in DOMAIN fifo : fifo[k].id \in early

(* The payload of a node in the FIFO or at the worker was not freed yet.   *)
NodeHasPayload == \A i \in Ids : InFifo(i) \/ InHand(i) => payload[i] # "freed"

(* A context was allocated, and none before nrf_softsim_init's own unless  *)
(* the modem was hasty.                                                    *)
ContextCounted ==
  /\ ctx => live >= 1
  /\ ~hasty /\ boot # "ready" => fifo = <<>> /\ pc = "idle" /\ ~queued /\ live = 0 /\ ~ctx

Lazily(f) ==
  \/ f \in lazy
  \/ pc \in {"transact", "commit"} /\ s_req.req = "ENVELOPE"

(* A file that flash lags behind on was refused, or is lazy, or is to be   *)
(* committed when the ENVELOPE in hand is answered.                        *)
LagExplained ==
  /\ ~fs_up => view = disk
  /\ \A f \in Unsaved : pc = "fault" \/ f \in refused \/ (f \notin CommitFiles /\ Lazily(f))

(* The inductive invariant of the handler: what holds between the          *)
(* interrupt's FIFO and work item and the worker, at every point of        *)
(* softsim_req_task, so that requests are answered once, payloads freed    *)
(* once, no wakeup is lost and what flash lags behind on is explained.     *)
HandlerInv ==
  /\ TypeOK /\ IdsInOrder /\ FutureIsBlank /\ ThreadState
  /\ AnsweredOnce /\ PayloadFreedOnce /\ NodeHasPayload
  /\ WakeupPending /\ ContextCounted /\ OneContext /\ LagExplained

(* The invariant of the session: it is open only while the context exists, *)
(* and none is before nrf_softsim_init is through.                         *)
SessionInv ==
  /\ session = "open" => ctx \/ hasty
  /\ boot # "ready" => session = "closed" \/ hasty
  /\ pc = "fault" => ~ctx

(* While the card is suspended DEINIT, INIT and all else keep its context  *)
(* and its filesystem: the next INIT resumes it.                           *)
SuspendedIsKept ==
  [][ctx /\ suspended /\ boot = "ready" /\ boot' = "ready" => ctx' /\ (fs_up => fs_up')]_vars

(* A payload is freed whenever its request is over.                        *)
PayloadNeverLeaks ==
  \A i \in Ids : payload[i] = "held" => InFifo(i) \/ InHand(i)

(* Every ss_reset finds the filesystem up.                                 *)
ResetAfterInitFs == reset_up

(* For the promise to the modem a request is pending while it is in the    *)
(* FIFO, or with the worker and not answered.                              *)
FifoIds == [k \in DOMAIN fifo |-> fifo[k].id]

InService == IF s_req # NULL /\ answers[s_req.id] = 0 THEN <<s_req.id>> ELSE <<>>

PendingIds == InService \o FifoIds

AnsweredIds == {i \in Ids : answers[i] > 0}

RS == INSTANCE RequestServer
        WITH pending <- PendingIds, answered <- AnsweredIds, lost <- void

(* The promise is kept: whatever the modem sends, when nodes cannot be     *)
(* allocated, and when the modem does not wait for nrf_softsim_init.       *)
ImplementsRequestServer == RS!RSpec

(* Every queued request is eventually answered, or lost with the power, or *)
(* stuck behind one that made the core use a NULL context.                 *)
QueuedIsAnswered ==
  \A i \in Ids : InFifo(i) ~> (answers[i] = 1 \/ i \in void \/ pc = "fault")
=============================================================================
