------------------------ MODULE SoftSimHandlerProofs ------------------------
(***************************************************************************)
(* Proofs about SoftSimHandler, for any number of requests, files and      *)
(* contents, and for any modem unless a theorem says otherwise.            *)
(***************************************************************************)
EXTENDS SoftSimHandler, SequenceTheorems, TLAPS

USE HandlerAssumption

-----------------------------------------------------------------------------
(* The FIFO.                                                               *)

LEMMA FifoFacts ==
  ASSUME TypeOK
  PROVE  /\ Len(fifo) \in Nat
         /\ DOMAIN fifo = 1..Len(fifo)
         /\ \A k \in DOMAIN fifo : fifo[k] \in Request /\ fifo[k].id \in Ids /\ fifo[k].req \in Cmds
<1>1. fifo \in Seq(Request)
  BY DEF TypeOK
<1>2. Len(fifo) \in Nat /\ DOMAIN fifo = 1..Len(fifo) /\ \A k \in DOMAIN fifo : fifo[k] \in Request
  BY <1>1, LenProperties, ElementOfSeq
<1> QED
  BY <1>2 DEF Request

(* k_fifo_put: the node stands behind all others.                          *)
LEMMA FifoPut ==
  ASSUME TypeOK, NEW node \in Request, fifo' = QueuedLast(node)
  PROVE  /\ fifo' \in Seq(Request)
         /\ fifo' # <<>>
         /\ Len(fifo') = Len(fifo) + 1
         /\ DOMAIN fifo' = 1..(Len(fifo) + 1)
         /\ \A k \in 1..Len(fifo) : fifo'[k] = fifo[k]
         /\ fifo'[Len(fifo) + 1] = node
<1>1. fifo \in Seq(Request)
  BY DEF TypeOK
<1>2. fifo' = Append(fifo, node)
  BY DEF QueuedLast
<1>3. /\ fifo' \in Seq(Request) /\ fifo' # <<>> /\ Len(fifo') = Len(fifo) + 1
      /\ \A k \in 1..Len(fifo) : fifo'[k] = fifo[k]
      /\ fifo'[Len(fifo) + 1] = node
  BY <1>1, <1>2, AppendProperties
<1>4. DOMAIN fifo' = 1..Len(fifo')
  BY <1>3, LenProperties
<1> QED
  BY <1>3, <1>4

(* k_fifo_get: the first node is taken and the others move up.             *)
LEMMA FifoGet ==
  ASSUME TypeOK, fifo # <<>>, fifo' = Tail(fifo)
  PROVE  /\ fifo' \in Seq(Request)
         /\ Len(fifo) \in Nat \ {0}
         /\ Len(fifo') = Len(fifo) - 1
         /\ DOMAIN fifo' = 1..(Len(fifo) - 1)
         /\ \A k \in 1..(Len(fifo) - 1) : fifo'[k] = fifo[k + 1]
         /\ Head(fifo) = fifo[1]
         /\ Head(fifo) \in Request
<1>1. fifo \in Seq(Request)
  BY DEF TypeOK
<1>2. /\ fifo' \in Seq(Request) /\ Len(fifo') = Len(fifo) - 1 /\ Head(fifo) \in Request
      /\ \A k \in 1..Len(fifo') : fifo'[k] = fifo[k + 1]
  BY <1>1, HeadTailProperties
<1>3. DOMAIN fifo' = 1..Len(fifo') /\ Len(fifo) \in Nat \ {0}
  BY <1>1, <1>2, LenProperties, EmptySeq
<1>4. Head(fifo) = fifo[1]
  BY <1>1
<1> QED
  BY <1>2, <1>3, <1>4

(* The node the thread serves is a request.                                *)
LEMMA InHandType ==
  ASSUME TypeOK, ThreadState,
         pc \in {"serve", "poll", "transact", "commit", "free", "fault"}
  PROVE  s_req # NULL /\ s_req \in Request /\ s_req.id \in Ids /\ s_req.req \in Cmds
BY DEF TypeOK, ThreadState, Request

-----------------------------------------------------------------------------
(* The filesystem: what the calls into it do to the files.                 *)

(* ss_init_fs changes no file.                                             *)
LEMMA MountEffect ==
  ASSUME NEW result \in BOOLEAN, fs_up \in BOOLEAN, ss_init_fs(result)
  PROVE  fs_up' \in BOOLEAN /\ (fs_up => fs_up') /\ view' = view /\ disk' = disk
BY Zenon DEF ss_init_fs, FS!Mount, fs_vars

(* After port_commit_fs flash lags behind only where NVS refused.          *)
LEMMA CommitEffect ==
  ASSUME TypeOK, port_commit_fs
  PROVE  /\ fs_up' = fs_up /\ view' = view
         /\ disk' \in [Files -> Contents \cup {NULL}]
         /\ ~fs_up => disk' = disk
         /\ refused' \subseteq Files /\ lazy' \subseteq Files
         /\ Unsaved' \subseteq refused'
<1>1. PICK failed \in SUBSET Unsaved :
        /\ IF fs_up THEN FS!Flush(Unsaved \ failed) ELSE UNCHANGED fs_vars
        /\ Saved(Unsaved \ failed, failed)
  BY Zenon DEF port_commit_fs
<1>2. Unsaved \subseteq Files
  BY DEF Unsaved
<1>3. refused' \subseteq Files /\ lazy' \subseteq Files /\ failed \subseteq refused'
  BY <1>1, <1>2 DEF Saved, TypeOK
<1>4. CASE ~fs_up
  BY <1>1, <1>3, <1>4 DEF fs_vars, Unsaved, TypeOK
<1>5. CASE fs_up
  <2>1. /\ fs_up' = fs_up /\ view' = view
        /\ disk' = [f \in Files |-> IF f \in Unsaved \ failed THEN view[f] ELSE disk[f]]
    BY <1>1, <1>5 DEF FS!Flush, FS!Flushed
  <2>2. disk' \in [Files -> Contents \cup {NULL}]
    BY <2>1 DEF TypeOK
  <2>3. ASSUME NEW f \in Unsaved' PROVE f \in failed
    BY <2>1, <2>3, <1>5 DEF Unsaved
  <2> QED
    BY <1>3, <1>5, <2>1, <2>2, <2>3
<1> QED
  BY <1>4, <1>5 DEF TypeOK

(* So after ss_deinit_fs, which may leave the filesystem up.               *)
LEMMA DeinitEffect ==
  ASSUME TypeOK, LagExplained, ss_deinit_fs
  PROVE  /\ fs_up' \in BOOLEAN
         /\ view' \in [Files -> Contents \cup {NULL}] /\ disk' \in [Files -> Contents \cup {NULL}]
         /\ ~fs_up' => view' = disk'
         /\ refused' \subseteq Files /\ lazy' \subseteq Files
         /\ Unsaved' \subseteq refused'
<1>1. PICK failed \in SUBSET Unsaved :
        /\ IF ~fs_up THEN UNCHANGED fs_vars
           ELSE IF failed = {} THEN FS!Unmount ELSE FS!Flush(Unsaved \ failed)
        /\ Saved(Unsaved \ failed, failed)
  BY Zenon DEF ss_deinit_fs
<1>2. Unsaved \subseteq Files
  BY DEF Unsaved
<1>3. refused' \subseteq Files /\ lazy' \subseteq Files /\ failed \subseteq refused'
  BY <1>1, <1>2 DEF Saved, TypeOK
<1>4. CASE ~fs_up
  BY <1>1, <1>3, <1>4 DEF fs_vars, Unsaved, TypeOK, LagExplained
<1>5. CASE fs_up /\ failed = {}
  <2>1. /\ fs_up' = FALSE /\ view' = disk'
        /\ disk' = [f \in Files |-> IF view[f] # NULL THEN view[f] ELSE disk[f]]
    BY <1>1, <1>5 DEF FS!Unmount
  <2>2. disk' \in [Files -> Contents \cup {NULL}]
    BY <2>1 DEF TypeOK
  <2> QED
    BY <1>3, <2>1, <2>2, Zenon DEF Unsaved
<1>6. CASE fs_up /\ failed # {}
  <2>1. /\ fs_up' = fs_up /\ view' = view
        /\ disk' = [f \in Files |-> IF f \in Unsaved \ failed THEN view[f] ELSE disk[f]]
    BY <1>1, <1>6, Zenon DEF FS!Flush, FS!Flushed
  <2>2. disk' \in [Files -> Contents \cup {NULL}]
    BY <2>1 DEF TypeOK
  <2>3. ASSUME NEW f \in Unsaved' PROVE f \in failed
    BY <2>1, <2>3, <1>6 DEF Unsaved
  <2> QED
    BY <1>3, <1>6, <2>1, <2>2, <2>3 DEF TypeOK
<1> QED
  BY <1>4, <1>5, <1>6 DEF TypeOK

-----------------------------------------------------------------------------
(* Type correctness.                                                       *)

LEMMA InitType == Init => TypeOK
<1> SUFFICES ASSUME Init PROVE TypeOK
  OBVIOUS
<1>1. /\ queued \in BOOLEAN /\ ctx \in BOOLEAN /\ suspended \in BOOLEAN /\ reset_up \in BOOLEAN
      /\ fs_up \in BOOLEAN /\ hasty \in BOOLEAN
  BY Zenon DEF Init, FS!Init
<1>2. view \in [Files -> Contents \cup {NULL}] /\ disk \in [Files -> Contents \cup {NULL}]
  BY DEF Init, FS!Init, FS!MaybeContent
<1>3. /\ answers \in [Ids -> Nat] /\ payload \in [Ids -> {"none", "held", "freed", "again"}]
      /\ fifo \in Seq(Request) /\ next_id \in 1..(MAX_REQ + 1) /\ ops \in 0..MAX_OPS
  BY DEF Init
<1> QED
  BY <1>1, <1>2, <1>3 DEF Init, TypeOK, Boots

(* An answer is counted for the request in hand.                           *)
LEMMA AnswerType ==
  ASSUME TypeOK, ThreadState, pc \in {"serve", "transact"},
         NEW ok \in BOOLEAN, Answer(s_req, ok)
  PROVE  /\ answers' = [answers EXCEPT ![s_req.id] = answers[s_req.id] + 1]
         /\ answers' \in [Ids -> Nat]
         /\ session' \in {"closed", "open"}
<1>1. s_req.id \in Ids
  BY InHandType
<1> QED
  BY <1>1 DEF Answer, TypeOK

(* Every step keeps the types.                                             *)
LEMMA TypeStep ==
  ASSUME TypeOK, ThreadState, ContextCounted, LagExplained, [Next]_vars
  PROVE  TypeOK'
<1> USE DEF worker_vars, core_vars, fs_vars, save_vars, req_vars
<1>1. CASE UNCHANGED vars
  BY <1>1 DEF vars, TypeOK
<1>2. CASE init_fs
  <2>1. TRUE \in BOOLEAN /\ fs_up \in BOOLEAN /\ ss_init_fs(TRUE)
    BY <1>2, Zenon DEF init_fs, TypeOK
  <2>2. fs_up' \in BOOLEAN /\ view' = view /\ disk' = disk
    BY <2>1, MountEffect, Zenon
  <2>3. boot' \in Boots
    BY <1>2 DEF init_fs, Boots
  <2> QED
    BY <1>2, <2>2, <2>3 DEF init_fs, TypeOK
<1>3. CASE register
  BY <1>3 DEF register, TypeOK, Boots
<1>4. CASE start_queue
  BY <1>4 DEF start_queue, TypeOK, Boots
<1>5. CASE new_ctx
  <2>1. PICK allocated \in BOOLEAN :
          ctx' = allocated /\ live' = IF allocated THEN live + 1 ELSE live
    BY <1>5 DEF new_ctx
  <2>2. live' \in Nat
    BY <2>1 DEF TypeOK
  <2>3. ctx' \in BOOLEAN /\ suspended' \in BOOLEAN
    BY <1>5, <2>1, Zenon DEF new_ctx
  <2> QED
    BY <1>5, <2>2, <2>3 DEF new_ctx, TypeOK, Boots
<1>6. ASSUME NEW cmd \in Cmds, nrf_modem_softsim_req_handler(cmd) PROVE TypeOK'
  <2>1. next_id \in Ids /\ next_id' = next_id + 1 /\ next_id' \in 1..(MAX_REQ + 1)
    BY <1>6 DEF nrf_modem_softsim_req_handler, Ids, TypeOK
  <2>2. payload' \in [Ids -> {"none", "held", "freed", "again"}]
    BY <1>6, <2>1 DEF nrf_modem_softsim_req_handler, PayloadOf, TypeOK
  <2>3. [id |-> next_id, req |-> cmd] \in Request
    BY <2>1 DEF Request
  <2>4. fifo' \in Seq(Request)
    BY <1>6, <2>3, FifoPut DEF nrf_modem_softsim_req_handler, TypeOK
  <2>5. answers' \in [Ids -> Nat]
    <3>1. \/ answers' = answers
          \/ answers' = [answers EXCEPT ![next_id] = answers[next_id] + 1]
      BY <1>6, Zenon DEF nrf_modem_softsim_req_handler
    <3> QED
      BY <2>1, <3>1 DEF TypeOK
  <2>7. early' \subseteq Ids /\ rejected' \subseteq Ids
    BY <1>6, <2>1, Zenon DEF nrf_modem_softsim_req_handler, TypeOK
  <2>6. session' \in {"closed", "open"} /\ queued' \in BOOLEAN /\ hasty' \in BOOLEAN
    BY <1>6, Zenon DEF nrf_modem_softsim_req_handler, Submitted, TypeOK
  <2> QED
    BY <1>6, <2>1, <2>2, <2>4, <2>5, <2>6, <2>7 DEF nrf_modem_softsim_req_handler, TypeOK
<1>7. CASE work_start
  BY <1>7, Zenon DEF work_start, TypeOK
<1>8. CASE fifo_get
  <2>1. fifo' \in Seq(Request) /\ s_req' \in Request \cup {NULL} /\ ops' \in 0..MAX_OPS
    BY <1>8, FifoGet, SMTT(30) DEF fifo_get, TypeOK
  <2> QED
    BY <1>8, <2>1 DEF fifo_get, TypeOK
<1>9. CASE work_return
  BY <1>9 DEF work_return, TypeOK
<1>10. CASE req_INIT
  <2>1. answers' \in [Ids -> Nat] /\ session' \in {"closed", "open"}
    BY <1>10, AnswerType, Zenon DEF req_INIT
  <2>2. fs_up' \in BOOLEAN /\ view' = view /\ disk' = disk
    BY <1>10, MountEffect, Zenon DEF req_INIT, TypeOK
  <2>3. ctx' \in BOOLEAN /\ suspended' \in BOOLEAN /\ reset_up' \in BOOLEAN
    <3>1. ctx' \in {ctx, TRUE}
      BY <1>10, Zenon DEF req_INIT
    <3>2. UNCHANGED <<suspended, reset_up>> \/ ss_reset
      BY <1>10, Zenon DEF req_INIT
    <3>3. CASE ss_reset
      BY <3>1, <3>3, Zenon DEF ss_reset, TypeOK
    <3> QED
      BY <3>1, <3>2, <3>3, Zenon DEF TypeOK
  <2>4. live' \in Nat
    <3>1. live' = live \/ live' = live + 1
      BY <1>10, Zenon DEF req_INIT
    <3> QED
      BY <3>1 DEF TypeOK
  <2> QED
    BY <1>10, <2>1, <2>2, <2>3, <2>4 DEF req_INIT, TypeOK
<1>11. CASE req_DEINIT
  <2>1. answers' \in [Ids -> Nat] /\ session' \in {"closed", "open"}
    BY <1>11, AnswerType, Zenon DEF req_DEINIT
  <2>2. /\ fs_up' \in BOOLEAN
        /\ view' \in [Files -> Contents \cup {NULL}] /\ disk' \in [Files -> Contents \cup {NULL}]
        /\ refused' \subseteq Files /\ lazy' \subseteq Files
    BY <1>11, DeinitEffect DEF req_DEINIT, TypeOK
  <2>3. ctx' \in BOOLEAN /\ suspended' \in BOOLEAN /\ reset_up' \in BOOLEAN
    BY <1>11, Zenon DEF req_DEINIT, TypeOK
  <2>4. live' \in Nat
    BY <1>11 DEF req_DEINIT, TypeOK, ContextCounted
  <2> QED
    BY <1>11, <2>1, <2>2, <2>3, <2>4 DEF req_DEINIT, TypeOK
<1>12. CASE NullContext
  BY <1>12 DEF NullContext, TypeOK
<1>13. CASE req_RESET /\ ~NullContext
  <2>1. answers' \in [Ids -> Nat] /\ session' \in {"closed", "open"}
    BY <1>13, AnswerType, Zenon DEF req_RESET
  <2>2. suspended' \in BOOLEAN /\ reset_up' \in BOOLEAN
    BY <1>13, Zenon DEF req_RESET, ss_reset, TypeOK
  <2> QED
    BY <1>13, <2>1, <2>2, Zenon DEF req_RESET, TypeOK
<1>14. CASE req_default
  <2>1. answers' \in [Ids -> Nat] /\ session' \in {"closed", "open"}
    BY <1>14, AnswerType, Zenon DEF req_default
  <2> QED
    BY <1>14, <2>1 DEF req_default, TypeOK
<1>15. CASE ss_poll /\ ~NullContext
  BY <1>15 DEF ss_poll, TypeOK
<1>16. CASE apdu_answer /\ ~NullContext
  <2>1. answers' \in [Ids -> Nat] /\ session' \in {"closed", "open"}
    BY <1>16, AnswerType, Zenon DEF apdu_answer
  <2> QED
    BY <1>16, <2>1, Zenon DEF apdu_answer, TypeOK
<1>17. ASSUME NEW f \in Files, core_evict(f) PROVE TypeOK'
  <2>1. /\ fs_up' = fs_up /\ view' = view /\ disk' \in [Files -> Contents \cup {NULL}]
        /\ refused' \subseteq Files /\ lazy' \subseteq Files /\ ops' \in 0..MAX_OPS
    BY <1>17 DEF core_evict, FS!Flush, FS!Flushed, Saved, TypeOK
  <2> QED
    BY <1>17, <2>1 DEF core_evict, TypeOK
<1>18. ASSUME NEW f \in Files, NEW c \in Contents, core_write(f, c) PROVE TypeOK'
  <2>1. /\ view' \in [Files -> Contents \cup {NULL}] /\ disk' \in [Files -> Contents \cup {NULL}]
        /\ refused' \subseteq Files /\ lazy' \subseteq Files /\ ops' \in 0..MAX_OPS
    BY <1>18, SMTT(30) DEF core_write, Saved, TypeOK
  <2> QED
    BY <1>18, <2>1, SMTT(30) DEF core_write, TypeOK
<1>19. CASE commit
  BY <1>19, CommitEffect, SMTT(30) DEF commit, TypeOK
<1>20. CASE req_free
  <2>1. payload' \in [Ids -> {"none", "held", "freed", "again"}]
    BY <1>20, InHandType, SMTT(30) DEF req_free, FreedPayload, TypeOK
  <2> QED
    BY <1>20, <2>1 DEF req_free, TypeOK
<1>21. CASE PowerLoss
  <2>1. void' \subseteq Ids
    <3>1. 1..(next_id - 1) \subseteq Ids
      BY DEF TypeOK, Ids
    <3> QED
      BY <1>21, <3>1 DEF PowerLoss, TypeOK
  <2>2. payload' \in [Ids -> {"none", "held", "freed", "again"}]
    BY <1>21 DEF PowerLoss, TypeOK
  <2>3. fifo' \in Seq(Request) /\ ops' \in 0..MAX_OPS /\ live' \in Nat
    BY <1>21 DEF PowerLoss
  <2>4. /\ queued' \in BOOLEAN /\ ctx' \in BOOLEAN /\ suspended' \in BOOLEAN
        /\ reset_up' \in BOOLEAN /\ fs_up' \in BOOLEAN /\ hasty' \in BOOLEAN
    BY <1>21, Zenon DEF PowerLoss, TypeOK
  <2>5. /\ boot' = "off" /\ pc' = "idle" /\ s_req' = NULL /\ view' = disk /\ disk' = disk
        /\ refused' = {} /\ lazy' = {} /\ early' = {} /\ session' = "closed"
        /\ next_id' = next_id /\ answers' = answers /\ rejected' = rejected
    BY <1>21 DEF PowerLoss
  <2> QED
    BY <2>1, <2>2, <2>3, <2>4, <2>5, SMTT(30) DEF TypeOK, Boots
<1> QED
  BY <1>1, <1>2, <1>3, <1>4, <1>5, <1>6, <1>7, <1>8, <1>9, <1>10, <1>11, <1>12, <1>13, <1>14, SMTT(30),
     <1>15, <1>16, <1>17, <1>18, <1>19, <1>20, <1>21
  DEF Next, nrf_softsim_init, worker

-----------------------------------------------------------------------------
(* What a step does to the queue of requests: most leave it as it is, five *)
(* give the answer, and the others are the interrupt, the worker taking    *)
(* and freeing a node, and a power loss.                                   *)

Answered == {"commit", "free"}

QueueKept ==
  /\ pc' \in Answered <=> pc \in Answered
  /\ UNCHANGED <<fifo, s_req, next_id, answers, payload, rejected, void>>

AnswerGiven ==
  /\ pc \in {"serve", "transact"} /\ pc' \in Answered
  /\ answers' = [answers EXCEPT ![s_req.id] = answers[s_req.id] + 1]
  /\ UNCHANGED <<fifo, s_req, next_id, payload, rejected, void>>

LEMMA QueueStep ==
  ASSUME TypeOK, ThreadState, [Next]_vars
  PROVE  \/ QueueKept
         \/ AnswerGiven
         \/ \E cmd \in Cmds : nrf_modem_softsim_req_handler(cmd)
         \/ fifo_get /\ fifo # <<>>
         \/ req_free
         \/ PowerLoss
<1> USE DEF worker_vars, core_vars, fs_vars, save_vars, req_vars, Answered
<1>1. CASE UNCHANGED vars
  BY <1>1 DEF vars, QueueKept
<1>2. CASE nrf_softsim_init
  BY <1>2, Zenon DEF nrf_softsim_init, init_fs, register, start_queue, new_ctx, QueueKept
<1>3. CASE work_start \/ work_return
  BY <1>3 DEF work_start, work_return, QueueKept
<1>4. CASE fifo_get /\ fifo = <<>>
  BY <1>4 DEF fifo_get, QueueKept
<1>5. CASE req_INIT
  BY <1>5, AnswerType, Zenon DEF req_INIT, AnswerGiven
<1>6. CASE req_DEINIT
  BY <1>6, AnswerType, Zenon DEF req_DEINIT, AnswerGiven
<1>7. CASE req_RESET
  BY <1>7, AnswerType, Zenon DEF req_RESET, NullContext, QueueKept, AnswerGiven
<1>8. CASE req_default
  BY <1>8, AnswerType, Zenon DEF req_default, AnswerGiven
<1>9. CASE ss_poll
  BY <1>9 DEF ss_poll, NullContext, QueueKept
<1>10. CASE apdu_answer
  BY <1>10, AnswerType, Zenon DEF apdu_answer, NullContext, QueueKept, AnswerGiven
<1>11. CASE \E f \in Files : core_evict(f) \/ \E c \in Contents : core_write(f, c)
  BY <1>11 DEF core_evict, core_write, QueueKept
<1>12. CASE commit
  BY <1>12 DEF commit, QueueKept
<1> QED
  BY <1>1, <1>2, <1>3, <1>4, <1>5, <1>6, <1>7, <1>8, <1>9, <1>10, <1>11, <1>12, SMTT(30)
  DEF Next, worker

(* The interrupt, as the queue sees it.                                    *)
LEMMA PutEffect ==
  ASSUME TypeOK, NEW cmd \in Cmds, nrf_modem_softsim_req_handler(cmd)
  PROVE  /\ next_id \in Ids /\ next_id' = next_id + 1
         /\ payload' = [payload EXCEPT ![next_id] = PayloadOf(cmd)]
         /\ UNCHANGED <<pc, s_req, void>>
         /\ \/ /\ fifo' = QueuedLast([id |-> next_id, req |-> cmd])
               /\ [id |-> next_id, req |-> cmd] \in Request
               /\ UNCHANGED <<answers, rejected>>
            \/ /\ answers' = [answers EXCEPT ![next_id] = answers[next_id] + 1]
               /\ rejected' = rejected \cup {next_id}
               /\ UNCHANGED fifo
<1>1. [id |-> next_id, req |-> cmd] \in Request
  BY Zenon DEF nrf_modem_softsim_req_handler, Request
<1> QED
  BY <1>1, Zenon DEF nrf_modem_softsim_req_handler, worker_vars

(* The ids stay in order.                                                  *)
LEMMA OrderStep ==
  ASSUME TypeOK, ThreadState, IdsInOrder, [Next]_vars
  PROVE  IdsInOrder'
<1>1. /\ Len(fifo) \in Nat /\ DOMAIN fifo = 1..Len(fifo)
      /\ \A k \in DOMAIN fifo : fifo[k] \in Request /\ fifo[k].id \in Ids
  BY FifoFacts
<1>2. Ids \subseteq Nat /\ next_id \in Nat
  BY DEF Ids, TypeOK
<1>3. CASE QueueKept \/ AnswerGiven
  BY <1>3, Zenon DEF QueueKept, AnswerGiven, IdsInOrder
<1>4. ASSUME NEW cmd \in Cmds, nrf_modem_softsim_req_handler(cmd) PROVE IdsInOrder'
  <2>3. next_id' = next_id + 1 /\ s_req' = s_req
    BY <1>4, PutEffect, Zenon
  <2>4. (s_req # NULL => s_req.id \in Nat) /\ \A k \in DOMAIN fifo : fifo[k].id \in Nat
    BY <1>1, <1>2, Zenon DEF TypeOK, Request
  <2>1. CASE UNCHANGED fifo
    BY <1>2, <2>1, <2>3, <2>4 DEF IdsInOrder
  <2>2. CASE fifo' = QueuedLast([id |-> next_id, req |-> cmd]) /\ [id |-> next_id, req |-> cmd] \in Request
    <3>1. /\ DOMAIN fifo' = 1..(Len(fifo) + 1)
          /\ \A k \in 1..Len(fifo) : fifo'[k].id = fifo[k].id
          /\ fifo'[Len(fifo) + 1].id = next_id
      BY <2>2, FifoPut
    <3>2. \A k \in DOMAIN fifo' : k \in 1..Len(fifo) \/ k = Len(fifo) + 1
      BY <1>1, <3>1
    <3>3. \A k \in DOMAIN fifo' : fifo'[k].id < next_id'
      BY <1>1, <1>2, <2>3, <2>4, <3>1, <3>2 DEF IdsInOrder
    <3>4. \A j, k \in DOMAIN fifo' : j < k => fifo'[j].id < fifo'[k].id
      BY <1>1, <1>2, <2>4, <3>1, <3>2 DEF IdsInOrder
    <3>5. \A k \in DOMAIN fifo' : s_req # NULL => s_req.id < fifo'[k].id
      BY <1>1, <1>2, <2>4, <3>1, <3>2 DEF IdsInOrder
    <3> QED
      BY <1>2, <2>3, <2>4, <3>3, <3>4, <3>5 DEF IdsInOrder
  <2> QED
    BY <1>4, <2>1, <2>2, PutEffect
<1>5. CASE fifo_get /\ fifo # <<>>
  <2>1. s_req' = fifo[1] /\ next_id' = next_id /\ fifo' = Tail(fifo)
    BY <1>5, FifoGet DEF fifo_get, req_vars
  <2>2. /\ DOMAIN fifo' = 1..(Len(fifo) - 1) /\ Len(fifo) \in Nat \ {0}
        /\ \A k \in 1..(Len(fifo) - 1) : fifo'[k] = fifo[k + 1]
    BY <1>5, <2>1, FifoGet
  <2> QED
    BY <1>1, <2>1, <2>2 DEF IdsInOrder
<1>6. CASE req_free
  BY <1>6 DEF req_free, IdsInOrder
<1>7. CASE PowerLoss
  <2>1. fifo' = <<>> /\ s_req' = NULL
    BY <1>7 DEF PowerLoss
  <2> QED
    BY <2>1 DEF IdsInOrder
<1> QED
  BY <1>3, <1>4, <1>5, <1>6, <1>7, QueueStep

(* Where a request is after the interrupt has queued a new one ...         *)
LEMMA PutMembers ==
  ASSUME TypeOK, NEW cmd \in Cmds, next_id \in Ids,
         fifo' = QueuedLast([id |-> next_id, req |-> cmd])
  PROVE  \A i : InFifo(i)' <=> InFifo(i) \/ i = next_id
<1>1. [id |-> next_id, req |-> cmd] \in Request
  BY DEF Request
<1>2. /\ DOMAIN fifo' = 1..(Len(fifo) + 1)
      /\ \A k \in 1..Len(fifo) : fifo'[k].id = fifo[k].id
      /\ fifo'[Len(fifo) + 1].id = next_id
  BY <1>1, FifoPut
<1>3. Len(fifo) \in Nat /\ DOMAIN fifo = 1..Len(fifo)
  BY FifoFacts
<1>4. /\ \A k \in DOMAIN fifo' : k \in DOMAIN fifo \/ k = Len(fifo) + 1
      /\ \A k \in DOMAIN fifo : k \in DOMAIN fifo'
      /\ Len(fifo) + 1 \in DOMAIN fifo'
  BY <1>2, <1>3
<1> QED
  BY <1>2, <1>3, <1>4 DEF InFifo

(* ... and after the worker has taken the first one.                       *)
LEMMA GetMembers ==
  ASSUME TypeOK, IdsInOrder, fifo_get, fifo # <<>>
  PROVE  /\ 1 \in DOMAIN fifo
         /\ s_req' = fifo[1] /\ s_req' \in Request
         /\ \A i : InFifo(i)' <=> InFifo(i) /\ i # fifo[1].id
<1>1. s_req' = Head(fifo) /\ fifo' = Tail(fifo)
  BY DEF fifo_get
<1>2. /\ DOMAIN fifo' = 1..(Len(fifo) - 1) /\ Len(fifo) \in Nat \ {0}
      /\ \A k \in 1..(Len(fifo) - 1) : fifo'[k] = fifo[k + 1]
      /\ Head(fifo) = fifo[1] /\ Head(fifo) \in Request
  BY <1>1, FifoGet
<1>3. DOMAIN fifo = 1..Len(fifo) /\ \A k \in DOMAIN fifo : fifo[k].id \in Nat
  BY FifoFacts DEF Ids
<1>4. \A k \in DOMAIN fifo : k = 1 \/ (k # 1 /\ k - 1 \in DOMAIN fifo' /\ fifo'[k - 1] = fifo[k])
  BY <1>2, <1>3
<1>5. \A k \in DOMAIN fifo' : k + 1 \in DOMAIN fifo /\ fifo'[k] = fifo[k + 1] /\ fifo[1].id < fifo[k + 1].id
  BY <1>2, <1>3 DEF IdsInOrder
<1>6. 1 \in DOMAIN fifo
  BY <1>2, <1>3
<1>7. ASSUME NEW i, InFifo(i)' PROVE InFifo(i) /\ i # fifo[1].id
  <2>1. PICK k \in DOMAIN fifo' : fifo'[k].id = i
    BY <1>7 DEF InFifo
  <2>2. k + 1 \in DOMAIN fifo /\ fifo[k + 1].id = i /\ fifo[1].id < i
    BY <1>5, <2>1
  <2>3. i \in Nat /\ fifo[1].id \in Nat
    BY <1>3, <1>6, <2>2
  <2> QED
    BY <2>2, <2>3 DEF InFifo
<1>8. ASSUME NEW i, InFifo(i), i # fifo[1].id PROVE InFifo(i)'
  BY <1>4, <1>8 DEF InFifo
<1> QED
  BY <1>1, <1>2, <1>6, <1>7, <1>8

(* Nothing becomes known of a request before it comes.                     *)
LEMMA FutureStep ==
  ASSUME TypeOK, ThreadState, IdsInOrder, FutureIsBlank, [Next]_vars
  PROVE  FutureIsBlank'
<1>1. next_id \in Nat /\ Ids \subseteq Nat
  BY DEF TypeOK, Ids
<1>2. s_req # NULL => s_req.id \in Ids
  BY DEF TypeOK, Request
<1>3. CASE QueueKept
  BY <1>3 DEF QueueKept, FutureIsBlank
<1>4. CASE AnswerGiven
  <2>1. s_req # NULL /\ s_req.id \in Ids /\ s_req.id < next_id
    BY <1>4, InHandType DEF AnswerGiven, IdsInOrder
  <2> QED
    BY <1>1, <1>4, <2>1 DEF AnswerGiven, FutureIsBlank, TypeOK
<1>5. ASSUME NEW cmd \in Cmds, nrf_modem_softsim_req_handler(cmd) PROVE FutureIsBlank'
  <2>1. /\ next_id \in Ids /\ next_id' = next_id + 1 /\ void' = void
        /\ payload' = [payload EXCEPT ![next_id] = PayloadOf(cmd)]
        /\ answers' \in {answers, [answers EXCEPT ![next_id] = answers[next_id] + 1]}
    BY <1>5, PutEffect, Zenon
  <2>2. ASSUME NEW i \in Ids, i >= next_id'
        PROVE  i >= next_id /\ answers'[i] = answers[i] /\ payload'[i] = payload[i]
    BY <1>1, <2>1, <2>2 DEF TypeOK
  <2> QED
    BY <2>1, <2>2 DEF FutureIsBlank
<1>6. CASE fifo_get /\ fifo # <<>>
  BY <1>6 DEF fifo_get, req_vars, FutureIsBlank
<1>7. CASE req_free
  <2>1. s_req.id \in Ids /\ s_req.id < next_id
    BY <1>7, InHandType DEF req_free, IdsInOrder
  <2> QED
    BY <1>1, <1>7, <2>1 DEF req_free, FutureIsBlank, TypeOK
<1>8. CASE PowerLoss
  <2>1. \A i \in Ids : i >= next_id => i \notin 1..(next_id - 1)
    BY <1>1
  <2> QED
    BY <1>8, <2>1 DEF PowerLoss, FutureIsBlank
<1> QED
  BY <1>3, <1>4, <1>5, <1>6, <1>7, <1>8, QueueStep

(* Every request keeps to its one answer.                                  *)
LEMMA AnsweredStep ==
  ASSUME TypeOK, ThreadState, IdsInOrder, FutureIsBlank, AnsweredOnce, [Next]_vars
  PROVE  AnsweredOnce'
<1>1. next_id \in Nat /\ next_id <= MAX_REQ + 1 /\ 1..(next_id - 1) \subseteq Ids /\ Ids \subseteq Nat
  BY DEF TypeOK, Ids
<1>2. CASE QueueKept
  BY <1>2 DEF QueueKept, Answered, AnsweredOnce, InFifo, InHand
<1>3. CASE AnswerGiven
  <2>1. s_req # NULL /\ s_req.id \in Ids /\ s_req.id \in 1..(next_id - 1) /\ ~InFifo(s_req.id)
    BY <1>1, <1>3, InHandType, FifoFacts, SMTT(30) DEF AnswerGiven, IdsInOrder, InFifo, Ids
  <2>2. answers[s_req.id] = 0
    BY <1>3, <2>1 DEF AnswerGiven, AnsweredOnce, InHand
  <2>3. /\ answers'[s_req.id] = 1
        /\ \A i \in Ids : i # s_req.id => answers'[i] = answers[i]
    BY <1>3, <2>1, <2>2 DEF AnswerGiven, TypeOK
  <2>4. /\ next_id' = next_id /\ void' = void
        /\ \A i : InFifo(i)' = InFifo(i) /\ InHand(i)' = InHand(i)
    BY <1>3, Zenon DEF AnswerGiven, InFifo, InHand
  <2>5. \A i : InHand(i) => i = s_req.id
    BY DEF InHand
  <2> QED
    BY <1>1, <1>3, <2>1, <2>3, <2>4, <2>5, SMTT(30) DEF AnsweredOnce, AnswerGiven, Answered
<1>4. ASSUME NEW cmd \in Cmds, nrf_modem_softsim_req_handler(cmd) PROVE AnsweredOnce'
  <2>1. /\ next_id \in Ids /\ next_id' = next_id + 1 /\ UNCHANGED <<pc, s_req, void>>
        /\ \A i : InHand(i)' = InHand(i)
    BY <1>4, PutEffect, Zenon DEF InHand
  <2>2. answers[next_id] = 0 /\ ~InHand(next_id) /\ ~InFifo(next_id)
    BY <1>1, <2>1, FifoFacts, SMTT(30) DEF FutureIsBlank, InHand, InFifo, IdsInOrder
  <2>3. \A i \in 1..(next_id' - 1) : i \in 1..(next_id - 1) \/ i = next_id
    BY <1>1, <2>1
  <2>4. CASE fifo' = QueuedLast([id |-> next_id, req |-> cmd]) /\ UNCHANGED answers
    <3>1. \A i : InFifo(i)' <=> InFifo(i) \/ i = next_id
      BY <2>1, <2>4, PutMembers
    <3> QED
      BY <1>1, <2>1, <2>2, <2>3, <2>4, <3>1 DEF AnsweredOnce
  <2>5. CASE UNCHANGED fifo /\ answers' = [answers EXCEPT ![next_id] = answers[next_id] + 1]
    <3>1. answers'[next_id] = 1 /\ \A i \in Ids : i # next_id => answers'[i] = answers[i]
      BY <2>1, <2>2, <2>5 DEF TypeOK
    <3>2. \A i : InFifo(i)' = InFifo(i)
      BY <2>5 DEF InFifo
    <3> QED
      BY <1>1, <2>1, <2>2, <2>3, <3>1, <3>2 DEF AnsweredOnce
  <2> QED
    BY <1>4, <2>4, <2>5, PutEffect
<1>5. CASE fifo_get /\ fifo # <<>>
  <2>1. /\ s_req = NULL /\ pc' \notin Answered
        /\ UNCHANGED <<next_id, answers, void>>
    BY <1>5 DEF fifo_get, req_vars, ThreadState, Answered
  <2>2. /\ 1 \in DOMAIN fifo /\ s_req' = fifo[1] /\ s_req' # NULL
        /\ \A i : InFifo(i)' <=> InFifo(i) /\ i # fifo[1].id
    BY <1>5, GetMembers, NodeAssumption
  <2>3. /\ \A i : InHand(i)' <=> i = fifo[1].id
        /\ \A i : ~InHand(i)
        /\ InFifo(fifo[1].id)
    BY <2>1, <2>2 DEF InHand, InFifo
  <2> QED
    BY <2>1, <2>2, <2>3 DEF AnsweredOnce, Answered
<1>6. CASE req_free
  <2>1. s_req' = NULL /\ pc = "free" /\ UNCHANGED <<next_id, answers, void, fifo>>
    BY <1>6 DEF req_free
  <2>2. \A i : ~InHand(i)' /\ InFifo(i)' = InFifo(i)
    BY <2>1 DEF InHand, InFifo
  <2> QED
    BY <2>1, <2>2 DEF AnsweredOnce
<1>7. CASE PowerLoss
  <2>1. /\ fifo' = <<>> /\ s_req' = NULL /\ UNCHANGED <<next_id, answers>>
        /\ void' = void \cup {i \in 1..(next_id - 1) : answers[i] = 0}
    BY <1>7 DEF PowerLoss
  <2>2. \A i : ~InHand(i)' /\ ~InFifo(i)'
    BY <2>1 DEF InHand, InFifo
  <2> QED
    BY <2>1, <2>2 DEF AnsweredOnce
<1> QED
  BY <1>2, <1>3, <1>4, <1>5, <1>6, <1>7, QueueStep

(* A payload is freed with its node, and only then.                        *)
LEMMA PayloadStep ==
  ASSUME TypeOK, ThreadState, IdsInOrder, FutureIsBlank, PayloadFreedOnce, NodeHasPayload,
         [Next]_vars
  PROVE  PayloadFreedOnce' /\ NodeHasPayload'
<1> DEFINE P(i) == /\ payload[i] # "again"
                   /\ payload[i] = "held" => InFifo(i) \/ InHand(i) \/ i \in rejected
                   /\ InFifo(i) \/ InHand(i) => payload[i] # "freed"
<1>1. \A i \in Ids : P(i)
  BY DEF PayloadFreedOnce, NodeHasPayload
<1> SUFFICES \A i \in Ids : P(i)'
  BY DEF PayloadFreedOnce, NodeHasPayload
<1>2. CASE QueueKept \/ AnswerGiven
  BY <1>1, <1>2 DEF QueueKept, AnswerGiven, InFifo, InHand
<1>3. ASSUME NEW cmd \in Cmds, nrf_modem_softsim_req_handler(cmd) PROVE \A i \in Ids : P(i)'
  <2>1. /\ next_id \in Ids
        /\ payload'[next_id] \in {"none", "held"}
        /\ \A i \in Ids : i # next_id => payload'[i] = payload[i]
        /\ \A i : InHand(i)' = InHand(i)
    BY <1>3, PutEffect, Zenon DEF PayloadOf, InHand, TypeOK
  <2>2. CASE fifo' = QueuedLast([id |-> next_id, req |-> cmd]) /\ UNCHANGED rejected
    <3>1. \A i : InFifo(i)' <=> InFifo(i) \/ i = next_id
      BY <2>1, <2>2, PutMembers, Zenon
    <3> QED
      BY <1>1, <2>1, <2>2, <3>1, Zenon
  <2>3. CASE UNCHANGED fifo /\ rejected' = rejected \cup {next_id}
    <3>1. \A i : InFifo(i)' = InFifo(i)
      BY <2>3, SMTT(30) DEF InFifo
    <3> QED
      BY <1>1, <2>1, <2>3, <3>1
  <2> QED
    BY <1>3, <2>2, <2>3, PutEffect, Zenon
<1>4. CASE fifo_get /\ fifo # <<>>
  <2>1. s_req = NULL /\ UNCHANGED <<payload, rejected>>
    BY <1>4 DEF fifo_get, req_vars, ThreadState
  <2>2. /\ 1 \in DOMAIN fifo /\ s_req' = fifo[1] /\ s_req' # NULL
        /\ \A i : InFifo(i)' <=> InFifo(i) /\ i # fifo[1].id
    BY <1>4, GetMembers, NodeAssumption
  <2>3. /\ \A i : InHand(i)' <=> i = fifo[1].id
        /\ \A i : ~InHand(i)
        /\ InFifo(fifo[1].id)
    BY <2>1, <2>2 DEF InHand, InFifo
  <2> QED
    BY <1>1, <2>1, <2>2, <2>3
<1>5. CASE req_free
  <2>1. s_req # NULL /\ s_req.id \in Ids /\ s_req.id < next_id /\ ~InFifo(s_req.id)
    BY <1>5, InHandType, FifoFacts, SMTT(30) DEF req_free, IdsInOrder, InFifo, Ids
  <2>2. /\ payload' = [payload EXCEPT ![s_req.id] = FreedPayload(payload[s_req.id])]
        /\ s_req' = NULL /\ UNCHANGED <<fifo, rejected>>
    BY <1>5 DEF req_free
  <2>3. \A i : ~InHand(i)' /\ InFifo(i)' = InFifo(i) /\ (InHand(i) <=> i = s_req.id)
    BY <2>1, <2>2 DEF InHand, InFifo
  <2>4. payload[s_req.id] \in {"none", "held"}
    BY <1>1, <2>1, <2>3 DEF TypeOK
  <2>5. payload'[s_req.id] \in {"none", "freed"}
    BY <2>1, <2>2, <2>4 DEF FreedPayload, TypeOK
  <2>6. \A i \in Ids : i # s_req.id => payload'[i] = payload[i]
    BY <2>1, <2>2 DEF TypeOK
  <2> QED
    BY <1>1, <2>1, <2>2, <2>3, <2>5, <2>6, SMTT(30)
<1>6. CASE PowerLoss
  <2>1. /\ fifo' = <<>> /\ s_req' = NULL
        /\ payload' = [i \in Ids |-> IF payload[i] = "held" THEN "none" ELSE payload[i]]
    BY <1>6 DEF PowerLoss
  <2>2. \A i : ~InHand(i)' /\ ~InFifo(i)'
    BY <2>1 DEF InHand, InFifo
  <2> QED
    BY <1>1, <2>1, <2>2
<1> QED
  BY <1>2, <1>3, <1>4, <1>5, <1>6, QueueStep

-----------------------------------------------------------------------------
(* The thread and its work item.                                           *)

(* The interrupt, as the work queue sees it.                               *)
LEMMA SubmitEffect ==
  ASSUME TypeOK, NEW cmd \in Cmds, nrf_modem_softsim_req_handler(cmd)
  PROVE  /\ boot \in {"registered", "started", "ready"}
         /\ UNCHANGED <<boot, pc, s_req, ops>>
         /\ \/ UNCHANGED <<fifo, queued, early>>
            \/ /\ boot # "registered" /\ queued' = TRUE
            \/ /\ boot = "registered" /\ queued' = FALSE
               /\ (\A k \in DOMAIN fifo : fifo[k].id \in early)
                    => \A k \in DOMAIN fifo' : fifo'[k].id \in early'
<1>1. boot \in {"registered", "started", "ready"} /\ UNCHANGED <<boot, pc, s_req, ops>>
  BY Zenon DEF nrf_modem_softsim_req_handler, MayInterrupt, worker_vars
<1>2. CASE UNCHANGED <<fifo, queued, early>>
  BY <1>1, <1>2
<1>3. CASE /\ fifo' = QueuedLast([id |-> next_id, req |-> cmd])
           /\ queued' = Submitted
           /\ early' = IF boot = "registered" THEN early \cup {next_id} ELSE early
  <2>1. CASE boot = "registered"
    <3>1. [id |-> next_id, req |-> cmd] \in Request
      BY Zenon DEF nrf_modem_softsim_req_handler, Request
    <3>2. /\ DOMAIN fifo' = 1..(Len(fifo) + 1)
          /\ \A k \in 1..Len(fifo) : fifo'[k].id = fifo[k].id
          /\ fifo'[Len(fifo) + 1].id = next_id
      BY <1>3, <3>1, FifoPut
    <3>3. Len(fifo) \in Nat /\ DOMAIN fifo = 1..Len(fifo)
      BY FifoFacts
    <3>4. \A k \in DOMAIN fifo' : k \in DOMAIN fifo \/ k = Len(fifo) + 1
      BY <3>2, <3>3, SMTT(30)
    <3>5. (\A k \in DOMAIN fifo : fifo[k].id \in early)
            => \A k \in DOMAIN fifo' : fifo'[k].id \in early \cup {next_id}
      BY <3>2, <3>3, <3>4
    <3> QED
      BY <1>1, <1>3, <2>1, <3>5, ZenonT(30) DEF Submitted
  <2>2. CASE boot # "registered"
    BY <1>1, <1>3, <2>2, Zenon DEF Submitted
  <2> QED
    BY <2>1, <2>2, Zenon
<1> QED
  BY <1>2, <1>3, Zenon DEF nrf_modem_softsim_req_handler

LEMMA ThreadStep ==
  ASSUME TypeOK, ThreadState, [Next]_vars
  PROVE  ThreadState'
<1> USE DEF worker_vars, core_vars, fs_vars, save_vars, req_vars
<1>1. CASE UNCHANGED vars
  BY <1>1 DEF vars, ThreadState
<1>2. CASE init_fs
  BY <1>2, SMTT(30) DEF init_fs, ThreadState
<1>3. CASE register
  BY <1>3 DEF register, ThreadState
<1>4. CASE start_queue
  BY <1>4 DEF start_queue, ThreadState
<1>5. CASE new_ctx
  BY <1>5 DEF new_ctx, ThreadState
<1>6. ASSUME NEW cmd \in Cmds, nrf_modem_softsim_req_handler(cmd) PROVE ThreadState'
  BY <1>6, SubmitEffect, Zenon DEF ThreadState
<1>7. CASE work_start
  BY <1>7 DEF work_start, ThreadState
<1>8. CASE fifo_get
  <2>1. boot \notin {"off", "mounted", "registered"} /\ boot' = boot
    BY <1>8 DEF fifo_get, ThreadState
  <2>2. CASE fifo = <<>>
    BY <1>8, <2>1, <2>2 DEF fifo_get, ThreadState
  <2>3. CASE fifo # <<>>
    <3>1. s_req' = Head(fifo) /\ Head(fifo) \in Request /\ s_req' # NULL
      BY <1>8, <2>3, FifoGet, NodeAssumption DEF fifo_get
    <3>2. /\ pc' \in {"serve", "poll", "transact"}
          /\ pc' = "poll" => s_req'.req = "STATUS"
          /\ pc' = "transact" => s_req'.req \in Apdus
      BY <1>8, <2>3 DEF fifo_get, Apdus
    <3> QED
      BY <2>1, <3>1, <3>2 DEF ThreadState
  <2> QED
    BY <2>2, <2>3
<1>9. CASE work_return
  BY <1>9 DEF work_return, ThreadState
<1>10. CASE NullContext /\ pc \in {"serve", "poll", "transact"}
  BY <1>10 DEF NullContext, ThreadState
<1>11. CASE AnswerGiven /\ boot' = boot /\ queued' = queued
  BY <1>11 DEF AnswerGiven, Answered, ThreadState
<1>12. CASE req_INIT \/ req_DEINIT \/ req_default
  <2>1. AnswerGiven
    BY <1>12, AnswerType, Zenon DEF req_INIT, req_DEINIT, req_default, AnswerGiven, Answered
  <2> QED
    BY <1>11, <1>12, <2>1, Zenon DEF req_INIT, req_DEINIT, req_default
<1>13. CASE (req_RESET \/ apdu_answer) /\ ~NullContext
  <2>1. AnswerGiven
    BY <1>13, AnswerType, Zenon DEF req_RESET, apdu_answer, AnswerGiven, Answered
  <2> QED
    BY <1>11, <1>13, <2>1, Zenon DEF req_RESET, apdu_answer
<1>14. CASE ss_poll /\ ~NullContext
  BY <1>14 DEF ss_poll, ThreadState, Apdus
<1>15. CASE \E f \in Files : core_evict(f) \/ \E c \in Contents : core_write(f, c)
  <2>1. UNCHANGED <<boot, fifo, queued, pc, s_req, early>>
    BY <1>15 DEF core_evict, core_write
  <2> QED
    BY <2>1, SMTT(30) DEF ThreadState
<1>16. CASE commit
  BY <1>16, SMTT(30) DEF commit, ThreadState
<1>17. CASE req_free
  BY <1>17 DEF req_free, ThreadState
<1>18. CASE PowerLoss
  <2>1. boot' = "off" /\ pc' = "idle" /\ queued' = FALSE /\ fifo' = <<>> /\ s_req' = NULL
    BY <1>18 DEF PowerLoss
  <2> QED
    BY <2>1 DEF ThreadState
<1>19. CASE req_RESET \/ ss_poll \/ apdu_answer
  <2>1. pc \in {"serve", "poll", "transact"}
    BY <1>19, Zenon DEF req_RESET, ss_poll, apdu_answer
  <2> QED
    BY <1>10, <1>13, <1>14, <1>19, <2>1
<1> QED
  BY <1>1, <1>2, <1>3, <1>4, <1>5, <1>6, <1>7, <1>8, <1>9, <1>12, <1>15, <1>16, <1>17, <1>18, <1>19, SMTT(30)
  DEF Next, nrf_softsim_init, worker

(* A wakeup that is due stays due, whichever way the interrupt falls.      *)
LEMMA WakeStep ==
  ASSUME TypeOK, ThreadState, ThreadState', WakeupPending, [Next]_vars
  PROVE  WakeupPending'
<1> USE DEF worker_vars, core_vars, fs_vars, save_vars, req_vars
<1>1. CASE UNCHANGED vars
  BY <1>1 DEF vars, WakeupPending
<1>2. CASE nrf_softsim_init
  BY <1>2, Zenon DEF nrf_softsim_init, init_fs, register, start_queue, new_ctx, WakeupPending
<1>3. ASSUME NEW cmd \in Cmds, nrf_modem_softsim_req_handler(cmd) PROVE WakeupPending'
  <2>1. CASE UNCHANGED <<fifo, queued, early>>
    BY <1>3, <2>1, SubmitEffect DEF WakeupPending
  <2>2. CASE queued' = TRUE
    BY <2>2 DEF WakeupPending
  <2>3. CASE boot = "registered"
    BY <1>3, <2>3, SubmitEffect, Zenon DEF ThreadState, WakeupPending
  <2> QED
    BY <1>3, <2>1, <2>2, <2>3, SubmitEffect, Zenon
<1>4. CASE work_start
  BY <1>4 DEF work_start, WakeupPending
<1>5. CASE fifo_get
  <2>1. CASE fifo = <<>>
    BY <1>5, <2>1 DEF fifo_get, WakeupPending
  <2>2. CASE fifo # <<>>
    <3>1. pc' \in {"serve", "poll", "transact"}
      BY <1>5, <2>2 DEF fifo_get
    <3> QED
      BY <3>1 DEF WakeupPending
  <2> QED
    BY <2>1, <2>2
<1>6. CASE work_return
  BY <1>6 DEF work_return, WakeupPending
<1>7. CASE pc' \notin {"idle", "return"}
  BY <1>7 DEF WakeupPending
<1>8. CASE req_INIT \/ req_DEINIT \/ req_RESET \/ req_default \/ ss_poll \/ apdu_answer \/ commit \/ req_free
  BY <1>7, <1>8, Zenon DEF req_INIT, req_DEINIT, req_RESET, req_default, ss_poll, apdu_answer, commit,
                    req_free, NullContext
<1>9. CASE \E f \in Files : core_evict(f) \/ \E c \in Contents : core_write(f, c)
  BY <1>7, <1>9 DEF core_evict, core_write
<1>10. CASE PowerLoss
  <2>1. fifo' = <<>>
    BY <1>10, SMTT(30) DEF PowerLoss
  <2> QED
    BY <2>1 DEF WakeupPending
<1> QED
  BY <1>1, <1>2, <1>3, <1>4, <1>5, <1>6, <1>8, <1>9, <1>10, SMTT(30) DEF Next, worker

-----------------------------------------------------------------------------
(* The contexts.                                                           *)

(* Before nrf_softsim_init has returned, and unless a request came, the    *)
(* thread is idle: no step of it is possible.                              *)
LEMMA NotHastyIdle ==
  ASSUME ContextCounted, worker, ~hasty
  PROVE  boot = "ready"
<1> SUFFICES ASSUME boot # "ready" PROVE FALSE
  OBVIOUS
<1>1. pc = "idle" /\ ~queued
  BY DEF ContextCounted
<1> QED
  BY <1>1 DEF worker, work_start, fifo_get, work_return, req_INIT, req_DEINIT, req_RESET,
              req_default, ss_poll, apdu_answer, core_evict, core_write, commit, req_free

(* The thread leaves boot and hasty alone.                                 *)
LEMMA WorkerKeepsBoot ==
  ASSUME worker
  PROVE  boot' = boot /\ hasty' = hasty
BY Zenon DEF worker, work_start, fifo_get, work_return, req_INIT, req_DEINIT, req_RESET, req_default,
       ss_poll, apdu_answer, core_evict, core_write, commit, req_free, NullContext, req_vars

LEMMA ContextStep ==
  ASSUME TypeOK, ThreadState, ContextCounted, OneContext, [Next]_vars
  PROVE  ContextCounted' /\ OneContext'
<1> USE DEF worker_vars, core_vars, fs_vars, save_vars, req_vars
<1>0. live \in Nat /\ ctx \in BOOLEAN
  BY DEF TypeOK
<1>1. CASE UNCHANGED vars
  BY <1>1 DEF vars, ContextCounted, OneContext
<1>2. CASE init_fs \/ register \/ start_queue
  <2>1. boot # "ready" /\ UNCHANGED <<fifo, queued, pc, ctx, live, hasty>>
    BY <1>2, Zenon DEF init_fs, register, start_queue
  <2> QED
    BY <2>1 DEF ContextCounted, OneContext
<1>3. CASE new_ctx
  <2>1. PICK allocated \in BOOLEAN :
          ctx' = allocated /\ live' = IF allocated THEN live + 1 ELSE live
    BY <1>3 DEF new_ctx
  <2>2. boot = "started" /\ boot' = "ready" /\ hasty' = hasty
    BY <1>3 DEF new_ctx
  <2> QED
    BY <1>0, <2>1, <2>2 DEF ContextCounted, OneContext
<1>4. ASSUME NEW cmd \in Cmds, nrf_modem_softsim_req_handler(cmd) PROVE ContextCounted' /\ OneContext'
  <2>1. UNCHANGED <<ctx, live, boot>> /\ (hasty' <=> hasty \/ boot # "ready")
    BY <1>4, Zenon DEF nrf_modem_softsim_req_handler
  <2> QED
    BY <2>1 DEF ContextCounted, OneContext
<1>5. CASE worker
  <2>1. boot' = boot /\ hasty' = hasty /\ (hasty \/ boot = "ready")
    BY <1>5, NotHastyIdle, WorkerKeepsBoot
  <2>2. SUFFICES (ctx' => live' >= 1) /\ (hasty \/ live' = IF ctx' THEN 1 ELSE 0)
    BY <2>1 DEF ContextCounted, OneContext
  <2>3. CASE UNCHANGED <<ctx, live>>
    BY <2>3 DEF ContextCounted, OneContext
  <2>4. CASE req_INIT
    <3>1. \/ UNCHANGED <<ctx, live>>
          \/ ctx' = TRUE /\ live' = IF ctx THEN live ELSE live + 1
      BY <2>4, Zenon DEF req_INIT
    <3> QED
      BY <1>0, <3>1 DEF ContextCounted, OneContext
  <2>5. CASE req_DEINIT
    <3>1. \/ UNCHANGED <<ctx, live>>
          \/ ctx /\ ctx' = FALSE /\ live' = live - 1
      BY <2>5, Zenon DEF req_DEINIT
    <3> QED
      BY <1>0, <3>1 DEF ContextCounted, OneContext
  <2>6. req_INIT \/ req_DEINIT \/ UNCHANGED <<ctx, live>>
    BY <1>5, Zenon DEF worker, work_start, fifo_get, work_return, req_RESET, req_default, ss_poll,
                apdu_answer, core_evict, core_write, commit, req_free, NullContext
  <2> QED
    BY <2>3, <2>4, <2>5, <2>6
<1>6. CASE PowerLoss
  <2>1. /\ boot' = "off" /\ pc' = "idle" /\ queued' = FALSE /\ fifo' = <<>>
        /\ live' = 0 /\ ctx' = FALSE
    BY <1>6 DEF PowerLoss
  <2> QED
    BY <2>1 DEF ContextCounted, OneContext
<1> QED
  BY <1>1, <1>2, <1>3, <1>4, <1>5, <1>6 DEF Next, nrf_softsim_init

-----------------------------------------------------------------------------
(* What flash lags behind on.                                              *)

(* A step that touches neither the files nor the histories, and keeps an   *)
(* ENVELOPE on its way to the commit.                                      *)
LagKept ==
  /\ UNCHANGED <<fs_vars, save_vars>>
  /\ pc = "fault" => pc' = "fault"
  /\ pc \in {"transact", "commit"} /\ s_req.req = "ENVELOPE" =>
       pc' = "fault" \/ (pc' \in {"transact", "commit"} /\ s_req' = s_req)

LEMMA LagKeptStep ==
  ASSUME LagExplained, LagKept
  PROVE  LagExplained'
<1>1. /\ UNCHANGED <<fs_up, view, disk, refused, lazy>>
      /\ Unsaved' = Unsaved
  BY DEF LagKept, fs_vars, save_vars, Unsaved
<1>2. \A f : Lazily(f) => Lazily(f)' \/ pc' = "fault"
  BY <1>1 DEF Lazily, LagKept
<1> QED
  BY <1>1, <1>2 DEF LagExplained, LagKept

(* After a commit only what NVS refused lags behind.                       *)
LEMMA LagRefused ==
  ASSUME Unsaved' \subseteq refused', ~fs_up' => view' = disk'
  PROVE  LagExplained'
BY DEF LagExplained

LEMMA LagStep ==
  ASSUME TypeOK, ThreadState, LagExplained, [Next]_vars
  PROVE  LagExplained'
<1>1. CASE UNCHANGED vars
  <2>1. LagKept
    BY <1>1 DEF vars, worker_vars, fs_vars, save_vars, LagKept
  <2> QED
    BY <2>1, LagKeptStep
<1>2. CASE init_fs
  <2>1. /\ UNCHANGED <<view, disk, refused, lazy, pc, s_req>>
        /\ fs_up \in BOOLEAN /\ fs_up' \in BOOLEAN /\ (fs_up => fs_up')
    BY <1>2, MountEffect, Zenon DEF init_fs, worker_vars, save_vars, TypeOK
  <2>2. CASE fs_up
    <3>1. LagKept
      BY <2>1, <2>2 DEF LagKept, fs_vars, save_vars
    <3> QED
      BY <3>1, LagKeptStep
  <2>3. CASE ~fs_up
    <3>1. Unsaved' = {} /\ view' = disk'
      BY <2>1, <2>3 DEF LagExplained, Unsaved
    <3> QED
      BY <3>1, LagRefused
  <2> QED
    BY <2>1, <2>2, <2>3
<1>3. CASE register \/ start_queue \/ new_ctx
  <2>1. LagKept
    BY <1>3 DEF register, start_queue, new_ctx, worker_vars, LagKept
  <2> QED
    BY <2>1, LagKeptStep
<1>4. ASSUME NEW cmd \in Cmds, nrf_modem_softsim_req_handler(cmd) PROVE LagExplained'
  <2>1. LagKept
    BY <1>4, Zenon DEF nrf_modem_softsim_req_handler, worker_vars, LagKept
  <2> QED
    BY <2>1, LagKeptStep
<1>5. CASE work_start \/ fifo_get \/ work_return \/ req_free \/ req_default
  <2>1. LagKept
    BY <1>5, Zenon DEF work_start, fifo_get, work_return, req_free, req_default, LagKept
  <2> QED
    BY <2>1, LagKeptStep
<1>6. CASE req_INIT
  <2>1. /\ UNCHANGED <<view, disk, refused, lazy, s_req>> /\ pc = "serve" /\ pc' = "commit"
        /\ fs_up \in BOOLEAN /\ fs_up' \in BOOLEAN /\ (fs_up => fs_up')
    BY <1>6, MountEffect, Zenon DEF req_INIT, fs_vars, save_vars, TypeOK
  <2>2. CASE fs_up
    <3>1. LagKept
      BY <2>1, <2>2 DEF LagKept, fs_vars, save_vars
    <3> QED
      BY <3>1, LagKeptStep
  <2>3. CASE ~fs_up
    <3>1. Unsaved' = {} /\ view' = disk'
      BY <2>1, <2>3 DEF LagExplained, Unsaved
    <3> QED
      BY <3>1, LagRefused
  <2> QED
    BY <2>1, <2>2, <2>3
<1>7. CASE req_DEINIT
  <2>1. CASE ss_deinit_fs
    BY <2>1, DeinitEffect, LagRefused
  <2>2. CASE ~ss_deinit_fs
    <3>1. LagKept
      BY <1>7, <2>2 DEF req_DEINIT, LagKept
    <3> QED
      BY <3>1, LagKeptStep
  <2> QED
    BY <2>1, <2>2
<1>8. CASE req_RESET \/ ss_poll \/ apdu_answer
  <2>1. LagKept
    BY <1>8, Zenon DEF req_RESET, ss_poll, apdu_answer, NullContext, LagKept
  <2> QED
    BY <2>1, LagKeptStep
<1>9. ASSUME NEW f \in Files, core_evict(f) PROVE LagExplained'
  <2>1. /\ UNCHANGED <<pc, s_req, fs_up, view>> /\ fs_up
        /\ \/ /\ disk' = [g \in Files |-> IF g \in {f} THEN view[g] ELSE disk[g]]
              /\ refused' = (refused \ {f}) \cup {} /\ lazy' = lazy \ {f}
           \/ disk' = disk /\ refused' = (refused \ {}) \cup {f} /\ lazy' = lazy \ {}
    BY <1>9, Zenon DEF core_evict, Unsaved, FS!Flush, FS!Flushed, Saved, fs_vars
  <2>2. ASSUME NEW g \in Unsaved'
        PROVE  g \in refused' \/ (g \in Unsaved /\ g # f)
    BY <2>1, <2>2 DEF Unsaved
  <2>3. \A g : g # f => (g \in refused => g \in refused') /\ (Lazily(g) => Lazily(g)')
    BY <2>1 DEF Lazily
  <2> QED
    BY <2>1, <2>2, <2>3 DEF LagExplained
<1>10. ASSUME NEW f \in Files, NEW c \in Contents, core_write(f, c) PROVE LagExplained'
  <2>1. /\ UNCHANGED <<pc, s_req, fs_up>> /\ fs_up /\ pc \in {"poll", "transact"}
        /\ view' = [view EXCEPT ![f] = c]
        /\ \/ /\ f \in CommitFiles /\ disk' = [disk EXCEPT ![f] = c]
              /\ refused' = (refused \ {f}) \cup {} /\ lazy' = lazy \ {f}
           \/ /\ f \in CommitFiles /\ disk' = disk
              /\ refused' = (refused \ {}) \cup {f} /\ lazy' = lazy \ {}
           \/ /\ f \notin CommitFiles /\ disk' = disk /\ refused' = refused
              /\ lazy' = IF s_req.req = "ENVELOPE" THEN lazy ELSE lazy \cup {f}
    BY <1>10, SMTT(30) DEF core_write, Saved
  <2>2. \A g \in Files : g # f => (g \in Unsaved' <=> g \in Unsaved)
    BY <2>1 DEF Unsaved, TypeOK
  <2>3. \A g : g # f => (g \in refused => g \in refused') /\ (Lazily(g) => Lazily(g)')
    BY <2>1 DEF Lazily
  <2>4. f \in Unsaved' => f \in refused' \/ (f \notin CommitFiles /\ Lazily(f)')
    <3>1. CASE f \in CommitFiles
      BY <2>1, <3>1 DEF Unsaved, TypeOK
    <3>2. CASE f \notin CommitFiles
      <4>1. pc = "poll" => s_req.req # "ENVELOPE"
        BY DEF ThreadState
      <4> QED
        BY <2>1, <3>2, <4>1 DEF Lazily
    <3> QED
      BY <3>1, <3>2, SMTT(30)
  <2>5. Unsaved' \subseteq Files
    BY DEF Unsaved
  <2> QED
    BY <2>1, <2>2, <2>3, <2>4, <2>5 DEF LagExplained
<1>11. CASE commit
  <2>1. port_commit_fs
    BY <1>11 DEF commit
  <2> QED
    BY <2>1, CommitEffect, LagRefused DEF LagExplained
<1>12. CASE PowerLoss
  <2>1. fs_up' = FALSE /\ view' = disk'
    BY <1>12 DEF PowerLoss
  <2> QED
    BY <2>1 DEF LagExplained, Unsaved
<1> QED
  BY <1>1, <1>2, <1>3, <1>4, <1>5, <1>6, <1>7, <1>8, <1>9, <1>10, <1>11, <1>12, SMTT(30)
  DEF Next, nrf_softsim_init, worker

-----------------------------------------------------------------------------
(* The invariant.                                                          *)

LEMMA InitHandlerInv == Init => HandlerInv
<1> SUFFICES ASSUME Init PROVE HandlerInv
  OBVIOUS
<1>1. TypeOK
  BY InitType
<1>2. IdsInOrder /\ FutureIsBlank
  BY DEF Init, IdsInOrder, FutureIsBlank
<1>3. ThreadState /\ WakeupPending
  BY DEF Init, ThreadState, WakeupPending
<1>4. AnsweredOnce /\ PayloadFreedOnce /\ NodeHasPayload
  BY DEF Init, AnsweredOnce, PayloadFreedOnce, NodeHasPayload, InFifo, InHand
<1>5. ContextCounted /\ OneContext
  BY DEF Init, ContextCounted, OneContext
<1>6. LagExplained
  BY DEF Init, LagExplained, Unsaved, FS!Init
<1> QED
  BY <1>1, <1>2, <1>3, <1>4, <1>5, <1>6 DEF HandlerInv

LEMMA HandlerInvStep == HandlerInv /\ [Next]_vars => HandlerInv'
<1> SUFFICES ASSUME HandlerInv, [Next]_vars PROVE HandlerInv'
  OBVIOUS
<1>1. /\ TypeOK /\ IdsInOrder /\ FutureIsBlank /\ ThreadState
      /\ AnsweredOnce /\ PayloadFreedOnce /\ NodeHasPayload
      /\ WakeupPending /\ ContextCounted /\ OneContext /\ LagExplained
  BY DEF HandlerInv
<1>2. TypeOK' /\ IdsInOrder' /\ FutureIsBlank' /\ ThreadState'
  BY <1>1, TypeStep, OrderStep, FutureStep, ThreadStep
<1>3. AnsweredOnce' /\ PayloadFreedOnce' /\ NodeHasPayload'
  BY <1>1, AnsweredStep, PayloadStep
<1>4. WakeupPending' /\ ContextCounted' /\ OneContext' /\ LagExplained'
  BY <1>1, <1>2, WakeStep, ContextStep, LagStep
<1> QED
  BY <1>2, <1>3, <1>4 DEF HandlerInv

(* The inductive invariant holds throughout: for any sequence of requests, *)
(* interrupts, refused writes, failed allocations and power losses.        *)
THEOREM HandlerInvariance == Spec => []HandlerInv
BY InitHandlerInv, HandlerInvStep, PTL DEF Spec

(* Every request the modem sends is answered exactly once, or goes with a  *)
(* power loss: softsim_req_task neither drops one nor answers one twice.   *)
THEOREM RequestsAnsweredOnce == Spec => []AnsweredOnce
<1>1. HandlerInv => AnsweredOnce
  BY DEF HandlerInv
<1> QED
  BY <1>1, HandlerInvariance, PTL

(* nrf_modem_softsim_data_free is called at most once for each payload,    *)
(* and every payload that is still held has a node or was rejected.        *)
THEOREM PayloadsFreedOnce == Spec => []PayloadFreedOnce
<1>1. HandlerInv => PayloadFreedOnce
  BY DEF HandlerInv
<1> QED
  BY <1>1, HandlerInvariance, PTL

(* No wakeup is lost between the last k_fifo_get and the return.           *)
THEOREM WakeupsKept == Spec => []NoLostWakeup
<1>1. HandlerInv => NoLostWakeup
  BY DEF HandlerInv, WakeupPending, NoLostWakeup
<1> QED
  BY <1>1, HandlerInvariance, PTL

(* INIT and DEINIT leak no context and free none twice, unless the modem   *)
(* sends before nrf_softsim_init has returned.                             *)
THEOREM ContextsBalanced == Spec => []OneContext
<1>1. HandlerInv => OneContext
  BY DEF HandlerInv
<1> QED
  BY <1>1, HandlerInvariance, PTL

(* Between requests a power loss can undo only lazily written files and    *)
(* those NVS refused.                                                      *)
THEOREM RiskIsLazy == Spec => []OnlyLazyAtRisk
<1>1. HandlerInv => OnlyLazyAtRisk
  BY DEF HandlerInv, LagExplained, Lazily, OnlyLazyAtRisk
<1> QED
  BY <1>1, HandlerInvariance, PTL

-----------------------------------------------------------------------------
(* A suspended card.                                                       *)

LEMMA SuspendedStep ==
  ASSUME TypeOK, [Next]_vars, ctx, suspended, boot = "ready", boot' = "ready"
  PROVE  ctx' /\ (fs_up => fs_up')
<1> USE DEF core_vars, fs_vars
<1>1. CASE UNCHANGED vars
  BY <1>1 DEF vars
<1>2. CASE nrf_softsim_init
  BY <1>2 DEF nrf_softsim_init, init_fs, register, start_queue, new_ctx
<1>3. CASE \E cmd \in Cmds : nrf_modem_softsim_req_handler(cmd)
  BY <1>3 DEF nrf_modem_softsim_req_handler
<1>4. CASE work_start \/ fifo_get \/ work_return \/ req_default \/ ss_poll \/ req_free
  <2>1. UNCHANGED <<ctx, fs_up>>
    BY <1>4, Zenon DEF work_start, fifo_get, work_return, req_default, ss_poll, req_free, NullContext
  <2> QED
    BY <2>1
<1>5. CASE req_INIT \/ req_DEINIT
  BY <1>5, Zenon DEF req_INIT, req_DEINIT
<1>6. CASE req_RESET \/ apdu_answer
  <2>1. UNCHANGED <<ctx, fs_up>>
    BY <1>6, Zenon DEF req_RESET, apdu_answer, NullContext
  <2> QED
    BY <2>1
<1>7. CASE \E f \in Files : core_evict(f) \/ \E c \in Contents : core_write(f, c)
  <2>1. UNCHANGED <<ctx, fs_up>>
    BY <1>7, Zenon DEF core_evict, core_write, FS!Flush
  <2> QED
    BY <2>1
<1>8. CASE commit
  BY <1>8, CommitEffect DEF commit
<1>9. CASE PowerLoss
  BY <1>9 DEF PowerLoss
<1> QED
  BY <1>1, <1>2, <1>3, <1>4, <1>5, <1>6, <1>7, <1>8, <1>9 DEF Next, worker

(* Neither DEINIT nor any other request takes the context or the           *)
(* filesystem from a suspended card.                                       *)
THEOREM SuspensionKept == Spec => SuspendedIsKept
<1>1. HandlerInv /\ [Next]_vars =>
        [ctx /\ suspended /\ boot = "ready" /\ boot' = "ready" => ctx' /\ (fs_up => fs_up')]_vars
  BY SuspendedStep DEF HandlerInv
<1> QED
  BY <1>1, HandlerInvariance, PTL DEF Spec, SuspendedIsKept
=============================================================================
