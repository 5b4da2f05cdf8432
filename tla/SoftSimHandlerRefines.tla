----------------------- MODULE SoftSimHandlerRefines -----------------------
(***************************************************************************)
(* More about SoftSimHandler, from its inductive invariant: requests of an *)
(* open session meet no NULL context, and the handler implements           *)
(* RequestServer.                                                          *)
(***************************************************************************)
EXTENDS SoftSimHandlerProofs

USE HandlerAssumption

-----------------------------------------------------------------------------
(* The session and the context.                                            *)

(* A step that leaves the session and the context alone.                   *)
SessionKept ==
  /\ UNCHANGED <<boot, ctx, session, hasty>>
  /\ pc' = "fault" => pc = "fault" \/ ~ctx

LEMMA SessionKeptStep ==
  ASSUME SessionInv, SessionKept
  PROVE  SessionInv'
BY Zenon DEF SessionInv, SessionKept

(* A request other than INIT and DEINIT is answered.                       *)
LEMMA AnswerKeepsSession ==
  ASSUME NEW ok \in BOOLEAN, s_req.req \notin {"INIT", "DEINIT"}, Answer(s_req, ok)
  PROVE  session' = session
BY DEF Answer

LEMMA SessionWorkerStep ==
  ASSUME TypeOK, ThreadState, ContextCounted, SessionInv, worker
  PROVE  SessionInv'
<1>1. boot' = boot /\ hasty' = hasty
  BY WorkerKeepsBoot, Zenon DEF worker, work_start, fifo_get, work_return, req_INIT, req_DEINIT,
       req_RESET, req_default, ss_poll, apdu_answer, core_evict, core_write, commit, req_free,
       NullContext, req_vars
<1>2. boot = "ready" \/ hasty
  <2>1. pc # "idle" \/ queued
    BY Zenon DEF worker, work_start, fifo_get, work_return, req_INIT, req_DEINIT, req_RESET,
         req_default, ss_poll, apdu_answer, core_evict, core_write, commit, req_free
  <2> QED
    BY <2>1, Zenon DEF ContextCounted
<1>3. CASE work_start \/ work_return \/ commit \/ req_free
  <2>1. SessionKept
    BY <1>1, <1>3, Zenon DEF work_start, work_return, commit, req_free, SessionKept, core_vars
  <2> QED
    BY <2>1, SessionKeptStep
<1>4. CASE \E f \in Files : core_evict(f) \/ \E c \in Contents : core_write(f, c)
  <2>1. SessionKept
    BY <1>1, <1>4, Zenon DEF core_evict, core_write, SessionKept, core_vars
  <2> QED
    BY <2>1, SessionKeptStep
<1>5. CASE fifo_get
  <2>1. pc' # "fault" /\ UNCHANGED <<ctx, session>>
    BY <1>5 DEF fifo_get, core_vars
  <2>2. SessionKept
    BY <1>1, <2>1 DEF SessionKept
  <2> QED
    BY <2>2, SessionKeptStep
<1>6. CASE req_INIT
  <2>1. /\ pc' = "commit" /\ s_req.req = "INIT"
        /\ Answer(s_req, FALSE) \/ (Answer(s_req, TRUE) /\ ctx' = TRUE)
    BY <1>6, Zenon DEF req_INIT
  <2>2. session' = "closed" \/ (session' = "open" /\ ctx' = TRUE)
    BY <2>1 DEF Answer
  <2> QED
    BY <1>1, <1>2, <2>1, <2>2 DEF SessionInv
<1>7. CASE req_DEINIT
  <2>1. pc' = "commit" /\ session' = "closed"
    BY <1>7 DEF req_DEINIT, Answer
  <2> QED
    BY <2>1 DEF SessionInv
<1>8. CASE NullContext /\ ~ctx
  <2>1. SessionKept
    BY <1>1, <1>8, Zenon DEF NullContext, SessionKept, core_vars
  <2> QED
    BY <2>1, SessionKeptStep
<1>9. CASE ss_poll /\ ctx
  <2>1. SessionKept
    BY <1>1, <1>9, Zenon DEF ss_poll, SessionKept, core_vars
  <2> QED
    BY <2>1, SessionKeptStep
<1>10. CASE req_RESET /\ ctx
  <2>1. pc' = "commit" /\ ctx' = ctx /\ s_req.req = "RESET" /\ Answer(s_req, TRUE)
    BY <1>10, Zenon DEF req_RESET
  <2>2. session' = session
    BY <2>1, AnswerKeepsSession
  <2>3. SessionKept
    BY <1>1, <2>1, <2>2 DEF SessionKept
  <2> QED
    BY <2>3, SessionKeptStep
<1>11. CASE req_default
  <2>1. pc' = "commit" /\ ctx' = ctx /\ s_req.req = "UNKNOWN" /\ Answer(s_req, FALSE)
    BY <1>11, Zenon DEF req_default, core_vars
  <2>2. session' = session
    BY <2>1, AnswerKeepsSession
  <2>3. SessionKept
    BY <1>1, <2>1, <2>2 DEF SessionKept
  <2> QED
    BY <2>3, SessionKeptStep
<1>12. CASE apdu_answer /\ ctx
  <2>1. pc' # "fault" /\ ctx' = ctx /\ s_req.req \in Apdus /\ Answer(s_req, TRUE)
    BY <1>12 DEF apdu_answer, ThreadState
  <2>2. session' = session
    BY <2>1, AnswerKeepsSession DEF Apdus
  <2>3. SessionKept
    BY <1>1, <2>1, <2>2, Zenon DEF SessionKept
  <2> QED
    BY <2>3, SessionKeptStep
<1>13. req_RESET \/ ss_poll \/ apdu_answer => (NullContext /\ ~ctx) \/ ctx
  BY Zenon DEF req_RESET, ss_poll, apdu_answer
<1> QED
  BY <1>3, <1>4, <1>5, <1>6, <1>7, <1>8, <1>9, <1>10, <1>11, <1>12, <1>13, Zenon DEF worker

LEMMA SessionStep ==
  ASSUME TypeOK, ThreadState, ContextCounted, SessionInv, [Next]_vars
  PROVE  SessionInv'
<1>1. CASE UNCHANGED vars
  BY <1>1, Zenon DEF vars, worker_vars, core_vars, req_vars, SessionInv
<1>2. CASE init_fs \/ register \/ start_queue
  <2>1. boot # "ready" /\ UNCHANGED <<pc, ctx, session, hasty>>
    BY <1>2, Zenon DEF init_fs, register, start_queue, worker_vars, core_vars, req_vars
  <2> QED
    BY <2>1, Zenon DEF SessionInv
<1>3. CASE new_ctx
  <2>1. boot = "started" /\ boot' = "ready" /\ pc # "fault" /\ UNCHANGED <<pc, session, hasty>>
    BY <1>3 DEF new_ctx, worker_vars, req_vars
  <2> QED
    BY <2>1 DEF SessionInv
<1>4. CASE \E cmd \in Cmds : nrf_modem_softsim_req_handler(cmd)
  <2>1. pc # "fault" /\ UNCHANGED <<boot, pc, ctx, session>> /\ (hasty => hasty')
    BY <1>4, Zenon DEF nrf_modem_softsim_req_handler, worker_vars, core_vars
  <2> QED
    BY <2>1, Zenon DEF SessionInv
<1>5. CASE worker
  BY <1>5, SessionWorkerStep
<1>6. CASE PowerLoss
  <2>1. session' = "closed" /\ pc' = "idle"
    BY <1>6 DEF PowerLoss
  <2> QED
    BY <2>1 DEF SessionInv
<1> QED
  BY <1>1, <1>2, <1>3, <1>4, <1>5, <1>6, Zenon DEF Next, nrf_softsim_init

(* Whatever the modem sends and whenever, a context exists as long as a    *)
(* session is open, so that the requests of a session, however they queue  *)
(* and whatever allocation fails, never make the core run without one.     *)
(* RESET and APDUs do not look for a context: outside a session they may.  *)
THEOREM ContextInSession == Spec => []NullOnlyOutsideSession
<1>1. Init => SessionInv
  BY DEF Init, SessionInv
<1>2. HandlerInv /\ SessionInv /\ [Next]_vars => SessionInv'
  BY SessionStep DEF HandlerInv
<1>3. TypeOK /\ SessionInv => NullOnlyOutsideSession
  BY DEF TypeOK, SessionInv, NullOnlyOutsideSession
<1>4. HandlerInv => TypeOK
  BY DEF HandlerInv
<1> QED
  BY <1>1, <1>2, <1>3, <1>4, HandlerInvariance, PTL DEF Spec

-----------------------------------------------------------------------------
(* The handler implements RequestServer.                                   *)

LEMMA FifoIdsType ==
  ASSUME TypeOK
  PROVE  /\ FifoIds \in Seq(Ids)
         /\ Len(FifoIds) = Len(fifo)
         /\ \A k \in 1..Len(fifo) : FifoIds[k] = fifo[k].id
<1>1. /\ Len(fifo) \in Nat /\ DOMAIN fifo = 1..Len(fifo)
      /\ \A k \in 1..Len(fifo) : fifo[k].id \in Ids
  BY FifoFacts
<1>2. FifoIds = [k \in 1..Len(fifo) |-> fifo[k].id]
  BY <1>1 DEF FifoIds
<1>3. FifoIds \in Seq(Ids)
  BY <1>1, <1>2
<1> QED
  BY <1>1, <1>2, <1>3

LEMMA PendingType ==
  ASSUME TypeOK
  PROVE  InService \in Seq(Ids) /\ PendingIds \in Seq(Ids)
<1>1. InService \in Seq(Ids)
  BY SMTT(30) DEF InService, TypeOK, Request
<1> QED
  BY <1>1, FifoIdsType, ConcatProperties, SMTT(30) DEF PendingIds

(* The ids pending are those in the FIFO and the one in hand, unanswered.  *)
LEMMA PendingMembers ==
  ASSUME TypeOK
  PROVE  RS!Pending = {i \in Ids : InFifo(i) \/ (InHand(i) /\ answers[i] = 0)}
<1>1. /\ FifoIds \in Seq(Ids) /\ InService \in Seq(Ids) /\ PendingIds \in Seq(Ids)
      /\ Len(FifoIds) = Len(fifo) /\ DOMAIN fifo = 1..Len(fifo) /\ Len(fifo) \in Nat
      /\ \A k \in DOMAIN fifo : FifoIds[k] = fifo[k].id /\ fifo[k].id \in Ids
  BY FifoIdsType, PendingType, FifoFacts
<1>2. RS!Pending = Range(PendingIds)
  BY SMTT(30) DEF RS!Pending, Range
<1>3. Range(PendingIds) = Range(InService) \cup Range(FifoIds)
  BY <1>1, RangeConcatenation, SMTT(30) DEF PendingIds
<1>4. DOMAIN FifoIds = DOMAIN fifo
  BY DEF FifoIds
<1>5. Range(FifoIds) = {i \in Ids : InFifo(i)}
  BY <1>1, <1>4, SMTT(30) DEF Range, InFifo
<1>6. Range(InService) = {i \in Ids : InHand(i) /\ answers[i] = 0}
  <2>1. CASE s_req # NULL /\ answers[s_req.id] = 0
    <3>1. InService = <<s_req.id>> /\ s_req.id \in Ids
      BY <2>1, Zenon DEF InService, TypeOK, Request
    <3>2. Range(<<s_req.id>>) = {s_req.id}
      BY DEF Range
    <3> QED
      BY <2>1, <3>1, <3>2 DEF InHand
  <2>2. CASE ~(s_req # NULL /\ answers[s_req.id] = 0)
    <3>1. InService = <<>>
      BY <2>2 DEF InService
    <3>2. Range(<<>>) = {}
      BY DEF Range
    <3> QED
      BY <2>2, <3>1, <3>2 DEF InHand
  <2> QED
    BY <2>1, <2>2, SMTT(30)
<1> QED
  BY <1>2, <1>3, <1>5, <1>6, SMTT(30)

(* The requests known are exactly those the modem has sent.                *)
LEMMA KnownIds ==
  ASSUME HandlerInv
  PROVE  RS!Known = 1..(next_id - 1)
<1>1. TypeOK /\ IdsInOrder /\ FutureIsBlank /\ AnsweredOnce
  BY DEF HandlerInv
<1>2. RS!Pending = {i \in Ids : InFifo(i) \/ (InHand(i) /\ answers[i] = 0)}
  BY <1>1, PendingMembers
<1>3. next_id \in Nat /\ 1..(next_id - 1) \subseteq Ids /\ Ids \subseteq Nat \ {0} /\ void \subseteq Ids
  BY <1>1 DEF TypeOK, Ids
<1>4. ASSUME NEW i \in Ids, i >= next_id PROVE i \notin RS!Known
  <2>1. answers[i] = 0 /\ i \notin void
    BY <1>1, <1>4, SMTT(30) DEF FutureIsBlank
  <2>2. ~InFifo(i) /\ ~InHand(i)
    BY <1>1, <1>3, <1>4, FifoFacts, SMTT(30) DEF IdsInOrder, InFifo, InHand
  <2> QED
    BY <1>2, <2>1, <2>2 DEF RS!Known, AnsweredIds
<1>5. ASSUME NEW i \in 1..(next_id - 1) PROVE i \in RS!Known
  <2>1. answers[i] \in {0, 1} /\ (answers[i] = 0 => i \in void \/ InFifo(i) \/ InHand(i))
    BY <1>1 DEF AnsweredOnce
  <2> QED
    BY <1>2, <1>3, <2>1 DEF RS!Known, AnsweredIds
<1>6. RS!Known \subseteq Ids
  BY <1>2, <1>3, Zenon DEF RS!Known, AnsweredIds
<1>7. \A i \in Ids : i >= next_id \/ i \in 1..(next_id - 1)
  BY <1>3
<1> QED
  BY <1>3, <1>4, <1>5, <1>6, <1>7, Zenon

LEMMA AnswerMaps ==
  ASSUME HandlerInv, AnswerGiven
  PROVE  RS!Serve
<1>1. TypeOK /\ ThreadState /\ IdsInOrder /\ AnsweredOnce
  BY SMTT(30) DEF HandlerInv
<1>2. s_req # NULL /\ s_req.id \in Ids /\ s_req.id \in 1..(next_id - 1)
  BY <1>1, InHandType, SMTT(30) DEF AnswerGiven, IdsInOrder, Ids, TypeOK
<1>3. answers[s_req.id] = 0
  BY <1>1, <1>2, SMTT(30) DEF AnswerGiven, AnsweredOnce, InHand
<1>4. /\ answers'[s_req.id] = 1 /\ s_req' = s_req /\ fifo' = fifo /\ void' = void
      /\ \A i \in Ids : i # s_req.id => answers'[i] = answers[i]
  BY <1>1, <1>2, <1>3, SMTT(30) DEF AnswerGiven, TypeOK
<1>5. /\ InService = <<s_req.id>> /\ InService' = <<>> /\ FifoIds' = FifoIds
  BY <1>2, <1>3, <1>4 DEF InService, FifoIds
<1>6. FifoIds \in Seq(Ids)
  BY <1>1, FifoIdsType
<1>7. PendingIds = <<s_req.id>> \o FifoIds /\ PendingIds' = FifoIds
  BY <1>5, <1>6, ConcatEmptySeq DEF PendingIds
<1>8. PendingIds # <<>> /\ Head(PendingIds) = s_req.id /\ Tail(PendingIds) = FifoIds
  BY <1>2, <1>6, <1>7
<1>9. AnsweredIds' = AnsweredIds \cup {s_req.id}
  BY <1>2, <1>4, SMTT(30) DEF AnsweredIds
<1> QED
  BY <1>4, <1>7, <1>8, <1>9 DEF RS!Serve

LEMMA PutMaps ==
  ASSUME HandlerInv, NEW cmd \in Cmds, nrf_modem_softsim_req_handler(cmd)
  PROVE  \E i \in Ids : RS!Accept(i) \/ RS!Refuse(i)
<1>1. TypeOK /\ IdsInOrder /\ FutureIsBlank
  BY DEF HandlerInv
<1>2. /\ next_id \in Ids /\ UNCHANGED <<s_req, void>> /\ RS!Fresh(next_id)
  BY <1>1, PutEffect, KnownIds, ZenonT(30) DEF RS!Fresh
<1>3. answers[next_id] = 0 /\ (s_req # NULL => s_req.id \in Ids /\ s_req.id # next_id)
  BY <1>1, <1>2, SMTT(30) DEF FutureIsBlank, IdsInOrder, TypeOK, Request, Ids
<1>4. /\ FifoIds \in Seq(Ids) /\ InService \in Seq(Ids) /\ PendingIds \in Seq(Ids)
  BY <1>1, FifoIdsType, PendingType
<1>5. CASE /\ fifo' = QueuedLast([id |-> next_id, req |-> cmd]) /\ UNCHANGED answers
           /\ [id |-> next_id, req |-> cmd] \in Request
  <2>1. InService' = InService /\ AnsweredIds' = AnsweredIds
    BY <1>2, <1>5, ZenonT(30) DEF InService, AnsweredIds
  <2>2. FifoIds' = Append(FifoIds, next_id)
    <3>1. /\ Len(fifo) \in Nat /\ DOMAIN fifo' = 1..(Len(fifo) + 1)
          /\ \A k \in 1..Len(fifo) : fifo'[k].id = fifo[k].id
          /\ fifo'[Len(fifo) + 1].id = next_id
      BY <1>1, <1>5, FifoPut, FifoFacts, SMTT(30)
    <3>2. Len(FifoIds) = Len(fifo) /\ \A k \in 1..Len(fifo) : FifoIds[k] = fifo[k].id
      BY <1>1, FifoIdsType
    <3>3. FifoIds' = [k \in 1..(Len(fifo) + 1) |-> fifo'[k].id]
      BY <3>1, SMTT(30) DEF FifoIds
    <3>4. \A k \in 1..(Len(fifo) + 1) : k \in 1..Len(fifo) \/ k = Len(fifo) + 1
      BY <3>1
    <3>5. \A k \in 1..(Len(fifo) + 1) : fifo'[k].id \in Ids
      BY <1>2, <1>4, <3>1, <3>2, <3>4, ElementOfSeq, ZenonT(30)
    <3>6. FifoIds' \in Seq(Ids) /\ Len(FifoIds') = Len(fifo) + 1
      BY <3>1, <3>3, <3>5, SMTT(30)
    <3> DEFINE longer == Append(FifoIds, next_id)
    <3>7. /\ longer \in Seq(Ids) /\ Len(longer) = Len(fifo) + 1
          /\ \A k \in 1..Len(fifo) : longer[k] = FifoIds[k]
          /\ longer[Len(fifo) + 1] = next_id
      BY <1>2, <1>4, <3>2, AppendProperties
    <3>8. \A k \in 1..(Len(fifo) + 1) : FifoIds'[k] = longer[k]
      BY <3>1, <3>2, <3>3, <3>4, <3>7, Zenon
    <3> QED
      BY <3>6, <3>7, <3>8, SeqEqual, SMTT(30)
  <2>3. FifoIds' = FifoIds \o <<next_id>> /\ <<next_id>> \in Seq(Ids)
    BY <1>2, <1>4, <2>2, AppendIsConcat
  <2>4. PendingIds' = PendingIds \o <<next_id>>
    BY <1>4, <2>1, <2>3, ConcatAssociative DEF PendingIds
  <2>5. PendingIds' = Append(PendingIds, next_id)
    BY <1>2, <1>4, <2>4, AppendIsConcat
  <2> QED
    BY <1>2, <2>1, <2>5 DEF RS!Accept
<1>6. CASE /\ answers' = [answers EXCEPT ![next_id] = answers[next_id] + 1] /\ UNCHANGED fifo
  <2>1. answers'[next_id] = 1 /\ \A i \in Ids : i # next_id => answers'[i] = answers[i]
    BY <1>1, <1>2, <1>3, <1>6, SMTT(30) DEF TypeOK
  <2>2. InService' = InService /\ FifoIds' = FifoIds
    BY <1>2, <1>3, <1>6, <2>1, Zenon DEF InService, FifoIds
  <2>3. AnsweredIds' = AnsweredIds \cup {next_id}
    BY <1>2, <2>1, SMTT(30) DEF AnsweredIds
  <2> QED
    BY <1>2, <2>2, <2>3, SMTT(30) DEF RS!Refuse, PendingIds
<1> QED
  BY <1>1, <1>5, <1>6, PutEffect

LEMMA GetMaps ==
  ASSUME HandlerInv, fifo_get, fifo # <<>>
  PROVE  UNCHANGED <<PendingIds, AnsweredIds, void>>
<1>1. TypeOK /\ ThreadState /\ IdsInOrder /\ AnsweredOnce
  BY DEF HandlerInv
<1>2. s_req = NULL /\ UNCHANGED <<answers, void>> /\ fifo' = Tail(fifo)
  BY <1>1 DEF fifo_get, req_vars, ThreadState
<1>3. 1 \in DOMAIN fifo /\ s_req' = fifo[1] /\ s_req' # NULL
  BY <1>1, GetMembers, NodeAssumption
<1>4. answers[fifo[1].id] = 0
  <2>1. InFifo(fifo[1].id) /\ fifo[1].id \in Ids /\ fifo[1].id < next_id
    BY <1>1, <1>3, FifoFacts, SMTT(30) DEF InFifo, IdsInOrder
  <2>2. fifo[1].id \in 1..(next_id - 1)
    BY <1>1, <2>1, SMTT(30) DEF Ids, TypeOK
  <2> QED
    BY <1>1, <2>1, <2>2, Zenon DEF AnsweredOnce
<1>5. InService = <<>> /\ InService' = <<fifo[1].id>>
  BY <1>2, <1>3, <1>4 DEF InService
<1>6. FifoIds = <<fifo[1].id>> \o FifoIds'
  <2>1. /\ DOMAIN fifo' = 1..(Len(fifo) - 1) /\ Len(fifo) \in Nat \ {0}
        /\ \A k \in 1..(Len(fifo) - 1) : fifo'[k] = fifo[k + 1]
    BY <1>1, <1>2, FifoGet
  <2>2. /\ FifoIds \in Seq(Ids) /\ Len(FifoIds) = Len(fifo)
        /\ \A k \in 1..Len(fifo) : FifoIds[k] = fifo[k].id
    BY <1>1, FifoIdsType
  <2>3. FifoIds # <<>> /\ Head(FifoIds) = fifo[1].id
    BY <2>1, <2>2
  <2>4. FifoIds' = [k \in 1..(Len(fifo) - 1) |-> fifo[k + 1].id]
    BY <2>1 DEF FifoIds
  <2>5. /\ Tail(FifoIds) \in Seq(Ids) /\ Len(Tail(FifoIds)) = Len(fifo) - 1
        /\ \A k \in 1..(Len(fifo) - 1) : Tail(FifoIds)[k] = FifoIds[k + 1]
    BY <2>2, <2>3, HeadTailProperties, SMTT(30)
  <2>6. FifoIds' = Tail(FifoIds)
    <3>1. \A k \in 1..(Len(fifo) - 1) : k + 1 \in 1..Len(fifo) /\ FifoIds'[k] = Tail(FifoIds)[k]
      BY <2>1, <2>2, <2>4, <2>5, SMTT(30)
    <3>2. \A k \in 1..(Len(fifo) - 1) : fifo[k + 1].id \in Ids
      BY <1>1, <3>1, FifoFacts
    <3>3. FifoIds' \in Seq(Ids) /\ Len(FifoIds') = Len(fifo) - 1
      BY <2>1, <2>4, <3>2
    <3> QED
      BY <2>5, <3>1, <3>3, SeqEqual, SMTT(30)
  <2>7. Head(FifoIds) \in Ids /\ <<Head(FifoIds)>> \in Seq(Ids) /\ Tail(FifoIds) \in Seq(Ids)
    BY <2>2, <2>3, HeadTailProperties, SMTT(30)
  <2> DEFINE joined == <<Head(FifoIds)>> \o Tail(FifoIds)
  <2>8. /\ joined \in Seq(Ids) /\ Len(joined) = 1 + Len(Tail(FifoIds))
        /\ \A k \in 1..(1 + Len(Tail(FifoIds))) :
             joined[k] = IF k <= 1 THEN Head(FifoIds) ELSE Tail(FifoIds)[k - 1]
    <3>1. Len(<<Head(FifoIds)>>) = 1 /\ <<Head(FifoIds)>>[1] = Head(FifoIds)
      OBVIOUS
    <3>2. Len(Tail(FifoIds)) \in Nat
      BY <2>7, LenProperties
    <3>3. \A k \in 1..(1 + Len(Tail(FifoIds))) : k <= 1 => k = 1
      BY <3>2
    <3> QED
      BY <2>7, <3>1, <3>3, ConcatProperties
  <2>11. Len(Tail(FifoIds)) = Len(FifoIds) - 1 /\ Head(FifoIds) = FifoIds[1]
    BY <2>2, <2>3, HeadTailProperties, SMTT(30)
  <2>9. Len(joined) = Len(FifoIds) /\ \A k \in 1..Len(FifoIds) : joined[k] = FifoIds[k]
    BY <2>1, <2>2, <2>5, <2>8, <2>11, SMTT(30)
  <2>10. joined = FifoIds
    BY <2>2, <2>8, <2>9, SeqEqual
  <2> QED
    BY <2>3, <2>6, <2>10
<1>7. PendingIds = FifoIds
  BY <1>1, <1>5, FifoIdsType, ConcatEmptySeq DEF PendingIds
<1> QED
  BY <1>2, <1>5, <1>6, <1>7 DEF PendingIds, AnsweredIds

LEMMA FreeMaps ==
  ASSUME HandlerInv, req_free
  PROVE  UNCHANGED <<PendingIds, AnsweredIds, void>>
<1>1. TypeOK /\ ThreadState /\ IdsInOrder /\ AnsweredOnce
  BY DEF HandlerInv
<1>2. pc = "free" /\ s_req' = NULL /\ UNCHANGED <<answers, void, fifo>>
  BY DEF req_free
<1>3. s_req # NULL /\ s_req.id \in Ids /\ s_req.id < next_id
  BY <1>1, <1>2, InHandType DEF IdsInOrder
<1>4. s_req.id \in 1..(next_id - 1)
  BY <1>1, <1>3 DEF Ids, TypeOK
<1>5. answers[s_req.id] = 1
  BY <1>1, <1>2, <1>3, <1>4, SMTT(30) DEF AnsweredOnce, InHand
<1>6. InService = <<>> /\ InService' = <<>>
  BY <1>2, <1>5, SMTT(30) DEF InService
<1> QED
  BY <1>2, <1>6 DEF PendingIds, FifoIds, AnsweredIds

LEMMA LossMaps ==
  ASSUME HandlerInv, PowerLoss
  PROVE  RS!Lose
<1>1. TypeOK /\ IdsInOrder /\ AnsweredOnce
  BY DEF HandlerInv
<1>2. /\ fifo' = <<>> /\ s_req' = NULL /\ answers' = answers
      /\ void' = void \cup {i \in 1..(next_id - 1) : answers[i] = 0}
  BY DEF PowerLoss
<1>3. InService' = <<>> /\ FifoIds' = <<>>
  BY <1>2 DEF InService, FifoIds
<1>4. PendingIds' = <<>>
  BY <1>3 DEF PendingIds
<1>5. RS!Pending = {i \in Ids : InFifo(i) \/ (InHand(i) /\ answers[i] = 0)}
  BY <1>1, PendingMembers
<1>6. ASSUME NEW i \in RS!Pending PROVE i \in 1..(next_id - 1) /\ answers[i] = 0
  <2>1. i \in Ids /\ i < next_id
    BY <1>1, <1>5, FifoFacts, Zenon DEF IdsInOrder, InFifo, InHand
  <2>2. i \in 1..(next_id - 1)
    BY <1>1, <2>1, SMTT(30) DEF Ids, TypeOK
  <2> QED
    BY <1>1, <1>5, <2>2 DEF AnsweredOnce
<1>7. ASSUME NEW i \in 1..(next_id - 1), answers[i] = 0 PROVE i \in void \/ i \in RS!Pending
  <2>1. i \in Ids
    BY <1>1 DEF TypeOK, Ids
  <2> QED
    BY <1>1, <1>5, <1>7, <2>1, SMTT(30) DEF AnsweredOnce
<1>8. void' = void \cup RS!Pending
  BY <1>2, <1>6, <1>7
<1> QED
  BY <1>2, <1>4, <1>8, Zenon DEF RS!Lose, AnsweredIds

LEMMA RequestMaps == HandlerInv /\ [Next]_vars => [RS!RNext]_(RS!rvars)
<1> SUFFICES ASSUME HandlerInv, [Next]_vars PROVE [RS!RNext]_(RS!rvars)
  OBVIOUS
<1>1. CASE QueueKept
  <2>1. UNCHANGED <<PendingIds, AnsweredIds, void>>
    BY <1>1 DEF QueueKept, PendingIds, InService, FifoIds, AnsweredIds
  <2> QED
    BY <2>1 DEF RS!rvars
<1>2. CASE AnswerGiven
  BY <1>2, AnswerMaps DEF RS!RNext
<1>3. CASE \E cmd \in Cmds : nrf_modem_softsim_req_handler(cmd)
  BY <1>3, PutMaps DEF RS!RNext
<1>4. CASE fifo_get /\ fifo # <<>>
  BY <1>4, GetMaps DEF RS!rvars
<1>5. CASE req_free
  BY <1>5, FreeMaps DEF RS!rvars
<1>6. CASE PowerLoss
  BY <1>6, LossMaps DEF RS!RNext
<1> QED
  BY <1>1, <1>2, <1>3, <1>4, <1>5, <1>6, QueueStep DEF HandlerInv

LEMMA InitRequestMaps == Init => RS!RInit
<1> SUFFICES ASSUME Init PROVE RS!RInit
  OBVIOUS
<1>1. InService = <<>> /\ FifoIds = <<>> /\ AnsweredIds = {} /\ void = {}
  BY DEF Init, InService, FifoIds, AnsweredIds
<1> QED
  BY <1>1 DEF RS!RInit, PendingIds

(* The interrupt handler, the FIFO and the thread together are a server    *)
(* that answers the requests it accepts once each and in their order, and  *)
(* at a power loss loses exactly those it still owes.                      *)
THEOREM ServesInOrder == Spec => ImplementsRequestServer
BY InitRequestMaps, RequestMaps, HandlerInvariance, PTL DEF Spec, ImplementsRequestServer, RS!RSpec
=============================================================================
