---------------------------- MODULE RequestServer ----------------------------
(***************************************************************************)
(* What the SoftSIM promises the modem: the requests it accepts are        *)
(* answered once each, in the order in which they came; one that it cannot *)
(* accept is answered at once; a power loss takes the pending ones away,   *)
(* all together.  SoftSimHandler implements this with a FIFO, a work item  *)
(* and a thread.                                                           *)
(***************************************************************************)
EXTENDS Integers, Sequences

CONSTANT Ids  \* the request ids, 1..n

VARIABLES
  pending,   \* the ids accepted and not answered, oldest first
  answered,  \* the ids answered
  lost       \* the ids a power loss took away

rvars == <<pending, answered, lost>>

Pending == {pending[k] : k \in DOMAIN pending}

Known == Pending \cup answered \cup lost

(* Ids are given out in order. *)
Fresh(i) == i \in Ids /\ Known = 1..(i - 1)

RInit == pending = <<>> /\ answered = {} /\ lost = {}

Accept(i) ==
  /\ Fresh(i)
  /\ pending' = Append(pending, i)
  /\ UNCHANGED <<answered, lost>>

Refuse(i) ==
  /\ Fresh(i)
  /\ answered' = answered \cup {i}
  /\ UNCHANGED <<pending, lost>>

Serve ==
  /\ pending # <<>>
  /\ answered' = answered \cup {Head(pending)}
  /\ pending' = Tail(pending)
  /\ UNCHANGED lost

Lose ==
  /\ lost' = lost \cup Pending
  /\ pending' = <<>>
  /\ UNCHANGED answered

RNext == (\E i \in Ids : Accept(i) \/ Refuse(i)) \/ Serve \/ Lose

RSpec == RInit /\ [][RNext]_rvars
=============================================================================
