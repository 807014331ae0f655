--------------------------- MODULE ConsumerProofs ---------------------------
(***************************************************************************)
(* The consumer, for any number of events, workers and copies, changes the *)
(* payment aggregate only as Ledger allows; what LedgerProofs establishes  *)
(* of the aggregate therefore holds of the whole pipeline.                 *)
(*                                                                         *)
(* Then the pipeline's own promises: no event is lost, none has its effect *)
(* twice, a failure is seen and nothing is paid without a cause.  The      *)
(* invariant says of every event where its copies are and what its inbox   *)
(* row and the ledger know of it; each step of a worker works on one       *)
(* event, so the others keep theirs.                                       *)
(***************************************************************************)
EXTENDS Consumer, LedgerProofs

(* A commit applies one outcome to one attempt, or leaves the ledger alone.*)
LEMMA CommitIsLedgerStep ==
    ASSUME NEW e \in Events, Commit(e)
    PROVE  LedgerNext \/ UNCHANGED ledger
<1>1. payload[e] \in Attempts \X Outcomes
  BY DEF Commit, Usable
<1>2. payload[e][1] \in Attempts /\ payload[e][2] \in Outcomes
  BY <1>1
<1>3. ApplyOutcome(payload[e][1], payload[e][2]) \/ UNCHANGED ledger
  BY DEF Commit
<1> QED
  BY <1>2, <1>3 DEF LedgerNext

(* Every step of the pipeline is a step of the ledger or invisible to it.  *)
LEMMA StepIsLedgerStep ==
    ASSUME [Next]_vars, \A w \in Workers : pc[w] = "process" => ev[w] \in Events
    PROVE  [LedgerNext]_ledger
<1>1. CASE UNCHANGED vars
  BY <1>1 DEF vars
<1>2. CASE Checkout
  BY <1>2 DEF Checkout, LedgerNext
<1>3. ASSUME NEW e \in Events, EventStep(e) PROVE UNCHANGED ledger
  BY <1>3 DEF EventStep, StorePending, StoreIgnored, RelayDelivers, RelaySettles,
             RetryExpires, Reprocess
<1>4. ASSUME NEW w \in Workers, WorkerStep(w) PROVE [LedgerNext]_ledger
  <2>1. CASE Process(w) \/ CommitReplyLost(w)
    BY <2>1, CommitIsLedgerStep DEF Process, CommitReplyLost
  <2>2. CASE \/ \E e \in Events : Deliver(w, e)
             \/ AlreadyProcessed(w) \/ ProcessError(w) \/ ProcessTerminal(w)
    BY <2>2 DEF Deliver, AlreadyProcessed, ProcessError, ProcessTerminal
  <2>3. CASE Record(w) \/ RecordReplyLost(w) \/ RecordError(w)
    BY <2>3 DEF Record, RecordReplyLost, RecordError
  <2>4. CASE Republish(w) \/ RepublishFails(w) \/ RepublishUnconfirmed(w)
    BY <2>4 DEF Republish, RepublishFails, RepublishUnconfirmed
  <2>5. CASE Ack(w) \/ AckFails(w) \/ ChannelLost(w) \/ Crash(w)
    BY <2>5 DEF Ack, AckFails, ChannelLost, Crash
  <2> QED
    BY <1>4, <2>1, <2>2, <2>3, <2>4, <2>5 DEF WorkerStep
<1> QED
  BY <1>1, <1>2, <1>3, <1>4 DEF Next

(* A worker that is processing has an event in hand.                       *)
InHand ==
    /\ pc \in [Workers -> PCs] /\ ev \in [Workers -> Events \cup {None}]
    /\ \A w \in Workers : pc[w] # "idle" => ev[w] \in Events

(* It holds at the start and every step keeps it.                          *)
LEMMA InHandInductive ==
    /\ Init => InHand
    /\ InHand /\ [Next]_vars => InHand'
<1>1. Init => InHand
  BY DEF Init, InHand, PCs
<1>2. ASSUME InHand, [Next]_vars PROVE InHand'
  <2> USE <1>2 DEF InHand, PCs
  <2>1. CASE UNCHANGED vars
    BY <2>1 DEF vars, worker
  <2>2. CASE Checkout
    BY <2>2 DEF Checkout, worker
  <2>3. ASSUME NEW e \in Events, EventStep(e) PROVE InHand'
    BY <2>3 DEF EventStep, StorePending, StoreIgnored, RelayDelivers, RelaySettles,
               RetryExpires, Reprocess, worker
  <2>4. ASSUME NEW w \in Workers, WorkerStep(w) PROVE InHand'
    <3>1. CASE \E e \in Events : Deliver(w, e)
      BY <3>1 DEF Deliver
    <3>2. CASE \/ AlreadyProcessed(w) \/ Process(w) \/ CommitReplyLost(w)
               \/ ProcessError(w) \/ ProcessTerminal(w) \/ ChannelLost(w)
      BY <3>2 DEF AlreadyProcessed, Process, CommitReplyLost, ProcessError,
                 ProcessTerminal, ChannelLost, Goto, Fail
    <3>3. CASE Record(w) \/ Republish(w)
      BY <3>3 DEF Record, Republish, Republished, Goto
    <3>4. CASE \/ RecordReplyLost(w) \/ RecordError(w)
               \/ RepublishFails(w) \/ RepublishUnconfirmed(w)
               \/ Ack(w) \/ AckFails(w) \/ Crash(w)
      BY <3>4 DEF RecordReplyLost, RecordError, RepublishFails, RepublishUnconfirmed,
                 Ack, AckFails, Crash, SessionEnds, Release
    <3> QED
      BY <2>4, <3>1, <3>2, <3>3, <3>4 DEF WorkerStep
  <2> QED
    BY <2>1, <2>2, <2>3, <2>4 DEF Next
<1> QED
  BY <1>1, <1>2

(* The whole pipeline, crashes, duplicates and replays included, is one    *)
(* more client of the ledger: no path of handle, RecordFailure or          *)
(* Reprocess writes the aggregate outside the transition matrix.           *)
THEOREM PipelineImplementsLedger == Spec => ImplementsLedger
<1>1. Init => LedgerInit
  BY DEF Init
<1>2. InHand => \A w \in Workers : pc[w] = "process" => ev[w] \in Events
  BY DEF InHand
<1>3. InHand /\ [Next]_vars => [LedgerNext]_ledger
  BY <1>2, StepIsLedgerStep
<1> QED
  BY <1>1, <1>3, InHandInductive, PTL DEF Spec, ImplementsLedger, LedgerSpec

(* Hence an order is paid exactly when one of its payments succeeded, and  *)
(* never twice, and a payment is settled by one of its attempts, never by  *)
(* a late event of another, in every reachable state of the running        *)
(* system.                                                                 *)
THEOREM PipelinePays ==
    Spec => [](PaidIffSucceeded /\ OneCharge /\ AttemptsExplainPayment)
<1>1. Spec => LedgerSpec
  BY PipelineImplementsLedger DEF ImplementsLedger
<1> QED
  BY <1>1, Paid, NoDoubleCharge, Explained, PTL

-----------------------------------------------------------------------------
(* The invariant behind the pipeline's properties.                         *)

(* A delivery is acknowledged only by a worker that has it in hand.        *)
OwnersWork == \A w \in Workers : owned[w] => pc[w] # "idle"

(* Before an event is stored there is nothing of it anywhere, and without  *)
(* an outbox message there is nothing of it in the broker or in a worker.  *)
NothingBefore(e) ==
    /\ inbox[e] = "none" => out[e] = "none" /\ applied[e] = 0 /\ payload[e] = None
    /\ inbox[e] # "none" => payload[e] # None
    /\ inbox[e] = "pending" => out[e] # "none"
    /\ out[e] = "none" =>
          /\ e \notin delivered /\ ready[e] = 0 /\ retry[e] = 0
          /\ \A w \in Workers : ev[w] # e
    /\ out[e] = "published" => e \in delivered

(* The event's outcome is in the ledger or was overtaken there.            *)
Resolved(e) ==
    payload[e] \in Usable /\ Decided(payload[e][1], payload[e][2]).decision = "noop"

(* What was applied, and what is recorded as processed, is resolved.       *)
EffectOnce(e) ==
    /\ payload[e] \in Usable => att[payload[e][1]] # "absent"
    /\ applied[e] \in {0, 1}
    /\ applied[e] = 1 => Resolved(e)
    /\ inbox[e] = "processed" => Resolved(e)

(* A copy that is not about to be acknowledged: in a queue, or held by a   *)
(* worker that has not settled it.                                         *)
Carried(e, unsettled) ==
    \/ ready[e] > 0 \/ retry[e] > 0
    \/ \E w \in Workers : owned[w] /\ ev[w] = e /\ pc[w] \in unsettled

(* A pending event whose message the broker has taken is still carried.    *)
KeptPending(e) ==
    inbox[e] = "pending" /\ e \in delivered => Carried(e, {"process", "record", "retry"})

(* An event that has been delivered, or has failed, and still matters is   *)
(* carried or already in the dead-letter queue.                            *)
KeptVisible(e) ==
    (/\ ~Resolved(e)
     /\ inbox[e] = "failed" \/ e \in delivered \/ \E w \in Workers : ev[w] = e)
        => e \in dlq \/ Carried(e, {"process", "record", "retry", "dead"})

NInv ==
    /\ TypeOK /\ LInv /\ InHand /\ OwnersWork /\ PaidHasCause
    /\ \A e \in Events : NothingBefore(e) /\ EffectOnce(e) /\ KeptPending(e) /\ KeptVisible(e)

-----------------------------------------------------------------------------
(* Types, and what the ledger has established already.                     *)

WorkerTypes ==
    /\ pc \in [Workers -> PCs]
    /\ ev \in [Workers -> Events \cup {None}]
    /\ owned \in [Workers -> BOOLEAN]
    /\ terminal \in [Workers -> BOOLEAN]

RowTypes ==
    /\ inbox \in [Events -> InboxStatuses]
    /\ tries \in [Events -> 0..MaxAttempts]
    /\ payload \in [Events -> Usable \cup {Unusable, Ignored, None}]
    /\ out \in [Events -> {"none", "open", "published", "abandoned"}]
    /\ delivered \subseteq Events
    /\ applied \in [Events -> Nat]
    /\ replays \in [Events -> 0..MaxReplays]

QueueTypes ==
    /\ ready \in [Events -> Nat] /\ retry \in [Events -> Nat]
    /\ dlq \subseteq Events

(* The type invariant is the ledger's and these three parts.               *)
LEMMA TypeParts == TypeOK <=> LedgerTypeOK /\ WorkerTypes /\ RowTypes /\ QueueTypes
  BY DEF TypeOK, WorkerTypes, RowTypes, QueueTypes

(* Handing the delivery on to the next step of handle.                     *)
LEMMA GotoTypes ==
    ASSUME WorkerTypes, OwnersWork, NEW w \in Workers, NEW p \in PCs \ {"idle"}, Goto(w, p)
    PROVE  WorkerTypes' /\ OwnersWork'
  BY DEF WorkerTypes, OwnersWork, Goto

(* Process returned an error.                                              *)
LEMMA FailTypes ==
    ASSUME WorkerTypes, OwnersWork, NEW w \in Workers, NEW t \in BOOLEAN, Fail(w, t)
    PROVE  WorkerTypes' /\ OwnersWork'
<1> USE DEF WorkerTypes, OwnersWork, Fail
<1>1. pc' \in [Workers -> PCs] /\ ev' = ev /\ owned' = owned
  BY DEF PCs
<1>2. terminal' \in [Workers -> BOOLEAN]
  OBVIOUS
<1> QED
  BY <1>1, <1>2

(* The delivery is out of the worker's hands.                              *)
LEMMA ReleaseTypes ==
    ASSUME WorkerTypes, OwnersWork, NEW w \in Workers, Release(w)
    PROVE  WorkerTypes' /\ OwnersWork'
<1> USE DEF WorkerTypes, OwnersWork, Release
<1>1. pc' \in [Workers -> PCs] /\ ev' \in [Workers -> Events \cup {None}]
  BY DEF PCs
<1>2. owned' \in [Workers -> BOOLEAN]
  OBVIOUS
<1>3. terminal' \in [Workers -> BOOLEAN]
  OBVIOUS
<1> QED
  BY <1>1, <1>2, <1>3

(* A session that ends requeues what the worker still owned.               *)
LEMMA SessionEndsTypes ==
    ASSUME WorkerTypes, OwnersWork, InHand, NEW w \in Workers, pc[w] # "idle", SessionEnds(w),
           ready \in [Events -> Nat]
    PROVE  WorkerTypes' /\ OwnersWork' /\ ready' \in [Events -> Nat]
<1>1. WorkerTypes' /\ OwnersWork'
  BY ReleaseTypes DEF SessionEnds
<1>2. ev[w] \in Events
  BY DEF InHand
<1> QED
  BY <1>1, <1>2 DEF SessionEnds

(* What a commit of Process writes.                                        *)
LEMMA CommitEffect ==
    ASSUME NEW e \in Events, Commit(e)
    PROVE  /\ payload[e] \in Usable /\ payload[e][1] \in Attempts /\ payload[e][2] \in Outcomes
           /\ inbox[e] # "processed"
           /\ inbox' = [inbox EXCEPT ![e] = "processed"]
           /\ tries' = [tries EXCEPT ![e] = Bumped(@)]
           /\ payload' = payload
           /\ \/ /\ ApplyOutcome(payload[e][1], payload[e][2])
                 /\ applied' = [applied EXCEPT ![e] = @ + 1]
              \/ /\ Decided(payload[e][1], payload[e][2]).decision = "noop"
                 /\ ledger' = ledger /\ applied' = applied
<1>1. payload[e] \in Usable /\ payload[e][1] \in Attempts /\ payload[e][2] \in Outcomes
  BY DEF Commit, Usable
<1> QED
  BY <1>1 DEF Commit

(* Counters stay in range and every delivery in hand is an event's.        *)
LEMMA TypesStep ==
    ASSUME TypeOK, InHand, OwnersWork, [Next]_vars
    PROVE  WorkerTypes' /\ RowTypes' /\ QueueTypes' /\ OwnersWork'
<1> DEFINE Good == WorkerTypes' /\ RowTypes' /\ QueueTypes' /\ OwnersWork'
<1>0. WorkerTypes /\ RowTypes /\ QueueTypes /\ OwnersWork /\ InHand
  BY TypeParts
<1>1. UNCHANGED worker => WorkerTypes' /\ OwnersWork'
  BY <1>0 DEF worker, WorkerTypes, OwnersWork
<1>2. UNCHANGED queues => QueueTypes'
  BY <1>0 DEF queues, QueueTypes
<1>3. UNCHANGED <<store, outbox, applied, replays>> => RowTypes'
  BY <1>0 DEF store, outbox, RowTypes
<1>4. CASE UNCHANGED vars \/ Checkout
  BY <1>1, <1>2, <1>3, <1>4 DEF vars, Checkout
<1>5. ASSUME NEW e \in Events, EventStep(e) PROVE Good
  <2>1. CASE StorePending(e) \/ StoreIgnored(e)
    <3>1. payload' \in [Events -> Usable \cup {Unusable, Ignored, None}]
      BY <1>0, <2>1, ConsumerAssumption DEF StorePending, StoreIgnored, RowTypes
    <3>2. RowTypes'
      BY <1>0, <2>1, <3>1 DEF StorePending, StoreIgnored, RowTypes, InboxStatuses, outbox
    <3> QED BY <1>1, <1>2, <2>1, <3>2 DEF StorePending, StoreIgnored
  <2>2. CASE RelayDelivers(e) \/ RelaySettles(e)
    <3>1. RowTypes'
      BY <1>0, <2>2 DEF RelayDelivers, RelaySettles, Relay!Deliver, Relay!Record,
         Relay!Abandon, store, RowTypes
    <3>2. QueueTypes'
      BY <1>0, <1>2, <2>2 DEF RelayDelivers, RelaySettles, QueueTypes
    <3> QED BY <1>1, <2>2, <3>1, <3>2 DEF RelayDelivers, RelaySettles
  <2>3. CASE RetryExpires(e)
    <3>1. QueueTypes'
      BY <1>0, <2>3 DEF RetryExpires, QueueTypes
    <3> QED BY <1>1, <1>3, <2>3, <3>1 DEF RetryExpires
  <2>4. CASE Reprocess(e)
    <3>1. RowTypes'
      BY <1>0, <2>4, ConsumerAssumption DEF Reprocess, RowTypes, InboxStatuses
    <3> QED BY <1>1, <1>2, <2>4, <3>1 DEF Reprocess
  <2> QED
    BY <1>5, <2>1, <2>2, <2>3, <2>4 DEF EventStep
<1>6. ASSUME NEW w \in Workers, WorkerStep(w) PROVE Good
  <2>1. CASE \E e \in Events : Deliver(w, e)
    <3>1. WorkerTypes' /\ OwnersWork'
      BY <1>0, <2>1 DEF Deliver, WorkerTypes, OwnersWork, PCs
    <3>2. QueueTypes'
      BY <1>0, <2>1 DEF Deliver, QueueTypes
    <3> QED BY <1>3, <2>1, <3>1, <3>2 DEF Deliver
  <2>2. CASE Process(w) \/ CommitReplyLost(w)
    <3>1. Commit(ev[w]) /\ ev[w] \in Events
      BY <1>0, <2>2 DEF Process, CommitReplyLost, InHand
    <3>2. applied' \in [Events -> Nat]
      BY <1>0, <3>1, CommitEffect DEF RowTypes
    <3>3. tries' \in [Events -> 0..MaxAttempts] /\ inbox' \in [Events -> InboxStatuses]
      BY <1>0, <3>1, CommitEffect, ConsumerAssumption DEF RowTypes, Bumped, InboxStatuses
    <3>4. RowTypes'
      BY <1>0, <2>2, <3>1, <3>2, <3>3, CommitEffect
         DEF Process, CommitReplyLost, RowTypes, outbox
    <3>5. WorkerTypes' /\ OwnersWork'
      BY <1>0, <2>2, GotoTypes, FailTypes DEF Process, CommitReplyLost, PCs
    <3> QED BY <1>2, <2>2, <3>4, <3>5 DEF Process, CommitReplyLost
  <2>3. CASE AlreadyProcessed(w) \/ ProcessError(w) \/ ProcessTerminal(w)
    <3>1. WorkerTypes' /\ OwnersWork'
      BY <1>0, <2>3, GotoTypes, FailTypes DEF AlreadyProcessed, ProcessError, ProcessTerminal, PCs
    <3> QED
      BY <1>2, <1>3, <2>3, <3>1 DEF AlreadyProcessed, ProcessError, ProcessTerminal
  <2>4. CASE Record(w) \/ RecordReplyLost(w)
    <3>1. ev[w] \in Events /\ pc[w] # "idle" /\ RecordFailure(w)
      BY <1>0, <2>4 DEF Record, RecordReplyLost, InHand
    <3>2. RowTypes'
      BY <1>0, <2>4, <3>1, ConsumerAssumption
         DEF Record, RecordReplyLost, RecordFailure, Bumped, RowTypes, InboxStatuses, outbox
    <3>3. WorkerTypes' /\ OwnersWork' /\ QueueTypes'
      BY <1>0, <1>2, <2>4, <3>1, GotoTypes, SessionEndsTypes
         DEF Record, RecordReplyLost, QueueTypes, PCs
    <3> QED BY <3>2, <3>3
  <2>5. CASE RecordError(w) \/ RepublishFails(w) \/ AckFails(w) \/ Crash(w)
    <3>1. WorkerTypes' /\ OwnersWork' /\ QueueTypes'
      BY <1>0, <2>5, SessionEndsTypes
         DEF RecordError, RepublishFails, AckFails, Crash, QueueTypes
    <3> QED BY <1>3, <2>5, <3>1 DEF RecordError, RepublishFails, AckFails, Crash
  <2>6. CASE Republish(w) \/ RepublishUnconfirmed(w)
    <3>1. ev[w] \in Events /\ pc[w] # "idle" /\ Republished(w)
      BY <1>0, <2>6 DEF Republish, RepublishUnconfirmed, Republished, InHand
    <3>2. retry' \in [Events -> Nat] /\ dlq' \subseteq Events
      BY <1>0, <3>1 DEF Republished, QueueTypes
    <3>3. WorkerTypes' /\ OwnersWork' /\ ready' \in [Events -> Nat]
      BY <1>0, <2>6, <3>1, GotoTypes, SessionEndsTypes
         DEF Republish, RepublishUnconfirmed, QueueTypes, PCs
    <3> QED BY <1>3, <2>6, <3>2, <3>3 DEF Republish, RepublishUnconfirmed, QueueTypes
  <2>7. CASE Ack(w)
    BY <1>0, <1>2, <1>3, <2>7, ReleaseTypes DEF Ack
  <2>8. CASE ChannelLost(w)
    <3>1. ev[w] \in Events
      BY <1>0, <2>8 DEF ChannelLost, OwnersWork, InHand
    <3>2. WorkerTypes' /\ OwnersWork' /\ QueueTypes'
      BY <1>0, <2>8, <3>1 DEF ChannelLost, WorkerTypes, OwnersWork, QueueTypes
    <3> QED BY <1>3, <2>8, <3>2 DEF ChannelLost
  <2> QED
    BY <1>6, <2>1, <2>2, <2>3, <2>4, <2>5, <2>6, <2>7, <2>8 DEF WorkerStep
<1> QED
  BY <1>4, <1>5, <1>6 DEF Next

-----------------------------------------------------------------------------
(* What a step of a worker may do.                                         *)

Unsettled == {"process", "record", "retry"}

(* The copies of e that queues and worker w hold are not lost.             *)
KeepsCopy(w, e, unsettled) ==
    (ready[e] > 0 \/ retry[e] > 0 \/ (owned[w] /\ ev[w] = e /\ pc[w] \in unsettled))
       => \/ ready'[e] > 0 \/ retry'[e] > 0
          \/ owned'[w] /\ ev'[w] = e /\ pc'[w] \in unsettled

(* Worker w works on e: it leaves every other event and worker alone, and  *)
(* drops its copy only once the event is processed, failed or dead-lettered*)
WorksOn(w, e) ==
    /\ payload' = payload /\ out' = out /\ delivered' = delivered
    /\ \/ ev[w] = e
       \/ /\ pc[w] = "idle" /\ ready[e] > 0 /\ inbox'[e] = inbox[e]
          /\ owned'[w] /\ ev'[w] = e /\ pc'[w] = "process"
    /\ ev'[w] \in {e, None}
    /\ \A v \in Workers \ {w} : ev'[v] = ev[v] /\ owned'[v] = owned[v] /\ pc'[v] = pc[v]
    /\ \A f \in Events \ {e} :
          /\ inbox'[f] = inbox[f] /\ applied'[f] = applied[f]
          /\ ready'[f] = ready[f] /\ retry'[f] = retry[f]
    /\ dlq \subseteq dlq'
    /\ \/ Commit(e)
       \/ /\ inbox'[e] \in {inbox[e], "failed"} /\ ledger' = ledger
          /\ applied'[e] = applied[e]
    /\ inbox'[e] \in {"processed", "failed"} \/ KeepsCopy(w, e, Unsettled)
    /\ inbox'[e] = "processed" \/ e \in dlq' \/ KeepsCopy(w, e, Unsettled \cup {"dead"})

(* A session that ends leaves the copy in the webhooks queue.              *)
LEMMA SessionEndsKeeps ==
    ASSUME TypeOK, NEW w \in Workers, SessionEnds(w), ev[w] \in Events,
           retry[ev[w]] > 0 => retry'[ev[w]] > 0
    PROVE  /\ KeepsCopy(w, ev[w], Unsettled)
           /\ KeepsCopy(w, ev[w], Unsettled \cup {"dead"})
           /\ ev'[w] = None
           /\ \A v \in Workers \ {w} : ev'[v] = ev[v] /\ owned'[v] = owned[v] /\ pc'[v] = pc[v]
           /\ \A f \in Events \ {ev[w]} : ready'[f] = ready[f]
<1>1. /\ ready'[ev[w]] = IF owned[w] THEN ready[ev[w]] + 1 ELSE ready[ev[w]]
      /\ \A f \in Events \ {ev[w]} : ready'[f] = ready[f]
  BY DEF SessionEnds, TypeOK
<1>2. /\ ev'[w] = None
      /\ \A v \in Workers \ {w} : ev'[v] = ev[v] /\ owned'[v] = owned[v] /\ pc'[v] = pc[v]
  BY DEF SessionEnds, Release, TypeOK
<1>3. ready[ev[w]] \in Nat
  BY DEF TypeOK
<1>4. ASSUME NEW S PROVE KeepsCopy(w, ev[w], S)
  <2>1. CASE owned[w]
    BY <1>1, <1>3, <2>1 DEF KeepsCopy
  <2>2. CASE ~owned[w]
    BY <1>1, <2>2 DEF KeepsCopy
  <2> QED BY <2>1, <2>2
<1> QED
  BY <1>1, <1>2, <1>4

(* Whatever a worker does next, it works on one event.                     *)
LEMMA WorkerShape ==
    ASSUME TypeOK, InHand, OwnersWork, NEW w \in Workers, WorkerStep(w)
    PROVE  \E e \in Events : WorksOn(w, e)
<1>1. ASSUME NEW e \in Events, Deliver(w, e) PROVE WorksOn(w, e)
  <2>1. /\ ready[e] > 0 /\ pc[w] = "idle"
        /\ owned'[w] /\ ev'[w] = e /\ pc'[w] = "process"
        /\ \A v \in Workers \ {w} : ev'[v] = ev[v] /\ owned'[v] = owned[v] /\ pc'[v] = pc[v]
        /\ \A f \in Events \ {e} : ready'[f] = ready[f]
    BY <1>1 DEF Deliver, TypeOK
  <2>2. KeepsCopy(w, e, Unsettled) /\ KeepsCopy(w, e, Unsettled \cup {"dead"})
    BY <2>1 DEF KeepsCopy, Unsettled
  <2> QED
    BY <1>1, <2>1, <2>2 DEF WorksOn, Deliver, store, outbox, ledger
<1>2. ASSUME ~\E e \in Events : Deliver(w, e) PROVE ev[w] \in Events /\ pc[w] # "idle"
  <2>1. pc[w] # "idle"
    <3>1. CASE ChannelLost(w)
      BY <3>1 DEF ChannelLost, OwnersWork
    <3> QED
      BY <1>2, <3>1 DEF WorkerStep, AlreadyProcessed, Process, CommitReplyLost, ProcessError,
         ProcessTerminal, Record, RecordReplyLost, RecordError, Republish, Republished,
         RepublishFails, RepublishUnconfirmed, Ack, AckFails, Crash
  <2> QED
    BY <2>1 DEF InHand
<1>3. CASE \E e \in Events : Deliver(w, e)
  BY <1>1, <1>3
<1>4. CASE ~\E e \in Events : Deliver(w, e)
  <2> DEFINE e == ev[w]
  <2>0. e \in Events /\ pc[w] # "idle"
    BY <1>2, <1>4
  <2>1. CASE AlreadyProcessed(w) \/ ProcessError(w) \/ ProcessTerminal(w)
    <3>1. /\ ev' = ev /\ owned' = owned /\ pc[w] = "process" /\ UNCHANGED queues
          /\ \A v \in Workers \ {w} : pc'[v] = pc[v]
          /\ pc'[w] = "record" \/ (pc'[w] = "ack" /\ inbox'[e] = "processed")
      BY <2>1 DEF AlreadyProcessed, ProcessError, ProcessTerminal, Goto, Fail, TypeOK, store
    <3>2. \/ inbox'[e] = "processed"
          \/ KeepsCopy(w, e, Unsettled) /\ KeepsCopy(w, e, Unsettled \cup {"dead"})
      BY <3>1 DEF KeepsCopy, Unsettled, queues
    <3>3. UNCHANGED <<ledger, store, outbox, applied>>
      BY <2>1 DEF AlreadyProcessed, ProcessError, ProcessTerminal
    <3> QED BY <2>0, <3>1, <3>2, <3>3 DEF WorksOn, store, outbox, queues
  <2>2. CASE Process(w) \/ CommitReplyLost(w)
    <3>1. /\ ev' = ev /\ owned' = owned /\ UNCHANGED <<outbox, queues>>
          /\ \A v \in Workers \ {w} : pc'[v] = pc[v]
          /\ Commit(e)
      BY <2>2 DEF Process, CommitReplyLost, Goto, Fail, TypeOK
    <3>2. inbox'[e] = "processed" /\ payload' = payload
      BY <2>0, <3>1, CommitEffect DEF TypeOK
    <3>3. \A f \in Events \ {e} : inbox'[f] = inbox[f] /\ applied'[f] = applied[f]
      BY <2>0, <3>1, CommitEffect DEF TypeOK
    <3> QED BY <2>0, <3>1, <3>2, <3>3 DEF WorksOn, outbox, queues
  <2>3. CASE Record(w)
    <3>1. /\ ev' = ev /\ owned' = owned /\ pc[w] = "record"
          /\ UNCHANGED <<ledger, outbox, queues, applied>> /\ payload' = payload
          /\ \A v \in Workers \ {w} : pc'[v] = pc[v]
          /\ pc'[w] = IF inbox'[e] = "failed" THEN "dead" ELSE "retry"
      BY <2>3 DEF Record, RecordFailure, Goto, TypeOK
    <3>2. /\ inbox'[e] \in {inbox[e], "failed"}
          /\ \A f \in Events \ {e} : inbox'[f] = inbox[f]
      BY <2>0, <2>3 DEF Record, RecordFailure, TypeOK
    <3>3. KeepsCopy(w, e, Unsettled \cup {"dead"})
      BY <3>1 DEF KeepsCopy, Unsettled, queues
    <3>4. inbox'[e] = "failed" \/ KeepsCopy(w, e, Unsettled)
      BY <3>1 DEF KeepsCopy, Unsettled, queues
    <3> QED BY <2>0, <3>1, <3>2, <3>3, <3>4 DEF WorksOn, outbox, queues
  <2>4. CASE RecordReplyLost(w) \/ RecordError(w) \/ RepublishFails(w) \/ AckFails(w) \/ Crash(w)
    <3>1. /\ SessionEnds(w) /\ UNCHANGED <<ledger, outbox, retry, dlq, applied>>
          /\ payload' = payload
      BY <2>4 DEF RecordReplyLost, RecordError, RepublishFails, AckFails, Crash, RecordFailure, store
    <3>2. /\ inbox'[e] \in {inbox[e], "failed"}
          /\ \A f \in Events \ {e} : inbox'[f] = inbox[f]
      BY <2>0, <2>4 DEF RecordReplyLost, RecordError, RepublishFails, AckFails, Crash,
         RecordFailure, store, TypeOK
    <3>3. /\ KeepsCopy(w, e, Unsettled) /\ KeepsCopy(w, e, Unsettled \cup {"dead"})
          /\ ev'[w] = None
          /\ \A v \in Workers \ {w} : ev'[v] = ev[v] /\ owned'[v] = owned[v] /\ pc'[v] = pc[v]
          /\ \A f \in Events \ {e} : ready'[f] = ready[f]
      BY <2>0, <3>1, SessionEndsKeeps
    <3> QED BY <2>0, <3>1, <3>2, <3>3 DEF WorksOn, outbox
  <2>5. CASE Republish(w) \/ RepublishUnconfirmed(w)
    <3>1. /\ UNCHANGED <<ledger, store, outbox, applied>>
          /\ Republished(w) /\ ((Goto(w, "ack") /\ ready' = ready) \/ SessionEnds(w))
      BY <2>5 DEF Republish, RepublishUnconfirmed
    <3>2. /\ \A f \in Events \ {e} : retry'[f] = retry[f]
          /\ dlq \subseteq dlq'
          /\ \/ pc[w] = "retry" /\ retry'[e] > 0
             \/ pc[w] = "dead" /\ e \in dlq' /\ retry' = retry
      BY <2>0, <3>1 DEF Republished, TypeOK
    <3>3. CASE Goto(w, "ack") /\ ready' = ready
      <4>1. /\ ev' = ev /\ owned' = owned /\ \A v \in Workers \ {w} : pc'[v] = pc[v]
        BY <3>3 DEF Goto, TypeOK
      <4>2. KeepsCopy(w, e, Unsettled)
        BY <3>2, <3>3 DEF KeepsCopy, Unsettled
      <4>3. e \in dlq' \/ KeepsCopy(w, e, Unsettled \cup {"dead"})
        BY <3>2, <3>3 DEF KeepsCopy, Unsettled
      <4> QED BY <2>0, <3>1, <3>2, <3>3, <4>1, <4>2, <4>3 DEF WorksOn, store, outbox
    <3>4. CASE SessionEnds(w)
      <4>1. retry[e] > 0 => retry'[e] > 0
        BY <3>2
      <4>2. /\ KeepsCopy(w, e, Unsettled) /\ KeepsCopy(w, e, Unsettled \cup {"dead"})
            /\ ev'[w] = None
            /\ \A v \in Workers \ {w} : ev'[v] = ev[v] /\ owned'[v] = owned[v] /\ pc'[v] = pc[v]
            /\ \A f \in Events \ {e} : ready'[f] = ready[f]
        BY <2>0, <3>4, <4>1, SessionEndsKeeps
      <4> QED BY <2>0, <3>1, <3>2, <4>2 DEF WorksOn, store, outbox
    <3> QED BY <3>1, <3>3, <3>4
  <2>6. CASE Ack(w)
    <3>1. /\ UNCHANGED <<ledger, store, outbox, queues, applied>> /\ pc[w] = "ack"
          /\ ev'[w] = None
          /\ \A v \in Workers \ {w} : ev'[v] = ev[v] /\ owned'[v] = owned[v] /\ pc'[v] = pc[v]
      BY <2>6 DEF Ack, Release, TypeOK
    <3>2. KeepsCopy(w, e, Unsettled) /\ KeepsCopy(w, e, Unsettled \cup {"dead"})
      BY <3>1 DEF KeepsCopy, Unsettled, queues
    <3> QED BY <2>0, <3>1, <3>2 DEF WorksOn, store, outbox, queues
  <2>7. CASE ChannelLost(w)
    <3>1. /\ UNCHANGED <<ledger, store, outbox, retry, dlq, pc, ev, applied>>
          /\ \A v \in Workers \ {w} : owned'[v] = owned[v]
          /\ ready'[e] > 0 /\ \A f \in Events \ {e} : ready'[f] = ready[f]
      BY <2>0, <2>7 DEF ChannelLost, TypeOK
    <3>2. KeepsCopy(w, e, Unsettled) /\ KeepsCopy(w, e, Unsettled \cup {"dead"})
      BY <3>1 DEF KeepsCopy
    <3> QED BY <2>0, <3>1, <3>2 DEF WorksOn, store, outbox
  <2> QED
    BY <1>4, <2>1, <2>2, <2>3, <2>4, <2>5, <2>6, <2>7 DEF WorkerStep
<1> QED
  BY <1>3, <1>4

(* The endpoint, the relay, the broker's timers and the operator touch     *)
(* neither the workers nor the ledger.                                     *)
LEMMA EventShape ==
    ASSUME NEW e \in Events, EventStep(e)
    PROVE  /\ UNCHANGED <<ledger, worker, applied>> /\ dlq' = dlq
           /\ pc' = pc /\ ev' = ev /\ owned' = owned
  BY DEF EventStep, StorePending, StoreIgnored, RelayDelivers, RelaySettles,
         RetryExpires, Reprocess, worker, queues

(* A step on one event's rows leaves the rows of the others alone.         *)
LEMMA EventOthers ==
    ASSUME TypeOK, NEW e \in Events, EventStep(e), NEW f \in Events, f # e
    PROVE  /\ inbox'[f] = inbox[f] /\ payload'[f] = payload[f] /\ out'[f] = out[f]
           /\ f \in delivered' <=> f \in delivered
           /\ ready'[f] = ready[f] /\ retry'[f] = retry[f]
<1> USE DEF TypeOK
<1>1. CASE StorePending(e) \/ StoreIgnored(e)
  BY <1>1 DEF StorePending, StoreIgnored, outbox, queues
<1>2. CASE RelayDelivers(e) \/ RelaySettles(e)
  BY <1>2 DEF RelayDelivers, RelaySettles, Relay!Deliver, Relay!Record, Relay!Abandon,
              store, queues
<1>3. CASE RetryExpires(e) \/ Reprocess(e)
  BY <1>3 DEF RetryExpires, Reprocess, store, outbox, queues
<1> QED
  BY <1>1, <1>2, <1>3 DEF EventStep

-----------------------------------------------------------------------------
(* Every conjunct of the invariant, step by step.                          *)

(* Nothing of an event exists before the endpoint has stored it.           *)
LEMMA NothingBeforeStep ==
    ASSUME NInv, [Next]_vars, NEW f \in Events
    PROVE  NothingBefore(f)'
<1>0. TypeOK /\ InHand /\ OwnersWork /\ NothingBefore(f)
  BY DEF NInv
<1>1. CASE UNCHANGED vars \/ Checkout
  BY <1>0, <1>1 DEF vars, Checkout, store, outbox, queues, worker, NothingBefore
<1>2. ASSUME NEW e \in Events, EventStep(e) PROVE NothingBefore(f)'
  <2>0. UNCHANGED applied /\ ev' = ev
    BY <1>2, EventShape
  <2>1. CASE f # e
    BY <1>0, <1>2, <2>0, <2>1, EventOthers DEF NothingBefore
  <2>2. CASE f = e
    <3> USE DEF TypeOK
    <3>1. CASE StorePending(e) \/ StoreIgnored(e)
      <4>1. /\ inbox[e] = "none" /\ payload'[e] # None
            /\ UNCHANGED <<delivered, queues>>
        BY <1>0, <3>1, ConsumerAssumption DEF StorePending, StoreIgnored, outbox
      <4>2. \/ inbox'[e] = "pending" /\ out'[e] = "open"
            \/ inbox'[e] = "skipped" /\ out'[e] = out[e]
        BY <1>0, <3>1 DEF StorePending, StoreIgnored, outbox
      <4> QED BY <1>0, <2>0, <2>2, <4>1, <4>2 DEF NothingBefore, queues
    <3>2. CASE RelayDelivers(e)
      BY <1>0, <2>0, <2>2, <3>2 DEF RelayDelivers, Relay!Deliver, store, NothingBefore
    <3>3. CASE RelaySettles(e)
      BY <1>0, <2>0, <2>2, <3>3
         DEF RelaySettles, Relay!Record, Relay!Abandon, store, queues, NothingBefore
    <3>4. CASE RetryExpires(e)
      BY <1>0, <2>0, <2>2, <3>4 DEF RetryExpires, store, outbox, NothingBefore
    <3>5. CASE Reprocess(e)
      BY <1>0, <2>0, <2>2, <3>5 DEF Reprocess, queues, NothingBefore
    <3> QED BY <1>2, <3>1, <3>2, <3>3, <3>4, <3>5 DEF EventStep
  <2> QED BY <2>1, <2>2
<1>3. ASSUME NEW w \in Workers, WorkerStep(w) PROVE NothingBefore(f)'
  <2>1. PICK e \in Events : WorksOn(w, e)
    BY <1>0, <1>3, WorkerShape
  <2>2. CASE f # e
    <3>1. \A v \in Workers : ev'[v] = f => ev[v] = f
      BY <2>1, <2>2, ConsumerAssumption DEF WorksOn
    <3> QED BY <1>0, <2>1, <2>2, <3>1 DEF WorksOn, NothingBefore
  <2>3. CASE f = e
    <3>1. out[e] # "none" /\ inbox[e] # "none"
      BY <1>0, <2>1, <2>3 DEF WorksOn, NothingBefore, TypeOK
    <3>2. inbox'[e] \in {"processed", "failed", inbox[e]}
      BY <1>0, <2>1, CommitEffect DEF WorksOn, TypeOK
    <3> QED BY <1>0, <2>1, <2>3, <3>1, <3>2 DEF WorksOn, NothingBefore
  <2> QED BY <2>2, <2>3
<1> QED
  BY <1>1, <1>2, <1>3 DEF Next

(* An outcome in the ledger, or overtaken there, remains so: the matrix    *)
(* never takes back a no-op.                                               *)
LEMMA ResolvedStays ==
    ASSUME NInv, [Next]_vars, NEW f \in Events, payload'[f] = payload[f]
    PROVE  /\ payload'[f] \in Usable => att'[payload'[f][1]] # "absent"
           /\ Resolved(f) => Resolved(f)'
<1>1. [LedgerNext]_ledger /\ LInv
  BY StepIsLedgerStep DEF NInv, InHand
<1>2. EffectOnce(f)
  BY DEF NInv
<1>3. payload[f] \in Usable => payload[f][1] \in Attempts /\ payload[f][2] \in Outcomes
  BY DEF Usable
<1>4. payload'[f] \in Usable => att'[payload'[f][1]] # "absent"
  BY <1>1, <1>2, <1>3, AttemptStays DEF EffectOnce
<1>5. ASSUME Resolved(f) PROVE Resolved(f)'
  <2>1. Decided(payload[f][1], payload[f][2])'.decision = "noop"
    <3> DEFINE a == payload[f][1]
               oc == payload[f][2]
    <3>1. /\ a \in Attempts /\ oc \in Outcomes
          /\ att[a] # "absent" /\ Decided(a, oc).decision = "noop"
      BY <1>2, <1>3, <1>5 DEF Resolved, EffectOnce
    <3>2. Decide(oc, pay'[PaymentOf[a]], att'[a]).decision = "noop"
      <4> HIDE DEF a, oc
      <4> QED BY <1>1, <3>1, NoOpStays DEF Decided
    <3> QED BY <3>2 DEF Decided
  <2> QED BY <1>5, <2>1 DEF Resolved, Decided
<1> QED
  BY <1>4, <1>5

(* What Process commits for e: the ledger has the outcome afterwards.      *)
LEMMA CommitResolves ==
    ASSUME NInv, [Next]_vars, NEW e \in Events, Commit(e)
    PROVE  /\ payload' = payload /\ Resolved(e)'
           /\ applied'[e] = applied[e] \/ (applied[e] = 0 /\ applied'[e] = 1)
<1>0. LInv /\ EffectOnce(e) /\ applied \in [Events -> Nat]
  BY DEF NInv, TypeOK
<1> DEFINE a == payload[e][1]
           oc == payload[e][2]
<1>1. payload[e] \in Usable /\ a \in Attempts /\ oc \in Outcomes /\ payload' = payload
  BY CommitEffect
<1>2. CASE ApplyOutcome(a, oc) /\ applied' = [applied EXCEPT ![e] = @ + 1]
  <2>1. Decide(oc, pay'[PaymentOf[a]], att'[a]).decision = "noop"
    <3> HIDE DEF a, oc
    <3> QED BY <1>0, <1>1, <1>2, AppliedIsNoOp DEF Decided
  <2>2. Resolved(e)'
    BY <1>1, <2>1 DEF Resolved, Decided
  <2>3. applied[e] # 1
    BY <1>0, <1>2 DEF EffectOnce, Resolved, ApplyOutcome
  <2> QED BY <1>0, <1>1, <1>2, <2>2, <2>3 DEF EffectOnce
<1>3. CASE Decided(a, oc).decision = "noop" /\ applied' = applied
  BY <1>1, <1>3, ResolvedStays DEF Resolved
<1> QED
  BY <1>2, <1>3, CommitEffect

(* An event that moved the ledger, or is recorded as processed, has become *)
(* a no-op; so it can never move the ledger again.                         *)
LEMMA EffectOnceStep ==
    ASSUME NInv, [Next]_vars, NEW f \in Events
    PROVE  EffectOnce(f)'
<1>0. TypeOK /\ InHand /\ OwnersWork /\ NothingBefore(f) /\ EffectOnce(f)
  BY DEF NInv
<1>1. ASSUME payload'[f] = payload[f], applied'[f] = applied[f],
             inbox'[f] = "processed" => inbox[f] = "processed"
      PROVE  EffectOnce(f)'
  BY <1>0, <1>1, ResolvedStays DEF EffectOnce
<1>2. CASE UNCHANGED vars \/ Checkout
  BY <1>1, <1>2 DEF vars, Checkout, store
<1>3. ASSUME NEW e \in Events, EventStep(e) PROVE EffectOnce(f)'
  <2>1. CASE f # e
    BY <1>0, <1>1, <1>3, <2>1, EventShape, EventOthers
  <2>2. CASE f = e /\ (StorePending(e) \/ StoreIgnored(e))
    <3>1. inbox[e] = "none" /\ inbox'[e] # "processed" /\ UNCHANGED <<ledger, applied>>
      BY <1>0, <2>2 DEF StorePending, StoreIgnored, TypeOK
    <3>2. payload'[e] \in Usable => att[payload'[e][1]] # "absent"
      BY <1>0, <2>2, ConsumerAssumption DEF StorePending, StoreIgnored, TypeOK
    <3>3. applied'[e] = 0
      BY <1>0, <2>2, <3>1 DEF NothingBefore
    <3> QED BY <2>2, <3>1, <3>2, <3>3 DEF EffectOnce, ledger
  <2>3. CASE f = e /\ ~(StorePending(e) \/ StoreIgnored(e))
    <3>1. payload' = payload /\ applied' = applied
      BY <1>3, <2>3 DEF EventStep, RelayDelivers, RelaySettles, RetryExpires, Reprocess, store
    <3>2. inbox'[e] = "processed" => inbox[e] = "processed"
      BY <1>0, <1>3, <2>3
         DEF EventStep, RelayDelivers, RelaySettles, RetryExpires, Reprocess, store, TypeOK
    <3> QED BY <1>1, <2>3, <3>1, <3>2
  <2> QED BY <2>1, <2>2, <2>3
<1>4. ASSUME NEW w \in Workers, WorkerStep(w) PROVE EffectOnce(f)'
  <2>1. PICK e \in Events : WorksOn(w, e)
    BY <1>0, <1>4, WorkerShape
  <2>2. CASE f = e /\ Commit(e)
    <3>1. payload'[e] \in Usable => att'[payload'[e][1]] # "absent"
      BY <2>2, CommitResolves, ResolvedStays
    <3> QED BY <1>0, <2>2, <3>1, CommitResolves DEF EffectOnce
  <2>3. CASE ~(f = e /\ Commit(e))
    BY <1>1, <2>1, <2>3 DEF WorksOn
  <2> QED BY <2>2, <2>3
<1> QED
  BY <1>2, <1>3, <1>4 DEF Next

(* Only a success applied by Process pays an order, and the event that     *)
(* reported it stays on record.                                            *)
LEMMA PaidHasCauseStep ==
    ASSUME NInv, [Next]_vars
    PROVE  PaidHasCause'
<1>0. TypeOK /\ InHand /\ OwnersWork /\ LInv /\ PaidHasCause
  BY DEF NInv
<1>1. ASSUME NEW f \in Events, applied[f] = 1
      PROVE  applied'[f] = 1 /\ payload'[f] = payload[f]
  <2>1. NothingBefore(f) /\ EffectOnce(f)'
    BY EffectOnceStep DEF NInv
  <2>2. CASE UNCHANGED vars \/ Checkout
    BY <1>1, <2>2 DEF vars, Checkout, store
  <2>3. ASSUME NEW e \in Events, EventStep(e) PROVE payload'[f] = payload[f] /\ applied' = applied
    <3>1. CASE f # e
      BY <1>0, <2>3, <3>1, EventShape, EventOthers
    <3>2. CASE f = e
      <4>1. inbox[e] # "none"
        BY <1>1, <2>1, <3>2 DEF NothingBefore
      <4> QED BY <2>3, <3>2, <4>1 DEF EventStep, StorePending, StoreIgnored, RelayDelivers,
                 RelaySettles, RetryExpires, Reprocess, store
    <3> QED BY <3>1, <3>2
  <2>4. ASSUME NEW w \in Workers, WorkerStep(w) PROVE payload'[f] = payload[f] /\ applied'[f] = 1
    <3>1. PICK e \in Events : WorksOn(w, e)
      BY <1>0, <2>4, WorkerShape
    <3>2. CASE f = e /\ Commit(e)
      BY <1>1, <3>2, CommitResolves
    <3>3. CASE ~(f = e /\ Commit(e))
      BY <1>1, <3>1, <3>3 DEF WorksOn
    <3> QED BY <3>2, <3>3
  <2> QED BY <1>1, <2>2, <2>3, <2>4 DEF Next
<1>2. ASSUME NEW o \in Orders, order'[o] = "paid"
      PROVE  \E e \in Events : /\ applied'[e] = 1
                               /\ payload'[e][2] = "succeeded"
                               /\ OrderOf[PaymentOf[payload'[e][1]]] = o
  <2>1. CASE order[o] = "paid"
    BY <1>0, <1>1, <2>1 DEF PaidHasCause
  <2>2. CASE order[o] # "paid"
    <3>1. ~(UNCHANGED vars) /\ ~\E e \in Events : EventStep(e)
      BY <1>2, <2>2, EventShape DEF vars, ledger
    <3>2. ~Checkout
      BY <1>2, <2>2 DEF Checkout, CheckoutStep, OpenAttempt, AttachSession, OpenPayment
    <3>3. PICK w \in Workers, e \in Events : WorksOn(w, e)
      BY <1>0, <3>1, <3>2, WorkerShape DEF Next
    <3>4. Commit(e) /\ ledger' # ledger
      BY <1>2, <2>2, <3>3 DEF WorksOn, ledger
    <3> DEFINE a == payload[e][1]
               oc == payload[e][2]
    <3>5. /\ a \in Attempts /\ oc \in Outcomes /\ payload' = payload
          /\ ApplyOutcome(a, oc) /\ applied' = [applied EXCEPT ![e] = @ + 1]
      BY <3>4, CommitEffect
    <3>6. oc = "succeeded" /\ OrderOf[PaymentOf[a]] = o
      <4>1. \/ oc = "succeeded" /\ Succeeds(a)
            \/ StartsProcessing(a) \/ Fails(a) \/ Expires(a)
        BY <1>0, <3>5, Effects
      <4>2. oc = "succeeded" /\ order' = [order EXCEPT ![OrderOf[PaymentOf[a]]] = "paid"]
        BY <1>2, <2>2, <4>1 DEF Succeeds, StartsProcessing, Fails, Expires
      <4> QED BY <1>0, <1>2, <2>2, <4>2 DEF LInv, LedgerTypeOK
    <3>7. applied'[e] = 1
      <4>1. applied'[e] # applied[e]
        BY <1>0, <3>5 DEF TypeOK
      <4> QED BY <3>4, <4>1, CommitResolves
    <3> QED BY <3>5, <3>6, <3>7
  <2> QED BY <2>1, <2>2
<1> QED
  BY <1>2 DEF PaidHasCause

(* A copy that a worker neither settles nor holds is where it was.         *)
LEMMA CarriedStays ==
    ASSUME NEW w \in Workers, NEW e \in Events, WorksOn(w, e), NEW S, "idle" \notin S,
           NEW f \in Events, Carried(f, S), f = e => KeepsCopy(w, e, S)
    PROVE  Carried(f, S)'
<1>1. CASE f # e
  <2>1. CASE ready[f] > 0 \/ retry[f] > 0
    BY <1>1, <2>1 DEF WorksOn, Carried
  <2>2. CASE \E v \in Workers : owned[v] /\ ev[v] = f /\ pc[v] \in S
    <3>1. PICK v \in Workers : owned[v] /\ ev[v] = f /\ pc[v] \in S
      BY <2>2
    <3>2. v # w
      BY <1>1, <3>1 DEF WorksOn
    <3> QED BY <3>1, <3>2 DEF WorksOn, Carried
  <2> QED BY <2>1, <2>2 DEF Carried
<1>2. CASE f = e
  <2>1. CASE ready[e] > 0 \/ retry[e] > 0
    BY <1>2, <2>1 DEF KeepsCopy, Carried
  <2>2. CASE \E v \in Workers : owned[v] /\ ev[v] = e /\ pc[v] \in S
    <3>1. PICK v \in Workers : owned[v] /\ ev[v] = e /\ pc[v] \in S
      BY <2>2
    <3>2. CASE v = w
      BY <1>2, <3>1, <3>2 DEF KeepsCopy, Carried
    <3>3. CASE v # w
      BY <1>2, <3>1, <3>3 DEF WorksOn, Carried
    <3> QED BY <3>2, <3>3
  <2> QED BY <1>2, <2>1, <2>2 DEF Carried
<1> QED
  BY <1>1, <1>2

(* Timers, the relay and the operator take no copy away.                   *)
LEMMA EventCarries ==
    ASSUME TypeOK, NEW e \in Events, EventStep(e), NEW S, NEW f \in Events, Carried(f, S)
    PROVE  Carried(f, S)'
<1>0. pc' = pc /\ ev' = ev /\ owned' = owned
  BY EventShape
<1>1. CASE RelayDelivers(e)
  BY <1>0, <1>1 DEF RelayDelivers, Carried, TypeOK
<1>2. CASE RetryExpires(e)
  BY <1>0, <1>2 DEF RetryExpires, Carried, TypeOK
<1>3. CASE StorePending(e) \/ StoreIgnored(e) \/ RelaySettles(e) \/ Reprocess(e)
  <2>1. ready' = ready /\ retry' = retry
    BY <1>3 DEF StorePending, StoreIgnored, RelaySettles, Reprocess, queues
  <2> QED BY <1>0, <2>1 DEF Carried
<1> QED
  BY <1>1, <1>2, <1>3 DEF EventStep

(* handle acknowledges a delivery only after the row is closed or another  *)
(* copy exists, and Reprocess leaves a fresh message behind.               *)
LEMMA KeptPendingStep ==
    ASSUME NInv, [Next]_vars, NEW f \in Events
    PROVE  KeptPending(f)'
<1> DEFINE S == {"process", "record", "retry"}
<1>0. TypeOK /\ InHand /\ OwnersWork /\ NothingBefore(f) /\ KeptPending(f)
  BY DEF NInv
<1> SUFFICES ASSUME inbox'[f] = "pending", f \in delivered'
             PROVE  Carried(f, S)'
  BY DEF KeptPending
<1>1. CASE UNCHANGED vars \/ Checkout
  BY <1>0, <1>1 DEF vars, Checkout, store, outbox, queues, worker, KeptPending, Carried
<1>2. ASSUME NEW e \in Events, EventStep(e)
      PROVE  Carried(f, S)'
  <2>1. CASE RelayDelivers(e) /\ f = e
    BY <1>0, <2>1 DEF RelayDelivers, Carried, TypeOK
  <2>2. CASE ~(RelayDelivers(e) /\ f = e)
    <3>1. inbox[f] = "pending" /\ f \in delivered
      <4>1. CASE f # e
        BY <1>0, <1>2, <4>1, EventOthers
      <4>2. CASE f = e /\ (StorePending(e) \/ StoreIgnored(e))
        BY <1>0, <4>2 DEF StorePending, StoreIgnored, outbox, NothingBefore
      <4>3. CASE f = e /\ (RelaySettles(e) \/ RetryExpires(e) \/ Reprocess(e))
        BY <4>3 DEF RelaySettles, Relay!Record, Relay!Abandon, RetryExpires, Reprocess, store,
           outbox
      <4> QED BY <1>2, <2>2, <4>1, <4>2, <4>3 DEF EventStep
    <3> QED BY <1>0, <1>2, <3>1, EventCarries DEF KeptPending
  <2> QED BY <2>1, <2>2
<1>3. ASSUME NEW w \in Workers, WorkerStep(w)
      PROVE  Carried(f, S)'
  <2>1. PICK e \in Events : WorksOn(w, e)
    BY <1>0, <1>3, WorkerShape
  <2>2. inbox[f] = "pending" /\ f \in delivered
    <3>1. f # e => inbox[f] = inbox'[f]
      BY <2>1 DEF WorksOn
    <3>2. Commit(e) => inbox'[e] = "processed"
      BY <1>0, CommitEffect DEF TypeOK
    <3> QED BY <2>1, <3>1, <3>2 DEF WorksOn
  <2>3. f = e => KeepsCopy(w, e, S)
    BY <2>1 DEF WorksOn, Unsettled
  <2>4. Carried(f, S)
    BY <1>0, <2>2 DEF KeptPending
  <2>5. "idle" \notin S
    OBVIOUS
  <2> HIDE DEF S
  <2> QED BY <2>1, <2>3, <2>4, <2>5, CarriedStays, ZenonT(30)
<1> QED
  BY <1>1, <1>2, <1>3 DEF Next

(* classify lets go of a failed delivery only once the dead-letter queue   *)
(* has it.                                                                 *)
LEMMA KeptVisibleStep ==
    ASSUME NInv, [Next]_vars, NEW f \in Events
    PROVE  KeptVisible(f)'
<1> DEFINE S == {"process", "record", "retry", "dead"}
<1>0. TypeOK /\ InHand /\ OwnersWork /\ NothingBefore(f) /\ KeptVisible(f) /\ EffectOnce(f)'
  BY EffectOnceStep DEF NInv
<1> SUFFICES ASSUME ~Resolved(f)',
                    inbox'[f] = "failed" \/ f \in delivered' \/ \E v \in Workers : ev'[v] = f
             PROVE  f \in dlq' \/ Carried(f, S)'
  BY DEF KeptVisible
<1>1. payload'[f] = payload[f] => ~Resolved(f)
  BY ResolvedStays
<1>2. CASE UNCHANGED vars \/ Checkout
  <2>1. /\ payload' = payload /\ inbox' = inbox /\ delivered' = delivered /\ ev' = ev /\ dlq' = dlq
        /\ ready' = ready /\ retry' = retry /\ owned' = owned /\ pc' = pc
    BY <1>2 DEF vars, Checkout, store, outbox, queues, worker
  <2>2. f \in dlq \/ Carried(f, S)
    BY <1>0, <1>1, <2>1 DEF KeptVisible
  <2> QED BY <2>1, <2>2 DEF Carried
<1>3. ASSUME NEW e \in Events, EventStep(e) PROVE f \in dlq' \/ Carried(f, S)'
  <2>0. dlq' = dlq /\ ev' = ev
    BY <1>3, EventShape
  <2>1. CASE RelayDelivers(e) /\ f = e
    BY <1>0, <2>1 DEF RelayDelivers, Carried, TypeOK
  <2>2. CASE (StorePending(e) \/ StoreIgnored(e)) /\ f = e
    BY <1>0, <2>0, <2>2 DEF StorePending, StoreIgnored, outbox, NothingBefore, TypeOK
  <2>3. CASE ~((RelayDelivers(e) \/ StorePending(e) \/ StoreIgnored(e)) /\ f = e)
    <3>1. payload'[f] = payload[f] /\ (inbox'[f] = "failed" => inbox[f] = "failed")
          /\ (f \in delivered' => f \in delivered)
      <4>1. CASE f # e
        BY <1>0, <1>3, <4>1, EventOthers
      <4>2. CASE f = e
        BY <1>0, <1>3, <2>3, <4>2
           DEF EventStep, RelaySettles, Relay!Record, Relay!Abandon, RetryExpires, Reprocess,
               store, outbox, TypeOK
      <4> QED BY <4>1, <4>2
    <3>2. f \in dlq \/ Carried(f, S)
      BY <1>0, <1>1, <2>0, <3>1 DEF KeptVisible
    <3> QED BY <1>0, <1>3, <2>0, <3>2, EventCarries
  <2> QED BY <2>1, <2>2, <2>3
<1>4. ASSUME NEW w \in Workers, WorkerStep(w) PROVE f \in dlq' \/ Carried(f, S)'
  <2>1. PICK e \in Events : WorksOn(w, e)
    BY <1>0, <1>4, WorkerShape
  <2>2. ~Resolved(f) /\ dlq \subseteq dlq' /\ delivered' = delivered
    BY <1>1, <2>1 DEF WorksOn
  <2>3. CASE f = e /\ owned'[w] /\ ev'[w] = e /\ pc'[w] = "process"
    BY <2>3 DEF Carried
  <2>4. CASE ~(f = e /\ owned'[w] /\ ev'[w] = e /\ pc'[w] = "process")
    <3>1. inbox[f] = "failed" \/ f \in delivered \/ \E v \in Workers : ev[v] = f
      <4>1. CASE f = e
        BY <2>1, <2>4, <4>1 DEF WorksOn
      <4>2. CASE f # e
        <5>1. \A v \in Workers : ev'[v] = f => ev[v] = f
          BY <2>1, <4>2, ConsumerAssumption DEF WorksOn
        <5> QED BY <2>1, <4>2, <5>1 DEF WorksOn
      <4> QED BY <4>1, <4>2
    <3>2. f \in dlq \/ Carried(f, S)
      BY <1>0, <2>2, <3>1 DEF KeptVisible
    <3>3. inbox'[f] # "processed"
      BY <1>0 DEF EffectOnce
    <3>4. f = e => e \in dlq' \/ KeepsCopy(w, e, S)
      <4>1. S = Unsettled \cup {"dead"}
        BY DEF Unsettled
      <4> QED BY <2>1, <3>3, <4>1 DEF WorksOn
    <3> QED BY <2>1, <2>2, <3>2, <3>4, CarriedStays
  <2> QED BY <2>3, <2>4
<1> QED
  BY <1>2, <1>3, <1>4 DEF Next

-----------------------------------------------------------------------------
(* The pipeline starts with nothing stored.                                *)
LEMMA InitNInv == Init => NInv
<1> SUFFICES ASSUME Init PROVE NInv
  OBVIOUS
<1>1. LInv /\ LedgerTypeOK /\ InHand
  BY InitLInv, InHandInductive DEF Init, LInv
<1>2. WorkerTypes /\ OwnersWork
  BY DEF Init, WorkerTypes, OwnersWork, PCs
<1>3. RowTypes
  BY ConsumerAssumption DEF Init, RowTypes, InboxStatuses
<1>4. QueueTypes
  BY DEF Init, QueueTypes
<1>5. PaidHasCause
  BY DEF Init, LedgerInit, PaidHasCause
<1>6. ASSUME NEW e \in Events
      PROVE  NothingBefore(e) /\ EffectOnce(e) /\ KeptPending(e) /\ KeptVisible(e)
  <2>1. NothingBefore(e)
    BY ConsumerAssumption DEF Init, NothingBefore
  <2>2. EffectOnce(e)
    BY ConsumerAssumption DEF Init, EffectOnce
  <2>3. KeptPending(e) /\ KeptVisible(e)
    BY ConsumerAssumption DEF Init, KeptPending, KeptVisible
  <2> QED BY <2>1, <2>2, <2>3
<1> QED
  BY <1>1, <1>2, <1>3, <1>4, <1>5, <1>6, TypeParts DEF NInv

(* Every step of the pipeline preserves the invariant.                     *)
LEMMA NextNInv == NInv /\ [Next]_vars => NInv'
<1> SUFFICES ASSUME NInv, [Next]_vars PROVE NInv'
  OBVIOUS
<1>1. TypeOK /\ LInv /\ InHand /\ OwnersWork
  BY DEF NInv
<1>2. InHand'
  BY <1>1, InHandInductive
<1>3. LInv' /\ LedgerTypeOK'
  BY <1>1, StepIsLedgerStep, NextLInv DEF InHand, LInv
<1>4. WorkerTypes' /\ RowTypes' /\ QueueTypes' /\ OwnersWork'
  BY <1>1, TypesStep
<1>5. TypeOK'
  BY <1>3, <1>4 DEF TypeOK, WorkerTypes, RowTypes, QueueTypes
<1>6. ASSUME NEW f \in Events
      PROVE  (NothingBefore(f) /\ EffectOnce(f) /\ KeptPending(f) /\ KeptVisible(f))'
  BY NothingBeforeStep, EffectOnceStep, KeptPendingStep, KeptVisibleStep
<1> QED
  BY <1>2, <1>3, <1>4, <1>5, <1>6, PaidHasCauseStep DEF NInv

(* The invariant holds of the pipeline, for any number of events, workers, *)
(* copies, replays and any retry budget.                                   *)
THEOREM PipelineInvariance == Spec => []NInv
  BY InitNInv, NextNInv, PTL DEF Spec

(* Every column, queue and worker holds what its type says: no counter of  *)
(* copies goes below zero and no attempts counter above the budget.        *)
THEOREM PipelineTypes == Spec => []TypeOK
<1>1. NInv => TypeOK
  BY DEF NInv
<1> QED BY <1>1, PipelineInvariance, PTL

(* No inbox row is left pending without a message to publish or a copy in  *)
(* the broker, whatever handle, the relay or Reprocess did in between.     *)
THEOREM PendingDriven == Spec => []PendingIsDriven
<1>1. ASSUME NInv PROVE PendingIsDriven
  <2> SUFFICES ASSUME NEW e \in Events, inbox[e] = "pending", out[e] \notin {"open", "abandoned"}
               PROVE  Alive(e)
    BY DEF PendingIsDriven
  <2>1. NothingBefore(e) /\ KeptPending(e) /\ out[e] \in {"none", "open", "published", "abandoned"}
    BY <1>1 DEF NInv, TypeOK
  <2>2. Carried(e, {"process", "record", "retry"})
    BY <2>1 DEF NothingBefore, KeptPending
  <2> QED BY <2>2 DEF Carried, Alive, Holders
<1> QED BY <1>1, PipelineInvariance, PTL

(* A failed event that still matters is in the dead-letter queue or on its *)
(* way there: classify never loses one between RecordFailure and the ack.  *)
THEOREM FailureVisible == Spec => []UnresolvedIsVisible
<1>1. ASSUME NInv PROVE UnresolvedIsVisible
  <2> SUFFICES ASSUME NEW e \in Events, inbox[e] = "failed", Unresolved(e)
               PROVE  e \in dlq \/ Alive(e)
    BY DEF UnresolvedIsVisible
  <2>1. KeptVisible(e) /\ ~Resolved(e)
    BY <1>1 DEF NInv, Unresolved, Resolved
  <2>2. e \in dlq \/ Carried(e, {"process", "record", "retry", "dead"})
    BY <2>1 DEF KeptVisible
  <2> QED BY <2>2 DEF Carried, Alive, Holders
<1> QED BY <1>1, PipelineInvariance, PTL

(* Process moves the ledger at most once for an event, over redeliveries,  *)
(* lost commit replies, a spent budget and operator replays.               *)
THEOREM AppliedOnce == Spec => []AppliedAtMostOnce
<1>1. NInv => AppliedAtMostOnce
  BY DEF NInv, EffectOnce, AppliedAtMostOnce
<1> QED BY <1>1, PipelineInvariance, PTL

(* Effect and inbox row commit together: a processed success has paid.     *)
THEOREM SuccessIsBooked == Spec => []SuccessBooked
<1>1. ASSUME NInv PROVE SuccessBooked
  <2> SUFFICES ASSUME NEW e \in Events, inbox[e] = "processed", payload[e][2] = "succeeded"
               PROVE  order[OrderOf[PaymentOf[payload[e][1]]]] = "paid"
    BY DEF SuccessBooked
  <2> DEFINE a == payload[e][1]
  <2>1. /\ LInv /\ a \in Attempts /\ att[a] # "absent"
        /\ Decided(a, "succeeded").decision = "noop"
    BY <1>1 DEF NInv, EffectOnce, Resolved, Usable
  <2> HIDE DEF a
  <2>2. PaymentOf[a] \in Payments /\ OrderOf[PaymentOf[a]] \in Orders
    BY <2>1, ForeignKeys
  <2>3. /\ pay[PaymentOf[a]] \in {"pending", "processing", "succeeded", "failed"}
        /\ att[a] \in {"created", "pending", "succeeded", "failed", "expired"}
        /\ att[a] = "succeeded" => pay[PaymentOf[a]] = "succeeded"
        /\ att[a] = "failed" => pay[PaymentOf[a]] = "failed"
    BY <2>1, <2>2 DEF LInv, LedgerTypeOK, AttemptHasPayment, AttemptsExplainPayment
  <2>4. "succeeded" \in Outcomes
    BY DEF Outcomes
  <2>5. NoOpFor("succeeded", pay[PaymentOf[a]], att[a])
    BY <2>1, <2>3, <2>4, WhenNoOp DEF Decided
  <2>6. pay[PaymentOf[a]] = "succeeded"
    BY <2>5 DEF NoOpFor
  <2> QED BY <2>1, <2>2, <2>6 DEF LInv, PaidIffSucceeded, a
<1> QED BY <1>1, PipelineInvariance, PTL

(* MarkOrderPaid runs only for a success that the provider reported.       *)
THEOREM PaidForACause == Spec => []PaidHasCause
<1>1. NInv => PaidHasCause
  BY DEF NInv
<1> QED BY <1>1, PipelineInvariance, PTL

=============================================================================
