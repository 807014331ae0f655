------------------------------ MODULE Consumer ------------------------------
(***************************************************************************)
(* A provider event from the webhook endpoint to its effect: the inbox     *)
(* row, the outbox message, the broker's queues, the consumer's workers    *)
(* and the operator's replay, over the payment aggregate of Ledger.        *)
(*                                                                         *)
(* The relay appears only through what Outbox is proved to implement, the  *)
(* actions of AtLeastOnce.  A database transaction that commits under row  *)
(* locks is one step, and a second step stands for each way its answer can *)
(* be lost.  Each worker has its own channel here: losing one is also what *)
(* a worker sees when another worker's error closes the shared session.    *)
(***************************************************************************)
EXTENDS Ledger, Integers, FiniteSets

CONSTANTS
    Events,        \* provider events, one inbox row each
    Contents,      \* what each event may say: <<attempt, outcome>>, or
    Unusable,      \* a payload or reference that is wrong for ever, or
    Ignored,       \* a kind the system does not handle
    Unencodable,   \* events whose outbox message cannot be encoded
    Workers,       \* consumer goroutines, over all processes
    MaxAttempts,   \* Config.MaxAttempts, the retry budget
    MaxCopies,     \* bound: copies of one event that unasked duplicates make
    MaxReplays,    \* bound: operator replays, until an event has had so many
    None           \* no payload yet, no event in hand

Usable == Attempts \X Outcomes

ASSUME ConsumerAssumption ==
    /\ MaxAttempts \in Nat \ {0, 1} /\ MaxCopies \in Nat /\ MaxReplays \in Nat
    /\ Contents \in [Events -> SUBSET (Usable \cup {Unusable, Ignored})]
    /\ Unusable \notin Usable /\ Ignored \notin Usable /\ Unusable # Ignored
    /\ None \notin Events /\ None \notin Usable \cup {Unusable, Ignored}
    /\ Unencodable \subseteq Events

VARIABLES
    inbox,       \* webhook_events.status, "none" before the row exists
    tries,       \* webhook_events.attempts, saturating at MaxAttempts
    payload,     \* webhook_events.payload, interpreted
    out,         \* the outbox row's record, as AtLeastOnce sees it
    delivered,   \* messages the broker has taken since they were enqueued
    ready,       \* copies waiting in the webhooks queue
    retry,       \* copies waiting in a retry tier
    dlq,         \* events with a copy in the dead-letter queue
    pc,          \* where each worker is in handle
    ev,          \* the event of the delivery in hand
    owned,       \* is that delivery still this worker's to acknowledge?
    terminal,    \* isTerminal of the error being classified
    applied,     \* history: how often the event moved the ledger
    replays      \* webhook_events.replay_count

store  == <<inbox, tries, payload>>
outbox == <<out, delivered>>
queues == <<ready, retry, dlq>>
worker == <<pc, ev, owned, terminal>>
vars   == <<ledger, store, outbox, queues, worker, applied, replays>>

InboxStatuses == {"none", "pending", "processed", "failed", "skipped"}
PCs == {"idle", "process", "record", "retry", "dead", "ack"}

TypeOK ==
    /\ LedgerTypeOK
    /\ inbox \in [Events -> InboxStatuses]
    /\ tries \in [Events -> 0..MaxAttempts]
    /\ payload \in [Events -> Usable \cup {Unusable, Ignored, None}]
    /\ out \in [Events -> {"none", "open", "published", "abandoned"}]
    /\ delivered \subseteq Events
    /\ ready \in [Events -> Nat] /\ retry \in [Events -> Nat]
    /\ dlq \subseteq Events
    /\ pc \in [Workers -> PCs]
    /\ ev \in [Workers -> Events \cup {None}]
    /\ owned \in [Workers -> BOOLEAN]
    /\ terminal \in [Workers -> BOOLEAN]
    /\ applied \in [Events -> Nat]
    /\ replays \in [Events -> 0..MaxReplays]

Init ==
    /\ LedgerInit
    /\ inbox = [e \in Events |-> "none"]
    /\ tries = [e \in Events |-> 0]
    /\ payload = [e \in Events |-> None]
    /\ out = [e \in Events |-> "none"]
    /\ delivered = {}
    /\ ready = [e \in Events |-> 0] /\ retry = [e \in Events |-> 0]
    /\ dlq = {}
    /\ pc = [w \in Workers |-> "idle"]
    /\ ev = [w \in Workers |-> None]
    /\ owned = [w \in Workers |-> FALSE]
    /\ terminal = [w \in Workers |-> FALSE]
    /\ applied = [e \in Events |-> 0]
    /\ replays = [e \in Events |-> 0]

-----------------------------------------------------------------------------
(* Checkout goes on while events are consumed.                             *)

Checkout ==
    /\ CheckoutStep
    /\ UNCHANGED <<store, outbox, queues, worker, applied, replays>>

-----------------------------------------------------------------------------
(* The webhook endpoint.  A second arrival of the same event inserts       *)
(* nothing, so it is a stuttering step.                                    *)

(* StorePending: event and message commit together.  The provider speaks   *)
(* of an attempt only after checkout named it in a session.                *)
StorePending(e) ==
    /\ inbox[e] = "none"
    /\ \E c \in Contents[e] \ {Ignored} :
          /\ c \in Usable => att[c[1]] # "absent"
          /\ payload' = [payload EXCEPT ![e] = c]
    /\ inbox' = [inbox EXCEPT ![e] = "pending"]
    /\ out' = [out EXCEPT ![e] = "open"]
    /\ UNCHANGED <<ledger, tries, delivered, queues, worker, applied, replays>>

(* StoreIgnored: kept for the record, with no message.                     *)
StoreIgnored(e) ==
    /\ inbox[e] = "none"
    /\ Ignored \in Contents[e]
    /\ payload' = [payload EXCEPT ![e] = Ignored]
    /\ inbox' = [inbox EXCEPT ![e] = "skipped"]
    /\ UNCHANGED <<ledger, tries, outbox, queues, worker, applied, replays>>

-----------------------------------------------------------------------------
(* The relay, as AtLeastOnce.                                              *)

Relay == INSTANCE AtLeastOnce WITH Messages <- Events, outcome <- out

Holders(e) == {w \in Workers : owned[w] /\ ev[w] = e}
Copies(e)  == ready[e] + retry[e] + Cardinality(Holders(e))

(* A publication reaches the webhooks queue, the first or a repeated one.  *)
RelayDelivers(e) ==
    /\ out[e] # "none"
    /\ Copies(e) < MaxCopies
    /\ Relay!Deliver(e)
    /\ ready' = [ready EXCEPT ![e] = @ + 1]
    /\ UNCHANGED <<ledger, store, retry, dlq, worker, applied, replays>>

RelaySettles(e) ==
    /\ Relay!Record(e) \/ Relay!Abandon(e)
    /\ UNCHANGED <<ledger, store, queues, worker, applied, replays>>

-----------------------------------------------------------------------------
(* The broker.                                                             *)

(* A copy of e is handed to an idle worker.                                *)
Deliver(w, e) ==
    /\ pc[w] = "idle"
    /\ ready[e] > 0
    /\ ready' = [ready EXCEPT ![e] = @ - 1]
    /\ pc' = [pc EXCEPT ![w] = "process"]
    /\ ev' = [ev EXCEPT ![w] = e]
    /\ owned' = [owned EXCEPT ![w] = TRUE]
    /\ UNCHANGED <<ledger, store, outbox, retry, dlq, terminal, applied, replays>>

(* A retry tier's TTL dead-letters the copy back to the main queue.        *)
RetryExpires(e) ==
    /\ retry[e] > 0
    /\ retry' = [retry EXCEPT ![e] = @ - 1]
    /\ ready' = [ready EXCEPT ![e] = @ + 1]
    /\ UNCHANGED <<ledger, store, outbox, dlq, worker, applied, replays>>

(* The channel closes under a worker that is still at work: the delivery   *)
(* is requeued at once, and the worker does not know.                      *)
ChannelLost(w) ==
    /\ owned[w]
    /\ owned' = [owned EXCEPT ![w] = FALSE]
    /\ ready' = [ready EXCEPT ![ev[w]] = @ + 1]
    /\ UNCHANGED <<ledger, store, outbox, retry, dlq, pc, ev, terminal, applied, replays>>

-----------------------------------------------------------------------------
(* A worker handles one delivery.                                          *)

Goto(w, p) == pc' = [pc EXCEPT ![w] = p] /\ UNCHANGED <<ev, owned, terminal>>

Fail(w, isTerminal) ==
    /\ pc' = [pc EXCEPT ![w] = "record"]
    /\ terminal' = [terminal EXCEPT ![w] = isTerminal]
    /\ UNCHANGED <<ev, owned>>

Release(w) ==
    /\ pc' = [pc EXCEPT ![w] = "idle"]
    /\ ev' = [ev EXCEPT ![w] = None]
    /\ owned' = [owned EXCEPT ![w] = FALSE]
    /\ terminal' = [terminal EXCEPT ![w] = FALSE]

(* handle returns an error: the session is closed with the delivery        *)
(* unacknowledged, and the broker requeues it if it had not done so yet.   *)
SessionEnds(w) ==
    /\ Release(w)
    /\ ready' = [ready EXCEPT ![ev[w]] = IF owned[w] THEN @ + 1 ELSE @]

Bumped(n) == IF n < MaxAttempts THEN n + 1 ELSE MaxAttempts

(* Process finds the row already processed and writes nothing.             *)
AlreadyProcessed(w) ==
    /\ pc[w] = "process"
    /\ inbox[ev[w]] = "processed"
    /\ Goto(w, "ack")
    /\ UNCHANGED <<ledger, store, outbox, queues, applied, replays>>

(* Bug: a conflict is closed as if it were a stale event.                  *)
commitConflicts(e) ==
    /\ inbox[e] # "processed"
    /\ payload[e] \in Usable
    /\ LET a == payload[e][1]  oc == payload[e][2] IN
          \/ /\ ApplyOutcome(a, oc)
             /\ applied' = [applied EXCEPT ![e] = @ + 1]
          \/ /\ Decided(a, oc).decision \in {"noop", "conflict"}
             /\ UNCHANGED <<ledger, applied>>
    /\ inbox' = [inbox EXCEPT ![e] = "processed"]
    /\ tries' = [tries EXCEPT ![e] = Bumped(@)]
    /\ UNCHANGED payload

(* Bug: the order is left for a second transaction.                        *)
commitWithoutOrder(e) ==
    /\ inbox[e] # "processed"
    /\ payload[e] \in Usable
    /\ LET a == payload[e][1]  t == Decided(a, payload[e][2]) IN
          /\ t.decision = "apply"
          /\ att' = [att EXCEPT ![a] = IF t.attempt = Unmoved THEN @ ELSE t.attempt]
          /\ pay' = [pay EXCEPT ![PaymentOf[a]] = IF t.payment = Unmoved THEN @ ELSE t.payment]
    /\ applied' = [applied EXCEPT ![e] = @ + 1]
    /\ inbox' = [inbox EXCEPT ![e] = "processed"]
    /\ tries' = [tries EXCEPT ![e] = Bumped(@)]
    /\ UNCHANGED <<order, payload>>

(* Process commits: the effect, or a deliberate no-op, and the row.        *)
Commit(e) ==
    /\ inbox[e] # "processed"
    /\ payload[e] \in Usable
    /\ LET a == payload[e][1]  oc == payload[e][2] IN
          \/ /\ ApplyOutcome(a, oc)
             /\ applied' = [applied EXCEPT ![e] = @ + 1]
          \/ /\ Decided(a, oc).decision = "noop"
             /\ UNCHANGED <<ledger, applied>>
    /\ inbox' = [inbox EXCEPT ![e] = "processed"]
    /\ tries' = [tries EXCEPT ![e] = Bumped(@)]
    /\ UNCHANGED payload

Process(w) ==
    /\ pc[w] = "process"
    /\ Commit(ev[w])
    /\ Goto(w, "ack")
    /\ UNCHANGED <<outbox, queues, replays>>

(* The commit takes effect but its answer is lost: Process returns an      *)
(* error that classify takes for transient.                                *)
CommitReplyLost(w) ==
    /\ pc[w] = "process"
    /\ Commit(ev[w])
    /\ Fail(w, FALSE)
    /\ UNCHANGED <<outbox, queues, replays>>

(* A database error or timeout before the commit: rolled back.             *)
ProcessError(w) ==
    /\ pc[w] = "process"
    /\ Fail(w, FALSE)
    /\ UNCHANGED <<ledger, store, outbox, queues, applied, replays>>

(* One of terminalErrors: the payload is unusable, the matrix reports a    *)
(* conflict, or an approved update matched no row.                         *)
ProcessTerminal(w) ==
    LET e == ev[w] IN
    /\ pc[w] = "process"
    /\ inbox[e] # "processed"
    /\ payload[e] \in Usable =>
          LET t == Decided(payload[e][1], payload[e][2]) IN
             t.decision = "conflict" \/ ~UpdatesMatch(payload[e][1], t)
    /\ Fail(w, TRUE)
    /\ UNCHANGED <<ledger, store, outbox, queues, applied, replays>>

(* RecordWebhookEventFailure closes the row when the cause is terminal or  *)
(* this attempt spends the budget.  It does not look at the status.        *)
Closes(w) == terminal[w] \/ tries[ev[w]] + 1 >= MaxAttempts

RecordFailure(w) ==
    /\ tries' = [tries EXCEPT ![ev[w]] = Bumped(@)]
    /\ inbox' = [inbox EXCEPT ![ev[w]] = IF Closes(w) THEN "failed" ELSE @]
    /\ UNCHANGED payload

(* Bug: the budget is compared again in the service, after the statement.  *)
recordThenDecide(w) ==
    /\ pc[w] = "record"
    /\ tries' = [tries EXCEPT ![ev[w]] = Bumped(@)]
    /\ inbox' = [inbox EXCEPT ![ev[w]] = IF terminal[w] THEN "failed" ELSE @]
    /\ Goto(w, IF Closes(w) THEN "dead" ELSE "retry")
    /\ UNCHANGED <<payload, ledger, outbox, queues, applied, replays>>

(* Bug: the consumer retries a transient failure for ever, as the relay    *)
(* does.                                                                   *)
recordForever(w) ==
    /\ pc[w] = "record"
    /\ tries' = [tries EXCEPT ![ev[w]] = Bumped(@)]
    /\ inbox' = [inbox EXCEPT ![ev[w]] = IF terminal[w] THEN "failed" ELSE @]
    /\ Goto(w, IF terminal[w] THEN "dead" ELSE "retry")
    /\ UNCHANGED <<payload, ledger, outbox, queues, applied, replays>>

(* classify: the recorded status decides between retry and dead letter.    *)
Record(w) ==
    /\ pc[w] = "record"
    /\ RecordFailure(w)
    /\ Goto(w, IF inbox'[ev[w]] = "failed" THEN "dead" ELSE "retry")
    /\ UNCHANGED <<ledger, outbox, queues, applied, replays>>

(* The failure is recorded but the answer is lost.                         *)
RecordReplyLost(w) ==
    /\ pc[w] = "record"
    /\ RecordFailure(w)
    /\ SessionEnds(w)
    /\ UNCHANGED <<ledger, outbox, retry, dlq, applied, replays>>

(* The failure cannot be recorded.                                         *)
RecordError(w) ==
    /\ pc[w] = "record"
    /\ SessionEnds(w)
    /\ UNCHANGED <<ledger, store, outbox, retry, dlq, applied, replays>>

(* A retry tier or the dead-letter queue takes a copy of w's delivery.     *)
Republished(w) ==
    \/ /\ pc[w] = "retry"
       /\ retry' = [retry EXCEPT ![ev[w]] = @ + 1]
       /\ UNCHANGED dlq
    \/ /\ pc[w] = "dead"
       /\ dlq' = dlq \cup {ev[w]}
       /\ UNCHANGED retry

(* Bug: the original is acknowledged before the copy is confirmed.         *)
republishAfterAck(w) ==
    /\ \/ Republished(w)
       \/ pc[w] \in {"retry", "dead"} /\ UNCHANGED <<retry, dlq>>
    /\ Goto(w, "ack")
    /\ UNCHANGED <<ledger, store, outbox, ready, applied, replays>>

(* republishForRetry and republishToDeadLetter, confirmed.                 *)
Republish(w) ==
    /\ Republished(w)
    /\ Goto(w, "ack")
    /\ UNCHANGED <<ledger, store, outbox, ready, applied, replays>>

(* Refused, not routed, or no channel: no copy exists.                     *)
RepublishFails(w) ==
    /\ pc[w] \in {"retry", "dead"}
    /\ SessionEnds(w)
    /\ UNCHANGED <<ledger, store, outbox, retry, dlq, applied, replays>>

(* The copy was taken but never confirmed: original and copy both live on. *)
RepublishUnconfirmed(w) ==
    /\ pc[w] \in {"retry", "dead"}
    /\ Copies(ev[w]) < MaxCopies
    /\ Republished(w)
    /\ SessionEnds(w)
    /\ UNCHANGED <<ledger, store, outbox, applied, replays>>

Ack(w) ==
    /\ pc[w] = "ack"
    /\ owned[w]
    /\ Release(w)
    /\ UNCHANGED <<ledger, store, outbox, queues, applied, replays>>

(* The channel is gone, or dies before the broker reads the ack.           *)
AckFails(w) ==
    /\ pc[w] = "ack"
    /\ SessionEnds(w)
    /\ UNCHANGED <<ledger, store, outbox, retry, dlq, applied, replays>>

(* The process dies and another takes its place.                           *)
Crash(w) ==
    /\ pc[w] # "idle"
    /\ SessionEnds(w)
    /\ UNCHANGED <<ledger, store, outbox, retry, dlq, applied, replays>>

-----------------------------------------------------------------------------
(* The operator.                                                           *)

(* Reprocess: a failed event, or a pending one whose message could not be  *)
(* published.  A message still on its way makes the transaction roll back. *)
Reprocess(e) ==
    /\ \A f \in Events : replays[f] < MaxReplays
    /\ \/ inbox[e] = "failed"
       \/ inbox[e] = "pending" /\ out[e] = "abandoned"
    /\ out[e] \in {"published", "abandoned"}
    /\ inbox' = [inbox EXCEPT ![e] = "pending"]
    /\ tries' = [tries EXCEPT ![e] = IF inbox[e] = "failed" THEN 0 ELSE @]
    /\ out' = [out EXCEPT ![e] = "open"]
    /\ delivered' = delivered \ {e}
    /\ replays' = [replays EXCEPT ![e] = @ + 1]
    /\ UNCHANGED <<ledger, payload, queues, worker, applied>>

-----------------------------------------------------------------------------

EventStep(e) ==
    \/ StorePending(e) \/ StoreIgnored(e)
    \/ RelayDelivers(e) \/ RelaySettles(e)
    \/ RetryExpires(e)
    \/ Reprocess(e)

WorkerStep(w) ==
    \/ \E e \in Events : Deliver(w, e)
    \/ AlreadyProcessed(w) \/ Process(w) \/ CommitReplyLost(w)
    \/ ProcessError(w) \/ ProcessTerminal(w)
    \/ Record(w) \/ RecordReplyLost(w) \/ RecordError(w)
    \/ Republish(w) \/ RepublishFails(w) \/ RepublishUnconfirmed(w)
    \/ Ack(w) \/ AckFails(w)
    \/ ChannelLost(w) \/ Crash(w)

Next ==
    \/ Checkout
    \/ \E e \in Events : EventStep(e)
    \/ \E w \in Workers : WorkerStep(w)

Spec == Init /\ [][Next]_vars

(***************************************************************************)
(* PostgreSQL, RabbitMQ and the processes fail any number of times but not *)
(* for ever, so what is attempted again and again for an event succeeds at *)
(* some point: strong fairness for a publication, a delivery, a run of     *)
(* Process (with any result), the recording of a failure and a confirmed   *)
(* republication.  Retry tiers expire and workers do settle: weak fairness.*)
(* Nothing is assumed of Process succeeding, of operators or of checkout.  *)
(***************************************************************************)
Handled(w) ==
    AlreadyProcessed(w) \/ Process(w) \/ ProcessError(w) \/ ProcessTerminal(w)

Fairness ==
    /\ \A e \in Events :
          /\ SF_vars(RelayDelivers(e) /\ e \notin delivered)
          /\ SF_vars(\E w \in Workers : Deliver(w, e))
          /\ WF_vars(RetryExpires(e))
          /\ SF_vars(\E w \in Workers : ev[w] = e /\ Handled(w))
          /\ SF_vars(\E w \in Workers : ev[w] = e /\ Record(w))
          /\ SF_vars(\E w \in Workers : ev[w] = e /\ Republish(w))
    /\ \A w \in Workers : WF_vars(Ack(w) \/ AckFails(w))

LiveSpec == Spec /\ Fairness

-----------------------------------------------------------------------------
(* Properties.                                                             *)

(* A copy that the broker will deliver, or that a worker must settle.      *)
Alive(e) == ready[e] > 0 \/ retry[e] > 0 \/ Holders(e) # {}

(* ADR 0013: no inbox row is left "pending, with no corresponding message".*)
(* Whatever was acknowledged, republished, lost or replayed, a pending     *)
(* event still has its outbox message to publish or a copy in the broker.  *)
PendingIsDriven ==
    \A e \in Events : inbox[e] = "pending"
        => out[e] \in {"open", "abandoned"} \/ Alive(e)

(* Would processing the event still matter?  Not if its outcome is already *)
(* in the ledger or was overtaken there.                                   *)
Unresolved(e) ==
    payload[e] \in Usable => Decided(payload[e][1], payload[e][2]).decision # "noop"

(* "A message lost on the way to the dead letter is the worst possible     *)
(* loss": a failed event that still matters is in the DLQ, where a human   *)
(* looks for it, or has a copy that will get there or be processed.        *)
UnresolvedIsVisible ==
    \A e \in Events :
        (inbox[e] = "failed" /\ Unresolved(e)) => e \in dlq \/ Alive(e)

(* One event moves the ledger at most once, over every redelivery, crash   *)
(* after the commit, spent budget and operator replay.                     *)
AppliedAtMostOnce == \A e \in Events : applied[e] <= 1

(* Effect and inbox row commit together: an event recorded as processed    *)
(* that reported a success has paid its order.                             *)
SuccessBooked ==
    \A e \in Events :
        (inbox[e] = "processed" /\ payload[e][2] = "succeeded")
            => order[OrderOf[PaymentOf[payload[e][1]]]] = "paid"

(* No order is paid without an event of the provider that says so.         *)
PaidHasCause ==
    \A o \in Orders : order[o] = "paid" =>
        \E e \in Events :
            /\ applied[e] = 1
            /\ payload[e][2] = "succeeded"
            /\ OrderOf[PaymentOf[payload[e][1]]] = o

(* Consumer and checkout together touch the aggregate only as Ledger       *)
(* allows, so all that is proved of Ledger holds of the running system.    *)
ImplementsLedger == LedgerSpec

(* Every accepted event is dealt with in the end: applied, ignored on      *)
(* purpose, or failed and in the dead-letter queue.                        *)
EveryEventCloses ==
    \A e \in Events :
        (inbox[e] = "pending" /\ e \notin Unencodable)
            ~> (inbox[e] = "processed" \/ (inbox[e] = "failed" /\ e \in dlq))

(* ADR 0013 on the windows of duplication: the second pass finds the event *)
(* processed "and leaves as a no-op".  A processed event stays processed.  *)
ProcessedIsFinal ==
    [][\A e \in Events : inbox[e] = "processed" => inbox'[e] = "processed"]_vars

=============================================================================
