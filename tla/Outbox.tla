------------------------------- MODULE Outbox -------------------------------
(***************************************************************************)
(* The outbox relay: application/outbox.Service over the lease statements  *)
(* of db/queries/outbox.sql, with the RabbitMQ publisher as the broker     *)
(* port.  Several worker processes each run one relay; they share nothing  *)
(* but the outbox_events rows and the PostgreSQL clock.                    *)
(*                                                                         *)
(* Time is kept as countdowns, not as instants: a column or a context      *)
(* deadline is the number of ticks left until it passes.  The state is     *)
(* finite without a horizon, so liveness is checked over infinite time.    *)
(*                                                                         *)
(* Not distinguished here: the order of a batch (UPDATE ... RETURNING      *)
(* promises none) and ORDER BY next_attempt_at among due rows; any due     *)
(* rows may make up a batch.                                               *)
(***************************************************************************)
EXTENDS Integers, FiniteSets

CONSTANTS
    Relays,            \* lease owners: InstanceIdentity, one per process life
    CrashProne,        \* relays that may die; a restart is another identity
    Messages,          \* outbox_events rows
    Unencodable,       \* messages json.Marshal refuses
    BatchSize,         \* Config.BatchSize
    LeaseDuration,     \* Config.LeaseDuration, in ticks
    SettlementReserve, \* app.SettlementReserve, in ticks
    BackoffBase,       \* Backoff.Base, in ticks
    BackoffMax,        \* Backoff.Max, in ticks
    MaxExponent,       \* maxExponent of Backoff.Delay
    Prompt,            \* relays that react before their own deadlines
    NoRelay            \* NULL in locked_by, and "no message" in cur

ASSUME RelayAssumption ==
    /\ NoRelay \notin Relays
    /\ NoRelay \notin Messages
    /\ CrashProne \subseteq Relays
    /\ Unencodable \subseteq Messages
    /\ Prompt \subseteq Relays

ASSUME TimeAssumption ==
    /\ BatchSize \in Nat \ {0}
    /\ SettlementReserve \in Nat \ {0}
    /\ LeaseDuration \in Nat /\ LeaseDuration > SettlementReserve
    /\ BackoffBase \in Nat \ {0}
    /\ BackoffMax \in Nat \ {0}
    /\ MaxExponent \in Nat

VARIABLES
    status,      \* outbox_events.status
    lockedBy,    \* outbox_events.locked_by
    lockLeft,    \* ticks until locked_until; 0 = passed or NULL
    dueIn,       \* ticks until next_attempt_at; 0 = due
    attempts,    \* outbox_events.attempts, saturating at MaxExponent
    accepted,    \* messages a queue of the broker has taken
    pc,          \* where each relay is in runOnce
    todo,        \* leases of the batch not yet handled
    cur,         \* the lease publishOne is working on
    left,        \* ticks until the cycle's start + LeaseDuration
    taken,       \* has the broker taken this very publication?
    result,      \* what Publish returned
    settleLeft   \* ticks until the settlement context expires

rows  == <<status, lockedBy, lockLeft, dueIn, attempts>>
relay == <<pc, todo, cur, left, taken, result, settleLeft>>
vars  == <<rows, accepted, relay>>

Statuses == {"pending", "publishing", "published", "failed"}
Results  == {"none", "ok", "permanent", "transient"}
PCs      == {"idle", "leasing", "loop", "publishing", "settling", "down"}

TypeOK ==
    /\ status \in [Messages -> Statuses]
    /\ lockedBy \in [Messages -> Relays \cup {NoRelay}]
    /\ lockLeft \in [Messages -> 0..LeaseDuration]
    /\ dueIn \in [Messages -> 0..BackoffMax]
    /\ attempts \in [Messages -> 0..MaxExponent]
    /\ accepted \subseteq Messages
    /\ pc \in [Relays -> PCs]
    /\ todo \in [Relays -> SUBSET Messages]
    /\ cur \in [Relays -> Messages \cup {NoRelay}]
    /\ left \in [Relays -> 0..LeaseDuration]
    /\ taken \in [Relays -> BOOLEAN]
    /\ result \in [Relays -> Results]
    /\ settleLeft \in [Relays -> 0..SettlementReserve]

(* Rows as insertOutboxMessage leaves them; relays not yet in a cycle.     *)
Init ==
    /\ status = [m \in Messages |-> "pending"]
    /\ lockedBy = [m \in Messages |-> NoRelay]
    /\ lockLeft = [m \in Messages |-> 0]
    /\ dueIn = [m \in Messages |-> 0]
    /\ attempts = [m \in Messages |-> 0]
    /\ accepted = {}
    /\ pc = [r \in Relays |-> "idle"]
    /\ todo = [r \in Relays |-> {}]
    /\ cur = [r \in Relays |-> NoRelay]
    /\ left = [r \in Relays |-> 0]
    /\ taken = [r \in Relays |-> FALSE]
    /\ result = [r \in Relays |-> "none"]
    /\ settleLeft = [r \in Relays |-> 0]

-----------------------------------------------------------------------------
(* The statements of outbox.sql.                                           *)

(* Bug: a leased row is due whether or not its deadline passed.            *)
DueIgnoringLease(m) == dueIn[m] = 0 /\ status[m] \in {"pending", "publishing"}

(* Bug: a leased row is never due again.                                   *)
DueOnlyPending(m) == dueIn[m] = 0 /\ status[m] = "pending"

(* Bug: the status is not looked at.                                       *)
DueAnyStatus(m) == dueIn[m] = 0 /\ lockLeft[m] = 0

(* The WHERE clause of LeaseOutboxBatch.                                   *)
Due(m) ==
    /\ dueIn[m] = 0
    /\ \/ status[m] = "pending"
       \/ status[m] = "publishing" /\ lockLeft[m] = 0

(* LeaseOutboxBatch: claim a batch of due rows for r, all of them when     *)
(* they fit.                                                               *)
Claim(r, batch) ==
    /\ batch \subseteq {m \in Messages : Due(m)}
    /\ Cardinality(batch) <= BatchSize
    /\ Cardinality(batch) < BatchSize => batch = {m \in Messages : Due(m)}
    /\ status' = [m \in Messages |-> IF m \in batch THEN "publishing" ELSE status[m]]
    /\ lockedBy' = [m \in Messages |-> IF m \in batch THEN r ELSE lockedBy[m]]
    /\ lockLeft' = [m \in Messages |-> IF m \in batch THEN LeaseDuration ELSE lockLeft[m]]
    /\ UNCHANGED <<dueIn, attempts>>

(* Bug: settling by owner alone, without locked_until > now().             *)
HoldsWithoutDeadline(r, m) == lockedBy[m] = r

(* The guard of the three Mark statements: locked_by = owner AND           *)
(* locked_until > now().                                                   *)
Holds(r, m) == lockedBy[m] = r /\ lockLeft[m] > 0

(* Backoff.Delay: full jitter below an exponential ceiling.                *)
DelayAllowed(d, a) == d <= BackoffBase * 2^a

BumpedAttempts(m) ==
    IF attempts[m] < MaxExponent THEN attempts[m] + 1 ELSE MaxExponent

(* MarkOutboxPublished, MarkOutboxFailed and MarkOutboxRetryable, chosen   *)
(* by settle from the publish error.  Each clears the lease.               *)
MarkAs(m, s, delay) ==
    /\ status' = [status EXCEPT ![m] = s]
    /\ lockedBy' = [lockedBy EXCEPT ![m] = NoRelay]
    /\ lockLeft' = [lockLeft EXCEPT ![m] = 0]
    /\ dueIn' = [dueIn EXCEPT ![m] = delay]
    /\ attempts' = [attempts EXCEPT ![m] = BumpedAttempts(m)]

Mark(r, m) ==
    /\ Holds(r, m)
    /\ \/ result[r] = "ok" /\ MarkAs(m, "published", dueIn[m])
       \/ result[r] = "permanent" /\ MarkAs(m, "failed", dueIn[m])
       \/ /\ result[r] = "transient"
          /\ \E d \in 1..BackoffMax :
                DelayAllowed(d, attempts[m]) /\ MarkAs(m, "pending", d)

-----------------------------------------------------------------------------
(* One relay cycle.                                                        *)

(* Bug: the whole lease is spent on publishing.                            *)
WindowWithoutReserve(r) == left[r] > 0

(* publicationCtx is still open: the cycle's window is LeaseDuration minus *)
(* SettlementReserve, counted from before the lease statement.             *)
WindowOpen(r) == left[r] > SettlementReserve

(* publishOne is over, its locals with it; the relay goes on at step p.    *)
Goto(r, p) ==
    /\ pc' = [pc EXCEPT ![r] = p]
    /\ cur' = [cur EXCEPT ![r] = NoRelay]
    /\ taken' = [taken EXCEPT ![r] = FALSE]
    /\ result' = [result EXCEPT ![r] = "none"]
    /\ settleLeft' = [settleLeft EXCEPT ![r] = 0]

(* runOnce is over; leases still in todo are left to expire.               *)
CycleOver(r, p) ==
    /\ Goto(r, p)
    /\ todo' = [todo EXCEPT ![r] = {}]
    /\ left' = [left EXCEPT ![r] = 0]

(* runOnce begins: the local window starts before PostgreSQL is asked.     *)
StartCycle(r) ==
    /\ pc[r] = "idle"
    /\ pc' = [pc EXCEPT ![r] = "leasing"]
    /\ left' = [left EXCEPT ![r] = LeaseDuration]
    /\ UNCHANGED <<rows, accepted, todo, cur, taken, result, settleLeft>>

(* Lease succeeds and the relay learns its batch.                          *)
Lease(r) ==
    /\ pc[r] = "leasing"
    /\ WindowOpen(r)
    /\ \E batch \in SUBSET Messages :
          /\ Claim(r, batch)
          /\ todo' = [todo EXCEPT ![r] = batch]
    /\ pc' = [pc EXCEPT ![r] = "loop"]
    /\ UNCHANGED <<accepted, cur, left, taken, result, settleLeft>>

(* The claim commits but the answer is lost: Lease returns an error, the   *)
(* cycle ends, and the rows stay leased to a relay that does not know it.  *)
LeaseReplyLost(r) ==
    /\ pc[r] = "leasing"
    /\ WindowOpen(r)
    /\ \E batch \in SUBSET Messages : Claim(r, batch)
    /\ CycleOver(r, "idle")
    /\ UNCHANGED accepted

(* Lease fails, or its context expires, without claiming anything.         *)
LeaseError(r) ==
    /\ pc[r] = "leasing"
    /\ CycleOver(r, "idle")
    /\ UNCHANGED <<rows, accepted>>

(* The next lease of the batch is handed to Publish.                       *)
PublishNext(r) ==
    /\ pc[r] = "loop"
    /\ WindowOpen(r)
    /\ \E m \in todo[r] :
          /\ cur' = [cur EXCEPT ![r] = m]
          /\ todo' = [todo EXCEPT ![r] = @ \ {m}]
    /\ pc' = [pc EXCEPT ![r] = "publishing"]
    /\ UNCHANGED <<rows, accepted, left, taken, result, settleLeft>>

(* The batch is done, or the window closed and the rest simply expires.    *)
EndCycle(r) ==
    /\ pc[r] = "loop"
    /\ todo[r] = {} \/ ~WindowOpen(r)
    /\ CycleOver(r, "idle")
    /\ UNCHANGED <<rows, accepted>>

(* A queue of the broker takes the message.  The relay does not know yet:  *)
(* the confirm may still be lost.  A copy taken after Publish gave up is   *)
(* covered, because nothing but the confirm reads accepted.                *)
BrokerTakes(r) ==
    /\ pc[r] = "publishing"
    /\ cur[r] \notin Unencodable
    /\ ~taken[r]
    /\ taken' = [taken EXCEPT ![r] = TRUE]
    /\ accepted' = accepted \cup {cur[r]}
    /\ UNCHANGED <<rows, pc, todo, cur, left, result, settleLeft>>

PublishReturns(r, res) ==
    /\ pc' = [pc EXCEPT ![r] = "settling"]
    /\ result' = [result EXCEPT ![r] = res]
    /\ settleLeft' = [settleLeft EXCEPT ![r] = SettlementReserve]
    /\ UNCHANGED <<rows, accepted, todo, cur, left, taken>>

(* Bug: a publication counts as done once written, confirmed or not.       *)
PublishUnconfirmed(r) ==
    /\ pc[r] = "publishing"
    /\ cur[r] \notin Unencodable
    /\ PublishReturns(r, "ok")

(* Publish returns nil: confirmed by the broker, and no mandatory return.  *)
PublishConfirmed(r) ==
    /\ pc[r] = "publishing"
    /\ taken[r]
    /\ PublishReturns(r, "ok")

(* No channel, a write error, a nack, a return (ErrNotRouted), no confirm  *)
(* in time (the broker may have taken the message), or the window closed.  *)
PublishTransient(r) ==
    /\ pc[r] = "publishing"
    /\ cur[r] \notin Unencodable
    /\ PublishReturns(r, "transient")

(* The body cannot be encoded: the only permanent error there is.          *)
PublishPermanent(r) ==
    /\ pc[r] = "publishing"
    /\ cur[r] \in Unencodable
    /\ PublishReturns(r, "permanent")

(* settle records the outcome and the loop goes on.                        *)
Settle(r) ==
    /\ pc[r] = "settling"
    /\ settleLeft[r] > 0
    /\ Mark(r, cur[r])
    /\ Goto(r, "loop")
    /\ UNCHANGED <<accepted, todo, left>>

(* leaseOutcome: no row matched.  Not an error of the cycle.               *)
LeaseLost(r) ==
    /\ pc[r] = "settling"
    /\ settleLeft[r] > 0
    /\ ~Holds(r, cur[r])
    /\ Goto(r, "loop")
    /\ UNCHANGED <<rows, accepted, todo, left>>

(* The statement fails or times out before it commits: the cycle ends.     *)
SettleError(r) ==
    /\ pc[r] = "settling"
    /\ CycleOver(r, "idle")
    /\ UNCHANGED <<rows, accepted>>

(* The statement commits but the relay sees an error: the cycle ends.      *)
SettleReplyLost(r) ==
    /\ pc[r] = "settling"
    /\ settleLeft[r] > 0
    /\ Mark(r, cur[r])
    /\ CycleOver(r, "idle")
    /\ UNCHANGED accepted

(* The process dies, or shuts down: its leases are left to expire.         *)
Crash(r) ==
    /\ r \in CrashProne
    /\ pc[r] # "down"
    /\ CycleOver(r, "down")
    /\ UNCHANGED <<rows, accepted>>

Countdown(n) == IF n > 0 THEN n - 1 ELSE 0

(* In a prompt process Publish returns by the end of its context and a     *)
(* settlement by the end of its own.                                       *)
Overdue(r) ==
    \/ pc[r] = "publishing" /\ ~WindowOpen(r)
    \/ pc[r] = "settling" /\ settleLeft[r] = 0

Tick ==
    /\ \A r \in Prompt : ~Overdue(r)
    /\ lockLeft' = [m \in Messages |-> Countdown(lockLeft[m])]
    /\ dueIn' = [m \in Messages |-> Countdown(dueIn[m])]
    /\ left' = [r \in Relays |-> Countdown(left[r])]
    /\ settleLeft' = [r \in Relays |-> Countdown(settleLeft[r])]
    /\ UNCHANGED <<status, lockedBy, attempts, accepted, pc, todo, cur, taken, result>>

RelayStep(r) ==
    \/ StartCycle(r) \/ Lease(r) \/ LeaseReplyLost(r) \/ LeaseError(r)
    \/ PublishNext(r) \/ EndCycle(r)
    \/ BrokerTakes(r)
    \/ PublishConfirmed(r) \/ PublishTransient(r) \/ PublishPermanent(r)
    \/ Settle(r) \/ LeaseLost(r) \/ SettleError(r) \/ SettleReplyLost(r)
    \/ Crash(r)

Next == Tick \/ \E r \in Relays : RelayStep(r)

Spec == Init /\ [][Next]_vars

(***************************************************************************)
(* What the service relies on from its surroundings (a relay that died has *)
(* no step enabled, so this binds only the living).  Time passes, and Run  *)
(* and runOnce keep going: weak fairness, as nothing else disables these   *)
(* steps.  A relay is not paused through the window of every batch, and    *)
(* PostgreSQL and RabbitMQ fail any number of times but not for ever:      *)
(* strong fairness, a publication, a claim of due rows, an acceptance, a   *)
(* confirm or the settlement of a final outcome that is tried again and    *)
(* again happens at some point.                                            *)
(***************************************************************************)
Fairness ==
    /\ WF_vars(Tick)
    /\ \A r \in Relays :
          /\ WF_vars(StartCycle(r)) /\ WF_vars(EndCycle(r))
          /\ WF_vars(PublishPermanent(r)) /\ WF_vars(PublishTransient(r))
          /\ WF_vars(LeaseLost(r)) /\ WF_vars(LeaseError(r))
          /\ WF_vars(SettleError(r))
          /\ SF_vars(PublishNext(r))
          /\ SF_vars(Lease(r) /\ todo'[r] # {})
          /\ SF_vars(BrokerTakes(r)) /\ SF_vars(PublishConfirmed(r))
          /\ SF_vars(Settle(r) /\ result[r] # "transient")

LiveSpec == Spec /\ Fairness

-----------------------------------------------------------------------------
(* Properties.                                                             *)

(* The package's promise: a row says published only if a queue of the      *)
(* broker holds the message, whatever confirms were lost, whichever relay  *)
(* settled the row and however long it was paused.                         *)
PublishedIsAccepted ==
    \A m \in Messages : status[m] = "published" => m \in accepted

(* settle: "an outage can never discard a financial event".  The relay     *)
(* abandons a message only if it cannot be encoded.                        *)
OnlyUnencodableFails ==
    \A m \in Messages : status[m] = "failed" => m \in Unencodable

(* A settled row tells the truth about its message, in both cases.         *)
SettlementIsTrue == PublishedIsAccepted /\ OnlyUnencodableFails

(* The reason for the local window and its reserve: while a prompt relay   *)
(* is inside Publish, or has settlement time left, the row is still leased *)
(* to it by the database's clock.  LeaseLost can then never be reported.   *)
PublishesUnderLease ==
    \A r \in Prompt :
        (pc[r] = "publishing" \/ (pc[r] = "settling" /\ settleLeft[r] > 0))
            => Holds(r, cur[r])

(* "A lease that expires mid-publish lets another relay pick the same      *)
(* message up": two prompt relays are never publishing the same message.   *)
ExclusivePublication ==
    \A r, s \in Prompt :
        (r # s /\ pc[r] = "publishing" /\ pc[s] = "publishing") => cur[r] # cur[s]

(* The CHECK constraint of migration 00004: a row carries a lease exactly  *)
(* while it is publishing, after every claim, settlement, crash and expiry.*)
LeaseColumnsAgree ==
    \A m \in Messages : (status[m] = "publishing") <=> (lockedBy[m] # NoRelay)

(* A settlement never overwrites another relay's work: a row leaves        *)
(* publishing only through the relay it is leased to, before the deadline, *)
(* even when relays are paused past their deadlines.                       *)
OnlyHolderSettles ==
    [][\A m \in Messages :
         (status[m] = "publishing" /\ status'[m] # "publishing")
            => \E r \in Relays :
                  /\ lockedBy[m] = r /\ lockLeft[m] > 0
                  /\ pc[r] = "settling" /\ cur[r] = m /\ pc'[r] # "settling"]_vars

(* No message is stranded: with one relay that survives, every row is      *)
(* settled in the end, whatever crashed in the middle of a batch.          *)
EveryMessageSettles ==
    \A m \in Messages : <>(status[m] \in {"published", "failed"})

-----------------------------------------------------------------------------
(* The relay implements at-least-once delivery.                            *)

(* What a row's status says of the message: a lease is not an outcome.     *)
OutcomeOf(s) ==
    IF s = "published" THEN "published"
    ELSE IF s = "failed" THEN "abandoned" ELSE "open"

Delivery == INSTANCE AtLeastOnce WITH
    delivered <- accepted,
    outcome <- [m \in Messages |-> OutcomeOf(status[m])]

(* Every step of every relay delivers, records or abandons one message the *)
(* way AtLeastOnce allows, or changes nothing it can see.                  *)
ImplementsAtLeastOnce == Delivery!Spec

-----------------------------------------------------------------------------
(* The strengthening that makes the safety properties inductive.           *)

(* A relay's locals agree with where it is in runOnce and with what the    *)
(* broker did: a nil from Publish means the broker took cur.               *)
LocalsAgree ==
    \A r \in Relays :
        /\ pc[r] \in {"idle", "leasing", "down"} => todo[r] = {}
        /\ pc[r] \in {"idle", "leasing", "down", "loop"} => cur[r] = NoRelay
        /\ pc[r] \in {"publishing", "settling"} => cur[r] \in Messages
        /\ cur[r] \notin todo[r]
        /\ taken[r] => cur[r] \in accepted
        /\ result[r] = "ok" => cur[r] \in accepted
        /\ result[r] = "permanent" => cur[r] \in Unencodable

(* The local window never outlives the database's lease: until the cycle's *)
(* start + LeaseDuration, every lease in hand is this relay's and lasts at *)
(* least as long.                                                          *)
WindowInsideLease ==
    \A r \in Relays : \A m \in Messages :
        (left[r] > 0 /\ (m \in todo[r] \/ m = cur[r]))
            => (lockedBy[m] = r /\ lockLeft[m] >= left[r])

(* A prompt relay keeps the reserve while publishing and settles within it.*)
ReserveKept ==
    \A r \in Prompt :
        /\ pc[r] = "publishing" => left[r] >= SettlementReserve
        /\ pc[r] = "settling" => settleLeft[r] <= left[r]

IInv ==
    /\ TypeOK
    /\ LeaseColumnsAgree
    /\ PublishedIsAccepted
    /\ OnlyUnencodableFails
    /\ LocalsAgree
    /\ WindowInsideLease
    /\ ReserveKept

=============================================================================
