------------------------------- MODULE Ledger -------------------------------
(***************************************************************************)
(* The payment aggregate in PostgreSQL: orders, payments and attempts, and *)
(* the three transactions that write them.  Checkout opens payments and    *)
(* attempts under the partial unique indexes of migration 00002 and later  *)
(* attaches a provider session; the consumer applies provider outcomes     *)
(* through the transition matrix.  Each action is one committed            *)
(* transaction: LockPaymentAggregate holds attempt, payment and order from *)
(* before the decision until the commit.                                   *)
(*                                                                         *)
(* No code of the repository writes the statuses cancelled, refunded and   *)
(* partially_refunded, so they are never reached here; Transitions still   *)
(* decides for them.                                                       *)
(***************************************************************************)
EXTENDS Transitions

CONSTANTS
    Orders,      \* orders.id
    Payments,    \* payments.id that may ever be generated
    Attempts,    \* payment_attempts.id that may ever be generated
    OrderOf,     \* payments.order_id
    PaymentOf    \* payment_attempts.payment_id

ASSUME ForeignKeys ==
    /\ OrderOf \in [Payments -> Orders]
    /\ PaymentOf \in [Attempts -> Payments]

VARIABLES
    order,       \* orders.status
    pay,         \* payments.status, "absent" before the row exists
    att          \* payment_attempts.status, "absent" before the row exists

ledger == <<order, pay, att>>

LedgerTypeOK ==
    /\ order \in [Orders -> {"pending", "paid"}]
    /\ pay \in [Payments -> {"absent", "pending", "processing", "succeeded", "failed"}]
    /\ att \in [Attempts -> {"absent", "created", "pending", "succeeded", "failed", "expired"}]

LedgerInit ==
    /\ order = [o \in Orders |-> "pending"]
    /\ pay = [p \in Payments |-> "absent"]
    /\ att = [a \in Attempts |-> "absent"]

-----------------------------------------------------------------------------
(* Checkout.                                                               *)

(* Rows covered by payments_order_id_active_key.                           *)
PaymentActive(p) == pay[p] \notin {"absent", "failed", "cancelled"}

(* Rows covered by payment_attempts_payment_id_active_key.                 *)
AttemptActive(a) == att[a] \notin {"absent", "failed", "expired", "cancelled"}

(* createOrGetActivePayment inserts the payment: no active one exists.     *)
InsertPayment(p) ==
    /\ pay[p] = "absent"
    /\ \A q \in Payments : OrderOf[q] = OrderOf[p] => ~PaymentActive(q)
    /\ pay' = [pay EXCEPT ![p] = "pending"]

(* createOrGetActivePayment finds an active payment with a plain SELECT.   *)
(* It takes no lock, so the row may have failed by the time the attempt is *)
(* inserted: all that is certain is that the payment exists.               *)
FindPayment(p) == pay[p] # "absent" /\ UNCHANGED pay

(* prepareCheckout commits a new attempt: ON CONFLICT DO NOTHING inserted  *)
(* it, so the payment has no other active attempt.  The order was checked  *)
(* to be pending before the transaction, which proves nothing by now.      *)
OpenAttempt(a) ==
    /\ att[a] = "absent"
    /\ \A b \in Attempts : PaymentOf[b] = PaymentOf[a] => ~AttemptActive(b)
    /\ InsertPayment(PaymentOf[a]) \/ FindPayment(PaymentOf[a])
    /\ att' = [att EXCEPT ![a] = "created"]
    /\ UNCHANGED order

(* prepareCheckout commits a payment alone: another request with the same  *)
(* key opened attempt a in the meantime, and its payment has failed again  *)
(* already, so the insert of a payment goes through while that of the      *)
(* attempt does not, and the key's attempt is returned.                    *)
OpenPayment(p) ==
    /\ \E a \in Attempts : att[a] # "absent" /\ OrderOf[PaymentOf[a]] = OrderOf[p]
    /\ InsertPayment(p)
    /\ UNCHANGED <<order, att>>

(* SaveSession: only while the attempt is still created.                   *)
AttachSession(a) ==
    /\ att[a] = "created"
    /\ att' = [att EXCEPT ![a] = "pending"]
    /\ UNCHANGED <<order, pay>>

CheckoutStep ==
    \/ \E a \in Attempts : OpenAttempt(a) \/ AttachSession(a)
    \/ \E p \in Payments : OpenPayment(p)

-----------------------------------------------------------------------------
(* The consumer's transaction.                                             *)

Decided(a, oc) == Decide(oc, pay[PaymentOf[a]], att[a])

(* The WHERE clauses of TransitionPaymentAttempt, TransitionPayment and    *)
(* MarkOrderPaid: would each approved update match its one row?            *)
UpdatesMatch(a, t) ==
    /\ t.attempt # Unmoved => ~attemptSettled(att[a])
    /\ t.payment # Unmoved => ~paymentSettled(pay[PaymentOf[a]])
    /\ t.orderPaid => order[OrderOf[PaymentOf[a]]] = "pending"

(* Bug: whatever settles the payment pays the order.                       *)
settledPaysOrder(a, t) ==
    /\ att' = [att EXCEPT ![a] = IF t.attempt = Unmoved THEN @ ELSE t.attempt]
    /\ pay' = [pay EXCEPT ![PaymentOf[a]] = IF t.payment = Unmoved THEN @ ELSE t.payment]
    /\ order' = [order EXCEPT ![OrderOf[PaymentOf[a]]] =
                    IF t.payment # Unmoved THEN "paid" ELSE @]

(* applyEffect writes what the matrix approved.                            *)
ApplyEffect(a, t) ==
    /\ att' = [att EXCEPT ![a] = IF t.attempt = Unmoved THEN @ ELSE t.attempt]
    /\ pay' = [pay EXCEPT ![PaymentOf[a]] = IF t.payment = Unmoved THEN @ ELSE t.payment]
    /\ order' = [order EXCEPT ![OrderOf[PaymentOf[a]]] = IF t.orderPaid THEN "paid" ELSE @]

(* decideEffect and applyEffect for an outcome of attempt a, when the      *)
(* matrix approves and every update matches.                               *)
ApplyOutcome(a, oc) ==
    /\ att[a] # "absent"
    /\ Decided(a, oc).decision = "apply"
    /\ UpdatesMatch(a, Decided(a, oc))
    /\ ApplyEffect(a, Decided(a, oc))

LedgerNext ==
    \/ CheckoutStep
    \/ \E a \in Attempts, oc \in Outcomes : ApplyOutcome(a, oc)

LedgerSpec == LedgerInit /\ [][LedgerNext]_ledger

-----------------------------------------------------------------------------
(* Properties.                                                             *)

(* An order is paid exactly when one of its payments succeeded, whatever   *)
(* order the provider's events arrive in.                                  *)
PaidIffSucceeded ==
    \A o \in Orders : (order[o] = "paid")
        <=> \E p \in Payments : OrderOf[p] = o /\ pay[p] = "succeeded"

(* "The database-level barrier against double charging" survives every     *)
(* event: an order never has two payments live or charged, because no      *)
(* transition revives a failed one.                                        *)
OneActivePayment ==
    \A p, q \in Payments :
        (OrderOf[p] = OrderOf[q] /\ PaymentActive(p) /\ PaymentActive(q)) => p = q

(* Nor does a payment ever have two attempts open or settled.              *)
OneActiveAttempt ==
    \A a, b \in Attempts :
        (PaymentOf[a] = PaymentOf[b] /\ AttemptActive(a) /\ AttemptActive(b)) => a = b

(* What checkout, SaveSession and the consumer must keep up together: one  *)
(* charge at most for an order.                                            *)
OneCharge == OneActivePayment /\ OneActiveAttempt

(* applyEffect reports ErrInvariantViolated when an approved update        *)
(* matches no row, "a disagreement between the matrix and the schema":     *)
(* they never disagree in a reachable state.                               *)
MatrixAgreesWithSchema ==
    \A a \in Attempts, oc \in Outcomes :
        (att[a] # "absent" /\ Decided(a, oc).decision = "apply")
            => UpdatesMatch(a, Decided(a, oc))

(* Money is never dropped in silence: a success that the matrix ignores is *)
(* one whose order is already paid; any other is applied or escalated.     *)
SuccessNeverIgnored ==
    \A a \in Attempts :
        (att[a] # "absent" /\ Decided(a, "succeeded").decision = "noop")
            => order[OrderOf[PaymentOf[a]]] = "paid"

(* What a payment says agrees with its attempts: a settled payment was     *)
(* settled by one of them, and a settled attempt settled its payment.      *)
AttemptsExplainPayment ==
    /\ \A a \in Attempts :
          /\ att[a] = "succeeded" => pay[PaymentOf[a]] = "succeeded"
          /\ att[a] = "failed" => pay[PaymentOf[a]] = "failed"
    /\ \A p \in Payments : pay[p] \in {"succeeded", "failed"}
          => \E a \in Attempts : PaymentOf[a] = p /\ att[a] = pay[p]

(* Settled states are final, and a paid order stays paid.                  *)
SettledIsFinal ==
    [][/\ \A p \in Payments : paymentSettled(pay[p]) => pay'[p] = pay[p]
       /\ \A a \in Attempts : attemptSettled(att[a]) => att'[a] = att[a]
       /\ \A o \in Orders : order[o] = "paid" => order'[o] = "paid"]_ledger

(* "A late event for an old attempt" cannot move the payment: a payment    *)
(* changes only through its one attempt that is still open.                *)
OnlyOpenAttemptMovesPayment ==
    [][\A p \in Payments :
         (pay[p] # "absent" /\ pay'[p] # pay[p])
            => \E a \in Attempts : PaymentOf[a] = p /\ att[a] \in {"created", "pending"}]_ledger

(* Reprocessing is harmless: right after an outcome was applied, the same  *)
(* outcome for the same attempt is a no-op.                                *)
ReapplyIsNoOp ==
    [][\A a \in Attempts, oc \in Outcomes :
         ApplyOutcome(a, oc) => Decided(a, oc)'.decision = "noop"]_ledger

=============================================================================
