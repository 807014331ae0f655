----------------------------- MODULE Transitions ----------------------------
(***************************************************************************)
(* The transition matrix of domain/payments/transition.go: what a          *)
(* financial outcome reported by the provider does to a payment and to the *)
(* attempt it names.  A pure function of the current state: the provider   *)
(* does not order its events.                                              *)
(***************************************************************************)

Outcomes == {"succeeded", "pending", "failed", "expired"}

PaymentStatuses ==
    {"pending", "processing", "succeeded", "failed", "cancelled",
     "partially_refunded", "refunded"}

AttemptStatuses ==
    {"created", "pending", "succeeded", "failed", "expired", "cancelled"}

(* States no event may leave.                                              *)
attemptSettled(a) == a \in {"succeeded", "failed", "expired", "cancelled"}
paymentSettled(p) ==
    p \in {"succeeded", "failed", "cancelled", "partially_refunded", "refunded"}

(* A Transition: Unmoved targets leave their entity untouched.             *)
Unmoved == "unmoved"
Apply(attempt, payment, orderPaid) ==
    [decision |-> "apply", attempt |-> attempt, payment |-> payment, orderPaid |-> orderPaid]
NoOp ==
    [decision |-> "noop", attempt |-> Unmoved, payment |-> Unmoved, orderPaid |-> FALSE]
Conflict ==
    [decision |-> "conflict", attempt |-> Unmoved, payment |-> Unmoved, orderPaid |-> FALSE]

-----------------------------------------------------------------------------
(* Bug: a success over a failed payment is taken for a late event.         *)
succeededIgnoredWhenSettled(p, a) ==
    IF paymentSettled(p) THEN NoOp
    ELSE IF attemptSettled(a) THEN Conflict
    ELSE Apply("succeeded", "succeeded", TRUE)

(* Bug: a success settles attempt and payment but forgets the order.       *)
succeededWithoutOrder(p, a) ==
    IF p = "succeeded" /\ a = "succeeded" THEN NoOp
    ELSE IF paymentSettled(p) THEN Conflict
    ELSE IF attemptSettled(a) THEN Conflict
    ELSE Apply("succeeded", "succeeded", FALSE)

decideSucceeded(p, a) ==
    IF p = "succeeded" /\ a = "succeeded" THEN NoOp
    ELSE IF p \in {"partially_refunded", "refunded"} THEN NoOp
    ELSE IF paymentSettled(p) THEN Conflict
    ELSE IF a = "succeeded" THEN Apply(Unmoved, "succeeded", TRUE)
    ELSE IF attemptSettled(a) THEN Conflict
    ELSE Apply("succeeded", "succeeded", TRUE)

(* Bug: a completed session moves a payment already processing again.      *)
pendingNotIdempotent(p, a) ==
    IF paymentSettled(p) \/ attemptSettled(a) THEN NoOp
    ELSE Apply(Unmoved, "processing", FALSE)

decidePending(p, a) ==
    IF paymentSettled(p) THEN NoOp
    ELSE IF p = "processing" THEN NoOp
    ELSE IF attemptSettled(a) THEN NoOp
    ELSE Apply(Unmoved, "processing", FALSE)

(* Bug: a failure is not checked against a payment that already succeeded. *)
failedOverSuccess(p, a) ==
    IF p = "failed" /\ a = "failed" THEN NoOp
    ELSE IF p \in {"cancelled", "partially_refunded", "refunded"} THEN NoOp
    ELSE Apply("failed", "failed", FALSE)

(* Bug: any settled attempt, not only a failed one, lets a late failure    *)
(* complete the payment.                                                   *)
failedThroughOldAttempt(p, a) ==
    IF p = "failed" /\ a = "failed" THEN NoOp
    ELSE IF paymentSettled(p) THEN NoOp
    ELSE IF attemptSettled(a) THEN Apply(Unmoved, "failed", FALSE)
    ELSE Apply("failed", "failed", FALSE)

decideFailed(p, a) ==
    IF p = "failed" /\ a = "failed" THEN NoOp
    ELSE IF p = "succeeded" THEN NoOp
    ELSE IF paymentSettled(p) THEN NoOp
    ELSE IF a = "failed" THEN Apply(Unmoved, "failed", FALSE)
    ELSE IF attemptSettled(a) THEN NoOp
    ELSE Apply("failed", "failed", FALSE)

decideExpired(p, a) ==
    IF attemptSettled(a) THEN NoOp
    ELSE IF paymentSettled(p) THEN NoOp
    ELSE Apply("expired", Unmoved, FALSE)

Decide(outcome, p, a) ==
    CASE outcome = "succeeded" -> decideSucceeded(p, a)
      [] outcome = "pending"   -> decidePending(p, a)
      [] outcome = "failed"    -> decideFailed(p, a)
      [] outcome = "expired"   -> decideExpired(p, a)
      [] OTHER                 -> Conflict

=============================================================================
