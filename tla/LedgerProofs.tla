---------------------------- MODULE LedgerProofs ----------------------------
(***************************************************************************)
(* Proofs about the payment aggregate, for any number of orders, payments  *)
(* and attempts.  The inductive invariant LInv is the conjunction of the   *)
(* properties themselves and of AttemptHasPayment.  OneActivePayment is    *)
(* what makes PaidIffSucceeded inductive: an approved success must find    *)
(* its order unpaid, and that holds because a paid order already has an    *)
(* active payment, the succeeded one.                                      *)
(***************************************************************************)
EXTENDS Ledger, TLAPS

(* Attempts are inserted after their payment, which is never deleted.      *)
AttemptHasPayment ==
    \A a \in Attempts : att[a] # "absent" => pay[PaymentOf[a]] # "absent"

LInv ==
    /\ LedgerTypeOK
    /\ AttemptHasPayment
    /\ PaidIffSucceeded
    /\ OneActivePayment
    /\ OneActiveAttempt
    /\ AttemptsExplainPayment

-----------------------------------------------------------------------------
(* The four effects an approved outcome can have in a reachable state.     *)

Succeeds(a) ==
    /\ att[a] \in {"created", "pending"}
    /\ pay[PaymentOf[a]] \in {"pending", "processing"}
    /\ att' = [att EXCEPT ![a] = "succeeded"]
    /\ pay' = [pay EXCEPT ![PaymentOf[a]] = "succeeded"]
    /\ order' = [order EXCEPT ![OrderOf[PaymentOf[a]]] = "paid"]

StartsProcessing(a) ==
    /\ att[a] \in {"created", "pending"}
    /\ pay[PaymentOf[a]] = "pending"
    /\ att' = att
    /\ pay' = [pay EXCEPT ![PaymentOf[a]] = "processing"]
    /\ order' = order

Fails(a) ==
    /\ att[a] \in {"created", "pending"}
    /\ pay[PaymentOf[a]] \in {"pending", "processing"}
    /\ att' = [att EXCEPT ![a] = "failed"]
    /\ pay' = [pay EXCEPT ![PaymentOf[a]] = "failed"]
    /\ order' = order

Expires(a) ==
    /\ att[a] \in {"created", "pending"}
    /\ pay[PaymentOf[a]] \in {"pending", "processing"}
    /\ att' = [att EXCEPT ![a] = "expired"]
    /\ pay' = pay
    /\ order' = order

(* What the matrix approves, read off Decide for the statuses the ledger   *)
(* holds: only an open attempt of an unsettled payment is ever moved.      *)
LEMMA ApprovedMoves ==
    ASSUME LInv, NEW a \in Attempts, NEW oc \in Outcomes,
           att[a] # "absent", Decided(a, oc).decision = "apply"
    PROVE  /\ att[a] \in {"created", "pending"}
           /\ pay[PaymentOf[a]] \in {"pending", "processing"}
           /\ \/ oc = "succeeded" /\ Decided(a, oc) = Apply("succeeded", "succeeded", TRUE)
              \/ /\ oc = "pending" /\ pay[PaymentOf[a]] = "pending"
                 /\ Decided(a, oc) = Apply(Unmoved, "processing", FALSE)
              \/ oc = "failed" /\ Decided(a, oc) = Apply("failed", "failed", FALSE)
              \/ oc = "expired" /\ Decided(a, oc) = Apply("expired", Unmoved, FALSE)
<1> DEFINE p == pay[PaymentOf[a]]
           s == att[a]
<1>1. /\ PaymentOf[a] \in Payments
      /\ p \in {"pending", "processing", "succeeded", "failed"}
      /\ s \in {"created", "pending", "succeeded", "failed", "expired"}
      /\ s = "succeeded" => p = "succeeded"
      /\ s = "failed" => p = "failed"
  BY ForeignKeys DEF LInv, LedgerTypeOK, AttemptHasPayment, AttemptsExplainPayment
<1>2. Decide(oc, p, s).decision = "apply"
  BY DEF Decided
<1>a. NoOp.decision # "apply" /\ Conflict.decision # "apply"
  BY DEF NoOp, Conflict
<1> HIDE DEF p, s
<1>3. CASE oc = "succeeded"
  <2>1. Decide(oc, p, s) = decideSucceeded(p, s)
    BY <1>3 DEF Decide
  <2>2. /\ s \in {"created", "pending"}
        /\ p \in {"pending", "processing"}
        /\ decideSucceeded(p, s) = Apply("succeeded", "succeeded", TRUE)
    BY <2>1, <1>1, <1>2, <1>a DEF decideSucceeded, paymentSettled, attemptSettled
  <2> QED
    BY <2>1, <2>2, <1>3 DEF p, s, Decided
<1>4. CASE oc = "pending"
  <2>1. Decide(oc, p, s) = decidePending(p, s)
    BY <1>4 DEF Decide
  <2>2. /\ s \in {"created", "pending"}
        /\ p = "pending"
        /\ decidePending(p, s) = Apply(Unmoved, "processing", FALSE)
    BY <2>1, <1>1, <1>2, <1>a DEF decidePending, paymentSettled, attemptSettled
  <2> QED
    BY <2>1, <2>2, <1>4 DEF p, s, Decided
<1>5. CASE oc = "failed"
  <2>1. Decide(oc, p, s) = decideFailed(p, s)
    BY <1>5 DEF Decide
  <2>2. /\ s \in {"created", "pending"}
        /\ p \in {"pending", "processing"}
        /\ decideFailed(p, s) = Apply("failed", "failed", FALSE)
    BY <2>1, <1>1, <1>2, <1>a DEF decideFailed, paymentSettled, attemptSettled
  <2> QED
    BY <2>1, <2>2, <1>5 DEF p, s, Decided
<1>6. CASE oc = "expired"
  <2>1. Decide(oc, p, s) = decideExpired(p, s)
    BY <1>6 DEF Decide
  <2>2. /\ s \in {"created", "pending"}
        /\ p \in {"pending", "processing"}
        /\ decideExpired(p, s) = Apply("expired", Unmoved, FALSE)
    BY <2>1, <1>1, <1>2, <1>a DEF decideExpired, paymentSettled, attemptSettled
  <2> QED
    BY <2>1, <2>2, <1>6 DEF p, s, Decided
<1> QED
  BY <1>3, <1>4, <1>5, <1>6 DEF Outcomes

(* An unsettled payment's order is still pending: were it paid, the        *)
(* payment that succeeded would be a second active one.                    *)
LEMMA UnsettledIsUnpaid ==
    ASSUME LInv, NEW p \in Payments, pay[p] \in {"pending", "processing"}
    PROVE  order[OrderOf[p]] = "pending"
<1>1. OrderOf[p] \in Orders /\ order[OrderOf[p]] \in {"pending", "paid"}
  BY ForeignKeys DEF LInv, LedgerTypeOK
<1>2. ASSUME NEW q \in Payments, OrderOf[q] = OrderOf[p], pay[q] = "succeeded"
      PROVE  FALSE
  BY <1>2 DEF LInv, OneActivePayment, PaymentActive
<1> QED
  BY <1>1, <1>2 DEF LInv, PaidIffSucceeded

(* What ApplyOutcome does in a reachable state is one of the four effects. *)
LEMMA Effects ==
    ASSUME LInv, NEW a \in Attempts, NEW oc \in Outcomes, ApplyOutcome(a, oc)
    PROVE  \/ oc = "succeeded" /\ Succeeds(a)
           \/ oc = "pending" /\ StartsProcessing(a)
           \/ oc = "failed" /\ Fails(a)
           \/ oc = "expired" /\ Expires(a)
<1> DEFINE t == Decided(a, oc)
<1>1. att[a] # "absent" /\ t.decision = "apply" /\ ApplyEffect(a, t)
  BY DEF ApplyOutcome
<1>2. /\ PaymentOf[a] \in Payments /\ OrderOf[PaymentOf[a]] \in Orders
      /\ att = [att EXCEPT ![a] = att[a]]
      /\ pay = [pay EXCEPT ![PaymentOf[a]] = pay[PaymentOf[a]]]
      /\ order = [order EXCEPT ![OrderOf[PaymentOf[a]]] = order[OrderOf[PaymentOf[a]]]]
  BY ForeignKeys DEF LInv, LedgerTypeOK
<1>3. /\ att[a] \in {"created", "pending"}
      /\ pay[PaymentOf[a]] \in {"pending", "processing"}
      /\ \/ oc = "succeeded" /\ t = Apply("succeeded", "succeeded", TRUE)
         \/ /\ oc = "pending" /\ pay[PaymentOf[a]] = "pending"
            /\ t = Apply(Unmoved, "processing", FALSE)
         \/ oc = "failed" /\ t = Apply("failed", "failed", FALSE)
         \/ oc = "expired" /\ t = Apply("expired", Unmoved, FALSE)
  BY <1>1, ApprovedMoves
<1>4. /\ att' = [att EXCEPT ![a] = IF t.attempt = Unmoved THEN att[a] ELSE t.attempt]
      /\ pay' = [pay EXCEPT ![PaymentOf[a]] =
                    IF t.payment = Unmoved THEN pay[PaymentOf[a]] ELSE t.payment]
      /\ order' = [order EXCEPT ![OrderOf[PaymentOf[a]]] =
                    IF t.orderPaid THEN "paid" ELSE order[OrderOf[PaymentOf[a]]]]
  BY <1>1 DEF ApplyEffect
<1> HIDE DEF t
<1>5. CASE oc = "succeeded" /\ t = Apply("succeeded", "succeeded", TRUE)
  <2>1. t.attempt = "succeeded" /\ t.payment = "succeeded" /\ t.orderPaid = TRUE
    BY <1>5 DEF Apply
  <2> QED
    BY <1>3, <1>4, <1>5, <2>1 DEF Succeeds, Unmoved
<1>6. CASE /\ oc = "pending" /\ pay[PaymentOf[a]] = "pending"
           /\ t = Apply(Unmoved, "processing", FALSE)
  <2>1. t.attempt = Unmoved /\ t.payment = "processing" /\ t.orderPaid = FALSE
    BY <1>6 DEF Apply
  <2> QED
    BY <1>2, <1>3, <1>4, <1>6, <2>1 DEF StartsProcessing, Unmoved
<1>7. CASE oc = "failed" /\ t = Apply("failed", "failed", FALSE)
  <2>1. t.attempt = "failed" /\ t.payment = "failed" /\ t.orderPaid = FALSE
    BY <1>7 DEF Apply
  <2> QED
    BY <1>2, <1>3, <1>4, <1>7, <2>1 DEF Fails, Unmoved
<1>8. CASE oc = "expired" /\ t = Apply("expired", Unmoved, FALSE)
  <2>1. t.attempt = "expired" /\ t.payment = Unmoved /\ t.orderPaid = FALSE
    BY <1>8 DEF Apply
  <2> QED
    BY <1>2, <1>3, <1>4, <1>8, <2>1 DEF Expires, Unmoved
<1> QED
  BY <1>3, <1>5, <1>6, <1>7, <1>8

-----------------------------------------------------------------------------
(* LInv is inductive.                                                      *)

(* Empty tables satisfy the invariant.                                     *)
LEMMA InitLInv == LedgerInit => LInv
<1> SUFFICES ASSUME LedgerInit PROVE LInv
  OBVIOUS
<1> USE DEF LedgerInit
<1>1. LedgerTypeOK /\ AttemptHasPayment
  BY DEF LedgerTypeOK, AttemptHasPayment
<1>2. PaidIffSucceeded /\ AttemptsExplainPayment
  BY DEF PaidIffSucceeded, AttemptsExplainPayment
<1>3. OneActivePayment /\ OneActiveAttempt
  BY DEF OneActivePayment, OneActiveAttempt, PaymentActive, AttemptActive
<1> QED
  BY <1>1, <1>2, <1>3 DEF LInv

(* The partial unique indexes let a checkout insert a payment and an       *)
(* attempt only where none is active.                                      *)
LEMMA OpenAttemptLInv ==
    ASSUME LInv, NEW a \in Attempts, OpenAttempt(a)
    PROVE  LInv'
<1> USE DEF LInv, LedgerTypeOK
<1>1. /\ PaymentOf \in [Attempts -> Payments] /\ OrderOf \in [Payments -> Orders]
      /\ att[a] = "absent" /\ att' = [att EXCEPT ![a] = "created"]
      /\ order' = order
  BY ForeignKeys DEF OpenAttempt
<1>2. \/ /\ pay[PaymentOf[a]] = "absent"
         /\ \A q \in Payments : OrderOf[q] = OrderOf[PaymentOf[a]] => ~PaymentActive(q)
         /\ pay' = [pay EXCEPT ![PaymentOf[a]] = "pending"]
      \/ pay[PaymentOf[a]] # "absent" /\ pay' = pay
  BY DEF OpenAttempt, InsertPayment, FindPayment
<1>3. LedgerTypeOK'
  BY <1>1, <1>2
<1>4. AttemptHasPayment'
  BY <1>1, <1>2 DEF AttemptHasPayment
<1>5. PaidIffSucceeded'
  BY <1>1, <1>2 DEF PaidIffSucceeded
<1>6. OneActivePayment'
  BY <1>1, <1>2 DEF OneActivePayment, PaymentActive
<1>7. OneActiveAttempt'
  BY <1>1 DEF OpenAttempt, OneActiveAttempt, AttemptActive
<1>8. AttemptsExplainPayment'
  BY <1>1, <1>2 DEF AttemptsExplainPayment
<1> QED
  BY <1>3, <1>4, <1>5, <1>6, <1>7, <1>8

(* A payment inserted without an attempt is the order's only active one.   *)
LEMMA OpenPaymentLInv ==
    ASSUME LInv, NEW p \in Payments, OpenPayment(p)
    PROVE  LInv'
<1> USE DEF LInv, LedgerTypeOK
<1>1. /\ PaymentOf \in [Attempts -> Payments] /\ OrderOf \in [Payments -> Orders]
      /\ att' = att /\ order' = order
      /\ pay[p] = "absent" /\ pay' = [pay EXCEPT ![p] = "pending"]
      /\ \A q \in Payments : OrderOf[q] = OrderOf[p] => ~PaymentActive(q)
  BY ForeignKeys DEF OpenPayment, InsertPayment
<1>2. LedgerTypeOK' /\ AttemptHasPayment'
  BY <1>1 DEF AttemptHasPayment
<1>3. PaidIffSucceeded'
  BY <1>1 DEF PaidIffSucceeded
<1>4. OneActivePayment'
  BY <1>1 DEF OneActivePayment, PaymentActive
<1>5. OneActiveAttempt'
  BY <1>1 DEF OneActiveAttempt, AttemptActive
<1>6. AttemptsExplainPayment'
  BY <1>1 DEF AttemptsExplainPayment, AttemptHasPayment
<1> QED
  BY <1>2, <1>3, <1>4, <1>5, <1>6

(* A session is attached to an attempt that stays active.                  *)
LEMMA AttachSessionLInv ==
    ASSUME LInv, NEW a \in Attempts, AttachSession(a)
    PROVE  LInv'
<1> USE DEF LInv, LedgerTypeOK, AttachSession
<1>1. LedgerTypeOK' /\ AttemptHasPayment' /\ PaidIffSucceeded'
  BY DEF AttemptHasPayment, PaidIffSucceeded
<1>2. OneActivePayment'
  BY DEF OneActivePayment, PaymentActive
<1>3. OneActiveAttempt'
  BY DEF OneActiveAttempt, AttemptActive
<1>4. AttemptsExplainPayment'
  BY DEF AttemptsExplainPayment
<1> QED
  BY <1>1, <1>2, <1>3, <1>4

(* The consumer's four effects, one step each.                             *)
LEMMA SucceedsLInv ==
    ASSUME LInv, NEW a \in Attempts, Succeeds(a)
    PROVE  LInv'
<1> USE DEF LInv, LedgerTypeOK, Succeeds
<1>1. PaymentOf \in [Attempts -> Payments] /\ OrderOf \in [Payments -> Orders]
  BY ForeignKeys
<1>2. LedgerTypeOK' /\ AttemptHasPayment'
  BY <1>1 DEF AttemptHasPayment
<1>3. PaidIffSucceeded'
  <2> SUFFICES ASSUME NEW o \in Orders
               PROVE  (order'[o] = "paid")
                        <=> \E p \in Payments : OrderOf[p] = o /\ pay'[p] = "succeeded"
    BY DEF PaidIffSucceeded
  <2>1. CASE o = OrderOf[PaymentOf[a]]
    BY <1>1, <2>1
  <2>2. CASE o # OrderOf[PaymentOf[a]]
    <3>1. order'[o] = order[o]
      BY <1>1, <2>2
    <3>2. \A p \in Payments : OrderOf[p] = o => pay'[p] = pay[p]
      BY <1>1, <2>2
    <3> QED
      BY <3>1, <3>2 DEF PaidIffSucceeded
  <2> QED
    BY <2>1, <2>2
<1>4. OneActivePayment'
  BY <1>1 DEF OneActivePayment, PaymentActive
<1>5. OneActiveAttempt'
  BY <1>1 DEF OneActiveAttempt, AttemptActive
<1>6. AttemptsExplainPayment'
  <2>1. \A b \in Attempts : /\ att'[b] = "succeeded" => pay'[PaymentOf[b]] = "succeeded"
                            /\ att'[b] = "failed" => pay'[PaymentOf[b]] = "failed"
    BY <1>1 DEF AttemptsExplainPayment
  <2>2. ASSUME NEW p \in Payments, pay'[p] \in {"succeeded", "failed"}
        PROVE  \E b \in Attempts : PaymentOf[b] = p /\ att'[b] = pay'[p]
    <3>1. CASE p = PaymentOf[a]
      BY <1>1, <3>1
    <3>2. CASE p # PaymentOf[a]
      <4>1. pay'[p] = pay[p]
        BY <1>1, <3>2
      <4>2. PICK b \in Attempts : PaymentOf[b] = p /\ att[b] = pay[p]
        BY <2>2, <4>1 DEF AttemptsExplainPayment
      <4>3. att'[b] = att[b]
        BY <3>2, <4>2
      <4> QED
        BY <4>1, <4>2, <4>3
    <3> QED
      BY <3>1, <3>2
  <2> QED
    BY <2>1, <2>2 DEF AttemptsExplainPayment
<1> QED
  BY <1>2, <1>3, <1>4, <1>5, <1>6

(* An attempt that waits for its money moves its payment to processing.    *)
LEMMA StartsProcessingLInv ==
    ASSUME LInv, NEW a \in Attempts, StartsProcessing(a)
    PROVE  LInv'
<1> USE DEF LInv, LedgerTypeOK, StartsProcessing
<1>1. PaymentOf \in [Attempts -> Payments] /\ OrderOf \in [Payments -> Orders]
  BY ForeignKeys
<1>2. LedgerTypeOK' /\ AttemptHasPayment'
  BY <1>1 DEF AttemptHasPayment
<1>3. PaidIffSucceeded'
  BY <1>1 DEF PaidIffSucceeded
<1>4. OneActivePayment'
  BY <1>1 DEF OneActivePayment, PaymentActive
<1>5. OneActiveAttempt'
  BY <1>1 DEF OneActiveAttempt, AttemptActive
<1>6. AttemptsExplainPayment'
  BY <1>1 DEF AttemptsExplainPayment
<1> QED
  BY <1>2, <1>3, <1>4, <1>5, <1>6

(* A failed attempt fails its payment with it.                             *)
LEMMA FailsLInv ==
    ASSUME LInv, NEW a \in Attempts, Fails(a)
    PROVE  LInv'
<1> USE DEF LInv, LedgerTypeOK, Fails
<1>1. PaymentOf \in [Attempts -> Payments] /\ OrderOf \in [Payments -> Orders]
  BY ForeignKeys
<1>2. LedgerTypeOK' /\ AttemptHasPayment'
  BY <1>1 DEF AttemptHasPayment
<1>3. PaidIffSucceeded'
  BY <1>1 DEF PaidIffSucceeded
<1>4. OneActivePayment'
  BY <1>1 DEF OneActivePayment, PaymentActive
<1>5. OneActiveAttempt'
  BY <1>1 DEF OneActiveAttempt, AttemptActive
<1>6. AttemptsExplainPayment'
  <2>1. \A b \in Attempts : /\ att'[b] = "succeeded" => pay'[PaymentOf[b]] = "succeeded"
                            /\ att'[b] = "failed" => pay'[PaymentOf[b]] = "failed"
    BY <1>1 DEF AttemptsExplainPayment
  <2>2. ASSUME NEW p \in Payments, pay'[p] \in {"succeeded", "failed"}
        PROVE  \E b \in Attempts : PaymentOf[b] = p /\ att'[b] = pay'[p]
    <3>1. CASE p = PaymentOf[a]
      BY <1>1, <3>1
    <3>2. CASE p # PaymentOf[a]
      <4>1. pay'[p] = pay[p]
        BY <1>1, <3>2
      <4>2. PICK b \in Attempts : PaymentOf[b] = p /\ att[b] = pay[p]
        BY <2>2, <4>1 DEF AttemptsExplainPayment
      <4>3. att'[b] = att[b]
        BY <3>2, <4>2
      <4> QED
        BY <4>1, <4>2, <4>3
    <3> QED
      BY <3>1, <3>2
  <2> QED
    BY <2>1, <2>2 DEF AttemptsExplainPayment
<1> QED
  BY <1>2, <1>3, <1>4, <1>5, <1>6

(* An expired attempt leaves its payment open.                             *)
LEMMA ExpiresLInv ==
    ASSUME LInv, NEW a \in Attempts, Expires(a)
    PROVE  LInv'
<1> USE DEF LInv, LedgerTypeOK, Expires
<1>1. LedgerTypeOK' /\ AttemptHasPayment' /\ PaidIffSucceeded'
  BY DEF AttemptHasPayment, PaidIffSucceeded
<1>2. OneActivePayment'
  BY DEF OneActivePayment, PaymentActive
<1>3. OneActiveAttempt'
  BY DEF OneActiveAttempt, AttemptActive
<1>4. AttemptsExplainPayment'
  BY DEF AttemptsExplainPayment
<1> QED
  BY <1>1, <1>2, <1>3, <1>4

(* A step that leaves the aggregate alone keeps the invariant.             *)
LEMMA StutterLInv == LInv /\ UNCHANGED ledger => LInv'
  BY DEF LInv, ledger, LedgerTypeOK, AttemptHasPayment, PaidIffSucceeded,
         OneActivePayment, OneActiveAttempt, AttemptsExplainPayment,
         PaymentActive, AttemptActive

(* Every transaction preserves the invariant.                              *)
LEMMA NextLInv == LInv /\ [LedgerNext]_ledger => LInv'
<1> SUFFICES ASSUME LInv, [LedgerNext]_ledger PROVE LInv'
  OBVIOUS
<1>1. CASE UNCHANGED ledger
  BY <1>1, StutterLInv
<1>2. ASSUME NEW a \in Attempts, OpenAttempt(a) PROVE LInv'
  BY <1>2, OpenAttemptLInv
<1>3. ASSUME NEW a \in Attempts, AttachSession(a) PROVE LInv'
  BY <1>3, AttachSessionLInv
<1>4. ASSUME NEW a \in Attempts, NEW oc \in Outcomes, ApplyOutcome(a, oc) PROVE LInv'
  BY <1>4, Effects, SucceedsLInv, StartsProcessingLInv, FailsLInv, ExpiresLInv
<1>5. ASSUME NEW p \in Payments, OpenPayment(p) PROVE LInv'
  BY <1>5, OpenPaymentLInv
<1> QED
  BY <1>1, <1>2, <1>3, <1>4, <1>5 DEF LedgerNext, CheckoutStep

-----------------------------------------------------------------------------
(* The theorems.                                                           *)

(* Every committed state of the ledger satisfies the invariant.            *)
THEOREM LedgerInvariance == LedgerSpec => []LInv
<1> QED
  BY InitLInv, NextLInv, PTL DEF LedgerSpec

(* Every status column holds one of the values the code writes.            *)
THEOREM LedgerTypes == LedgerSpec => []LedgerTypeOK
<1>1. LInv => LedgerTypeOK
  BY DEF LInv
<1> QED
  BY <1>1, LedgerInvariance, PTL

(* MarkOrderPaid and TransitionPayment agree for good: an order is paid    *)
(* exactly when one of its payments succeeded.                             *)
THEOREM Paid == LedgerSpec => []PaidIffSucceeded
<1>1. LInv => PaidIffSucceeded
  BY DEF LInv
<1> QED
  BY <1>1, LedgerInvariance, PTL

(* The partial unique indexes are never in the way of an event and no      *)
(* event gets around them: no order is ever charged twice.                 *)
THEOREM NoDoubleCharge == LedgerSpec => []OneCharge
<1>1. LInv => OneCharge
  BY DEF LInv, OneCharge
<1> QED
  BY <1>1, LedgerInvariance, PTL

(* A payment's status is the status of one of its attempts.                *)
THEOREM Explained == LedgerSpec => []AttemptsExplainPayment
<1>1. LInv => AttemptsExplainPayment
  BY DEF LInv
<1> QED
  BY <1>1, LedgerInvariance, PTL

(* ErrInvariantViolated is never reported by applyEffect: the WHERE        *)
(* clauses match whatever the matrix approves.                             *)
THEOREM MatrixAndSchema == LedgerSpec => []MatrixAgreesWithSchema
<1>1. ASSUME LInv PROVE MatrixAgreesWithSchema
  <2> SUFFICES ASSUME NEW a \in Attempts, NEW oc \in Outcomes,
                      att[a] # "absent", Decided(a, oc).decision = "apply"
               PROVE  UpdatesMatch(a, Decided(a, oc))
    BY DEF MatrixAgreesWithSchema
  <2>1. /\ att[a] \in {"created", "pending"}
        /\ pay[PaymentOf[a]] \in {"pending", "processing"}
    BY <1>1, ApprovedMoves
  <2>2. PaymentOf[a] \in Payments
    BY ForeignKeys
  <2>3. order[OrderOf[PaymentOf[a]]] = "pending"
    BY <1>1, <2>1, <2>2, UnsettledIsUnpaid
  <2> QED
    BY <2>1, <2>3 DEF UpdatesMatch, attemptSettled, paymentSettled
<1> QED
  BY <1>1, LedgerInvariance, PTL

(* A success the matrix ignores is one that was already booked.            *)
THEOREM NoSuccessIgnored == LedgerSpec => []SuccessNeverIgnored
<1>1. ASSUME LInv PROVE SuccessNeverIgnored
  <2> SUFFICES ASSUME NEW a \in Attempts, att[a] # "absent",
                      Decided(a, "succeeded").decision = "noop"
               PROVE  order[OrderOf[PaymentOf[a]]] = "paid"
    BY DEF SuccessNeverIgnored
  <2> DEFINE p == pay[PaymentOf[a]]
             s == att[a]
  <2>1. /\ PaymentOf[a] \in Payments /\ OrderOf[PaymentOf[a]] \in Orders
        /\ p \in {"pending", "processing", "succeeded", "failed"}
    BY <1>1, ForeignKeys DEF LInv, LedgerTypeOK, AttemptHasPayment
  <2>2. decideSucceeded(p, s).decision = "noop"
    BY DEF Decided, Decide
  <2>3. Conflict.decision # "noop" /\ \A x, y, z : Apply(x, y, z).decision # "noop"
    BY DEF Conflict, Apply
  <2> HIDE DEF p, s
  <2>4. p = "succeeded"
    BY <2>1, <2>2, <2>3 DEF decideSucceeded
  <2> QED
    BY <1>1, <2>1, <2>4 DEF p, LInv, PaidIffSucceeded
<1> QED
  BY <1>1, LedgerInvariance, PTL

(* No transaction leaves a settled state or unpays an order.               *)
THEOREM Final == LedgerSpec => SettledIsFinal
<1> DEFINE A == /\ \A p \in Payments : paymentSettled(pay[p]) => pay'[p] = pay[p]
                /\ \A a \in Attempts : attemptSettled(att[a]) => att'[a] = att[a]
                /\ \A o \in Orders : order[o] = "paid" => order'[o] = "paid"
<1>1. ASSUME LInv, [LedgerNext]_ledger PROVE [A]_ledger
  <2> USE DEF paymentSettled, attemptSettled
  <2> USE ForeignKeys, <1>1 DEF LInv, LedgerTypeOK
  <2>1. ASSUME NEW a \in Attempts, OpenAttempt(a) PROVE A
    BY <2>1 DEF OpenAttempt, InsertPayment, FindPayment
  <2>2. ASSUME NEW a \in Attempts, AttachSession(a) PROVE A
    BY <2>2 DEF AttachSession
  <2>3. ASSUME NEW a \in Attempts, NEW oc \in Outcomes, ApplyOutcome(a, oc) PROVE A
    <3>1. Succeeds(a) \/ StartsProcessing(a) \/ Fails(a) \/ Expires(a)
      BY <2>3, Effects
    <3> QED
      BY <3>1 DEF Succeeds, StartsProcessing, Fails, Expires
  <2>4. ASSUME NEW p \in Payments, OpenPayment(p) PROVE A
    BY <2>4 DEF OpenPayment, InsertPayment
  <2> QED
    BY <1>1, <2>1, <2>2, <2>3, <2>4 DEF LedgerNext, CheckoutStep
<1> QED
  BY <1>1, LedgerInvariance, PTL DEF LedgerSpec, SettledIsFinal

(* A late event for a settled attempt never moves the payment.             *)
THEOREM OpenAttemptMoves == LedgerSpec => OnlyOpenAttemptMovesPayment
<1> DEFINE A == \A p \in Payments :
                  (pay[p] # "absent" /\ pay'[p] # pay[p])
                    => \E a \in Attempts :
                          PaymentOf[a] = p /\ att[a] \in {"created", "pending"}
<1>1. ASSUME LInv, [LedgerNext]_ledger PROVE [A]_ledger
  <2> USE ForeignKeys, <1>1 DEF LInv, LedgerTypeOK
  <2>1. ASSUME NEW a \in Attempts, OpenAttempt(a) PROVE A
    BY <2>1 DEF OpenAttempt, InsertPayment, FindPayment
  <2>2. ASSUME NEW a \in Attempts, AttachSession(a) PROVE A
    BY <2>2 DEF AttachSession
  <2>3. ASSUME NEW a \in Attempts, NEW oc \in Outcomes, ApplyOutcome(a, oc) PROVE A
    <3>1. Succeeds(a) \/ StartsProcessing(a) \/ Fails(a) \/ Expires(a)
      BY <2>3, Effects
    <3> QED
      BY <3>1 DEF Succeeds, StartsProcessing, Fails, Expires
  <2>4. ASSUME NEW p \in Payments, OpenPayment(p) PROVE A
    BY <2>4 DEF OpenPayment, InsertPayment
  <2> QED
    BY <1>1, <2>1, <2>2, <2>3, <2>4 DEF LedgerNext, CheckoutStep
<1> QED
  BY <1>1, LedgerInvariance, PTL DEF LedgerSpec, OnlyOpenAttemptMovesPayment

(* Right after an outcome was applied, the matrix decides it as a no-op.   *)
LEMMA AppliedIsNoOp ==
    ASSUME LInv, NEW a \in Attempts, NEW oc \in Outcomes, ApplyOutcome(a, oc)
    PROVE  Decided(a, oc)'.decision = "noop"
<1> DEFINE p == pay'[PaymentOf[a]]
           s == att'[a]
<1>1. \/ oc = "succeeded" /\ p = "succeeded" /\ s = "succeeded"
      \/ oc = "pending" /\ p = "processing"
      \/ oc = "failed" /\ p = "failed" /\ s = "failed"
      \/ oc = "expired" /\ s = "expired"
  BY Effects, ForeignKeys DEF Succeeds, StartsProcessing, Fails, Expires, LInv, LedgerTypeOK
<1>2. Decided(a, oc)' = Decide(oc, p, s)
  BY DEF Decided
<1>3. NoOp.decision = "noop"
  BY DEF NoOp
<1> HIDE DEF p, s
<1>4. Decide(oc, p, s) = NoOp
  <2>1. CASE oc = "succeeded" /\ p = "succeeded" /\ s = "succeeded"
    BY <2>1 DEF Decide, decideSucceeded
  <2>2. CASE oc = "pending" /\ p = "processing"
    BY <2>2 DEF Decide, decidePending, paymentSettled
  <2>3. CASE oc = "failed" /\ p = "failed" /\ s = "failed"
    BY <2>3 DEF Decide, decideFailed
  <2>4. CASE oc = "expired" /\ s = "expired"
    BY <2>4 DEF Decide, decideExpired, attemptSettled
  <2> QED
    BY <1>1, <2>1, <2>2, <2>3, <2>4
<1> QED
  BY <1>2, <1>3, <1>4

(* A redelivered outcome changes nothing: what was just applied is decided *)
(* as a no-op in the state it left behind.                                 *)
THEOREM Idempotent == LedgerSpec => ReapplyIsNoOp
<1> DEFINE A == \A a \in Attempts, oc \in Outcomes :
                  ApplyOutcome(a, oc) => Decided(a, oc)'.decision = "noop"
<1>1. LInv => A
  BY AppliedIsNoOp
<1> QED
  BY <1>1, LedgerInvariance, PTL DEF LedgerSpec, ReapplyIsNoOp

(* When the matrix decides for a no-op, for statuses that agree the way    *)
(* AttemptsExplainPayment says.                                            *)
NoOpFor(oc, p, s) ==
    \/ oc = "succeeded" /\ p = "succeeded" /\ s = "succeeded"
    \/ oc = "pending" /\ (p # "pending" \/ s \notin {"created", "pending"})
    \/ oc \in {"failed", "expired"}
       /\ (p \in {"succeeded", "failed"} \/ s \notin {"created", "pending"})

(* The states of payment and attempt in which Decide has nothing to do.    *)
LEMMA WhenNoOp ==
    ASSUME NEW oc \in Outcomes,
           NEW p \in {"pending", "processing", "succeeded", "failed"},
           NEW s \in {"created", "pending", "succeeded", "failed", "expired"},
           s = "succeeded" => p = "succeeded", s = "failed" => p = "failed"
    PROVE  Decide(oc, p, s).decision = "noop" <=> NoOpFor(oc, p, s)
<1> USE DEF NoOp, Conflict, Apply, Unmoved, attemptSettled, paymentSettled, NoOpFor
<1>1. CASE oc = "succeeded"
  BY <1>1 DEF Decide, decideSucceeded
<1>2. CASE oc = "pending"
  BY <1>2 DEF Decide, decidePending
<1>3. CASE oc = "failed"
  BY <1>3 DEF Decide, decideFailed
<1>4. CASE oc = "expired"
  BY <1>4 DEF Decide, decideExpired
<1> QED
  BY <1>1, <1>2, <1>3, <1>4 DEF Outcomes

(* No transaction un-settles: what has become a no-op stays one.           *)
LEMMA NoOpStays ==
    ASSUME LInv, [LedgerNext]_ledger, NEW a \in Attempts, NEW oc \in Outcomes,
           att[a] # "absent", Decided(a, oc).decision = "noop"
    PROVE  att'[a] # "absent" /\ Decided(a, oc)'.decision = "noop"
<1> DEFINE p == pay[PaymentOf[a]]
           s == att[a]
           pp == pay'[PaymentOf[a]]
           ss == att'[a]
           Settles ==
              /\ ss = s \/ (s \in {"created", "pending"}
                            /\ ss \in {"pending", "succeeded", "failed", "expired"})
              /\ pp = p \/ (p \in {"pending", "processing"}
                            /\ pp \in {"processing", "succeeded", "failed"})
<1>1. LInv'
  BY NextLInv
<1>2. PaymentOf[a] \in Payments /\ OrderOf[PaymentOf[a]] \in Orders
  BY ForeignKeys
<1>3. /\ p \in {"pending", "processing", "succeeded", "failed"}
      /\ s \in {"created", "pending", "succeeded", "failed", "expired"}
      /\ s = "succeeded" => p = "succeeded"
      /\ s = "failed" => p = "failed"
  BY <1>2 DEF LInv, LedgerTypeOK, AttemptHasPayment, AttemptsExplainPayment
<1>4. Settles
  <2> USE <1>2 DEF LInv, LedgerTypeOK
  <2>1. CASE UNCHANGED ledger
    BY <2>1 DEF ledger
  <2>2. ASSUME NEW b \in Attempts, OpenAttempt(b) PROVE Settles
    BY <1>3, <2>2, ForeignKeys DEF OpenAttempt, InsertPayment, FindPayment
  <2>3. ASSUME NEW b \in Attempts, AttachSession(b) PROVE Settles
    BY <2>3 DEF AttachSession
  <2>4. ASSUME NEW q \in Payments, OpenPayment(q) PROVE Settles
    BY <1>3, <2>4 DEF OpenPayment, InsertPayment
  <2>5. ASSUME NEW b \in Attempts, NEW o \in Outcomes, ApplyOutcome(b, o) PROVE Settles
    <3>1. Succeeds(b) \/ StartsProcessing(b) \/ Fails(b) \/ Expires(b)
      BY <2>5, Effects
    <3> QED
      BY <3>1, ForeignKeys DEF Succeeds, StartsProcessing, Fails, Expires
  <2> QED
    BY <2>1, <2>2, <2>3, <2>4, <2>5 DEF LedgerNext, CheckoutStep
<1>5. NoOpFor(oc, p, s)
  BY <1>3, WhenNoOp DEF Decided
<1>6. /\ pp \in {"pending", "processing", "succeeded", "failed"}
      /\ ss \in {"created", "pending", "succeeded", "failed", "expired"}
      /\ ss = "succeeded" => pp = "succeeded"
      /\ ss = "failed" => pp = "failed"
  BY <1>1, <1>2, <1>3, <1>4 DEF LInv, AttemptsExplainPayment
<1>7. Decided(a, oc)' = Decide(oc, pp, ss)
  BY DEF Decided
<1> HIDE DEF p, s, pp, ss
<1>8. NoOpFor(oc, pp, ss)
  BY <1>3, <1>4, <1>5 DEF NoOpFor
<1>9. Decide(oc, pp, ss).decision = "noop"
  BY <1>6, <1>8, WhenNoOp
<1> QED
  BY <1>6, <1>7, <1>9 DEF ss

(* No transaction deletes an attempt.                                      *)
LEMMA AttemptStays ==
    ASSUME LInv, [LedgerNext]_ledger, NEW a \in Attempts, att[a] # "absent"
    PROVE  att'[a] # "absent"
<1> USE DEF LInv, LedgerTypeOK
<1>1. CASE UNCHANGED ledger
  BY <1>1 DEF ledger
<1>2. ASSUME NEW b \in Attempts, OpenAttempt(b) \/ AttachSession(b) PROVE att'[a] # "absent"
  BY <1>2 DEF OpenAttempt, AttachSession
<1>3. ASSUME NEW q \in Payments, OpenPayment(q) PROVE att'[a] # "absent"
  BY <1>3 DEF OpenPayment
<1>4. ASSUME NEW b \in Attempts, NEW o \in Outcomes, ApplyOutcome(b, o)
      PROVE  att'[a] # "absent"
  <2>1. Succeeds(b) \/ StartsProcessing(b) \/ Fails(b) \/ Expires(b)
    BY <1>4, Effects
  <2> QED
    BY <2>1 DEF Succeeds, StartsProcessing, Fails, Expires
<1> QED
  BY <1>1, <1>2, <1>3, <1>4 DEF LedgerNext, CheckoutStep

=============================================================================
