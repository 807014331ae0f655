------------------------------- MODULE Stripe -------------------------------
(***************************************************************************)
(* What a stored event of the provider means here: the translation of its  *)
(* name into a kind and of kind and payment_status into an outcome of the  *)
(* transition matrix.  An event carries the status its session had when    *)
(* the provider wrote it.                                                  *)
(***************************************************************************)

KindUnknown == "unknown"

(* Event names of the provider, and the application's vocabulary.  A name  *)
(* that is not in the table is stored and ignored.                         *)
eventKinds(type) ==
    CASE type = "completed"               -> "checkout_completed"
      [] type = "async_payment_succeeded" -> "checkout_payment_succeeded"
      [] type = "async_payment_failed"    -> "checkout_payment_failed"
      [] type = "expired"                 -> "checkout_expired"
      [] OTHER                            -> KindUnknown

(* ErrUnreadablePayload: no outcome, and no retry repairs it.              *)
Unreadable == "unreadable"

(* Bug: a completed session is taken for a paid one.                       *)
completedIsPaid(kind, status) ==
    CASE kind = "checkout_completed"         -> "succeeded"
      [] kind = "checkout_payment_succeeded" -> "succeeded"
      [] kind = "checkout_payment_failed"    -> "failed"
      [] kind = "checkout_expired"           -> "expired"
      [] OTHER                               -> Unreadable

(* "A completed session [...] does not mean paid."                         *)
financialOutcome(kind, status) ==
    CASE kind = "checkout_completed" ->
            (CASE status \in {"paid", "no_payment_required"} -> "succeeded"
               [] status = "unpaid"                          -> "pending"
               [] OTHER                                      -> Unreadable)
      [] kind = "checkout_payment_succeeded" -> "succeeded"
      [] kind = "checkout_payment_failed"    -> "failed"
      [] kind = "checkout_expired"           -> "expired"
      [] OTHER                               -> Unreadable

(* The name is translated again when the stored event is read.             *)
Interpret(event) == financialOutcome(eventKinds(event.type), event.status)
=============================================================================
