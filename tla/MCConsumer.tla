----------------------------- MODULE MCConsumer -----------------------------
(* TLC instances of Consumer: one order with one payment, and what each    *)
(* run lets the provider say.                                              *)
EXTENDS Consumer, TLC

CONSTANTS o1, p1, a1, a2, e1, e2, e3, w1, w2

MCOrderOf == [p \in Payments |-> o1]
MCPaymentOf == [a \in Attempts |-> p1]

(* An event that waits, succeeds or that no retry can repair.              *)
FewContents == e1 :> {<<a1, "succeeded">>, <<a1, "pending">>, Unusable, Ignored}

(* Two events about one attempt, which disagree or come too late, and one  *)
(* whose message cannot be published.                                      *)
RivalContents ==
    (e1 :> {<<a1, "succeeded">>, <<a1, "expired">>}) @@ (e2 :> {<<a1, "failed">>}) @@ (e3 :> {Unusable})

=============================================================================
