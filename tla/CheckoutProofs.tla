--------------------------- MODULE CheckoutProofs ---------------------------
(***************************************************************************)
(* Proofs about checkout, for any number of requests, keys, orders and     *)
(* payments: the statements of prepareCheckout and the late SaveSession    *)
(* change the aggregate only as Ledger allows, and the sessions they open  *)
(* agree with it.                                                          *)
(*                                                                         *)
(* The inductive invariant says what a request knows of rows it does not   *)
(* lock: an uncommitted insert keeps every conflicting insert waiting, so  *)
(* what made it go through is still true when it commits; rows are never   *)
(* deleted and keys never change, so an attempt read before the            *)
(* transaction ended, or before the provider was called, is still the      *)
(* key's attempt afterwards.                                               *)
(***************************************************************************)
EXTENDS Checkout, LedgerProofs

-----------------------------------------------------------------------------
(* The inductive invariant.                                                *)

(* What the request has in hand at each of its statements.                 *)
Holding(r) ==
    /\ pc[r] # "idle" => ord[r] \in Orders /\ key[r] \in Keys
    /\ pc[r] \notin {"attempt", "refind", "commit"} => fresh[r] = {}
    /\ pc[r] \in {"idle", "lookup", "payment", "find", "attempt", "refind"} =>
          cur[r] = None /\ "attempt" \notin fresh[r]
    /\ pc[r] \in {"attempt", "refind", "commit"} =>
          pays[r] \in Payments /\ OrderOf[pays[r]] = ord[r]

(* A payment it has inserted is still alone with its order, one it has     *)
(* found still exists.                                                     *)
HoldsPayment(r) ==
    /\ "payment" \in fresh[r] =>
          /\ pay[pays[r]] = "absent"
          /\ \A p \in Payments : OrderOf[p] = ord[r] => ~PaymentActive(p)
          /\ \A q \in Requests \ {r} : "payment" \in fresh[q] => ord[q] # ord[r]
    /\ pc[r] \in {"attempt", "refind", "commit"} /\ "payment" \notin fresh[r] =>
          pay[pays[r]] # "absent"

(* An attempt it has inserted is still alone with its key and payment.     *)
HoldsAttempt(r) ==
    "attempt" \in fresh[r] =>
       /\ cur[r] \in Attempts /\ att[cur[r]] = "absent" /\ PaymentOf[cur[r]] = pays[r]
       /\ \A b \in Attempts : att[b] # "absent" => keyOf[b] # key[r]
       /\ \A b \in Attempts : PaymentOf[b] = pays[r] => ~AttemptActive(b)
       /\ \A q \in Requests \ {r} :
             "attempt" \in fresh[q] => key[q] # key[r] /\ pays[q] # pays[r]

(* An attempt it has found, or committed, is the key's and the order's.    *)
KnowsAttempt(r) ==
    /\ (/\ pc[r] \in {"commit", "prepared", "provider", "attach", "save"}
        /\ "attempt" \notin fresh[r]) =>
          /\ cur[r] \in Attempts /\ att[cur[r]] # "absent"
          /\ keyOf[cur[r]] = key[r] /\ OrderOf[PaymentOf[cur[r]]] = ord[r]
    /\ pc[r] \in {"attach", "save"} => session[cur[r]] # "none"
    /\ has[r] => cur[r] \in saved

Request(r) == Holding(r) /\ HoldsPayment(r) /\ HoldsAttempt(r) /\ KnowsAttempt(r)

(* The unique index on the idempotency key.                                *)
UniqueKey ==
    /\ \A a \in Attempts : att[a] # "absent" => keyOf[a] \in Keys
    /\ \A a, b \in Attempts :
          (att[a] # "absent" /\ att[b] # "absent" /\ keyOf[a] = keyOf[b]) => a = b

(* What has been answered is on record.                                    *)
AnswersOnRecord ==
    \A x \in answered :
       /\ att[x.attempt] # "absent" /\ keyOf[x.attempt] = x.key
       /\ x.attempt \in saved /\ OrderOf[PaymentOf[x.attempt]] = x.order

(* The provider's events tell what became of the session.                  *)
SaidIsTrue ==
    \A a \in Attempts :
       /\ session[a] # "none" => att[a] # "absent"
       /\ \A event \in said[a] :
             /\ Interpret(event) = "succeeded" => session[a] = "paid"
             /\ Interpret(event) \in {"failed", "expired"} => session[a] = Interpret(event)

(* So do the books.                                                        *)
AttemptMatchesSession ==
    \A a \in Attempts :
       /\ att[a] = "succeeded" => session[a] = "paid"
       /\ att[a] \in {"failed", "expired"} => session[a] = att[a]

CInv ==
    /\ TypeOK /\ LInv
    /\ \A r \in Requests : Request(r)
    /\ UniqueKey /\ AnswersOnRecord /\ SaidIsTrue /\ AttemptMatchesSession

(* Only request r has moved.                                               *)
OnlyMoves(r) ==
    \A q \in Requests \ {r} :
       /\ pc'[q] = pc[q] /\ ord'[q] = ord[q] /\ key'[q] = key[q] /\ pays'[q] = pays[q]
       /\ cur'[q] = cur[q] /\ fresh'[q] = fresh[q] /\ has'[q] = has[q]

(* The part of TypeOK about requests.                                      *)
RequestTypes ==
    /\ pc \in [Requests -> PCs]
    /\ ord \in [Requests -> Orders \cup {None}] /\ key \in [Requests -> Keys \cup {None}]
    /\ pays \in [Requests -> Payments \cup {None}]
    /\ cur \in [Requests -> Attempts \cup {None}]
    /\ fresh \in [Requests -> SUBSET {"payment", "attempt"}]
    /\ has \in [Requests -> BOOLEAN]

(* And the part about rows, sessions and answers.                          *)
RecordTypes ==
    /\ keyOf \in [Attempts -> Keys \cup {None}] /\ saved \subseteq Attempts
    /\ session \in [Attempts -> Sessions] /\ said \in [Attempts -> SUBSET Events]
    /\ answered \subseteq [key : Keys, order : Orders, attempt : Attempts]

(* The type invariant is the ledger's and these two parts.                 *)
LEMMA TypeParts == TypeOK <=> LedgerTypeOK /\ RequestTypes /\ RecordTypes
  BY DEF TypeOK, RequestTypes, RecordTypes

-----------------------------------------------------------------------------
(* What the pieces of the actions do.                                      *)

(* The five events the provider sends of a session, translated.            *)
LEMMA Meaning ==
    /\ Interpret(Event("completed", "paid")) = "succeeded"
    /\ Interpret(Event("completed", "unpaid")) = "pending"
    /\ Interpret(Event("expired", "unpaid")) = "expired"
    /\ Interpret(Event("async_payment_succeeded", "paid")) = "succeeded"
    /\ Interpret(Event("async_payment_failed", "unpaid")) = "failed"
    /\ \A event \in Events : Interpret(event) \in Outcomes
<1>1. /\ Interpret(Event("completed", "paid")) = "succeeded"
      /\ Interpret(Event("completed", "unpaid")) = "pending"
  BY DEF Interpret, Event, eventKinds, financialOutcome
<1>2. /\ Interpret(Event("expired", "unpaid")) = "expired"
      /\ Interpret(Event("async_payment_succeeded", "paid")) = "succeeded"
      /\ Interpret(Event("async_payment_failed", "unpaid")) = "failed"
  BY DEF Interpret, Event, eventKinds, financialOutcome
<1> QED
  BY <1>1, <1>2 DEF Events, Outcomes

(* A request that is over holds nothing.                                   *)
LEMMA OverEffect ==
    ASSUME RequestTypes, NEW r \in Requests, Over(r)
    PROVE  /\ RequestTypes' /\ OnlyMoves(r) /\ Request(r)'
           /\ fresh'[r] = {}
<1>1. /\ RequestTypes' /\ OnlyMoves(r)
      /\ pc'[r] = "idle" /\ cur'[r] = None /\ fresh'[r] = {} /\ has'[r] = FALSE
  BY DEF RequestTypes, OnlyMoves, Over, At, PCs
<1> QED
  BY <1>1 DEF Request, Holding, HoldsPayment, HoldsAttempt, KnowsAttempt

(* A request that does not move keeps what it holds, when the rows stay    *)
(* and whatever the mover inserts does not conflict with it.               *)
LEMMA Bystander ==
    ASSUME CInv, NEW r \in Requests, NEW q \in Requests \ {r}, OnlyMoves(r),
           UNCHANGED <<ledger, rows>>,
           \A a \in Attempts : session[a] # "none" => session'[a] # "none",
           "payment" \in fresh'[r] =>
              \/ "payment" \in fresh[r] /\ ord'[r] = ord[r]
              \/ "payment" \in fresh[q] => ord[q] # ord'[r],
           "attempt" \in fresh'[r] =>
              \/ "attempt" \in fresh[r] /\ key'[r] = key[r] /\ pays'[r] = pays[r]
              \/ "attempt" \in fresh[q] => key[q] # key'[r] /\ pays[q] # pays'[r]
    PROVE  Request(q)'
<1>1. /\ pc'[q] = pc[q] /\ ord'[q] = ord[q] /\ key'[q] = key[q] /\ pays'[q] = pays[q]
      /\ cur'[q] = cur[q] /\ fresh'[q] = fresh[q] /\ has'[q] = has[q]
      /\ pay' = pay /\ att' = att /\ keyOf' = keyOf /\ saved' = saved
      /\ Holding(q) /\ HoldsPayment(q) /\ HoldsAttempt(q) /\ KnowsAttempt(q)
  BY DEF OnlyMoves, CInv, Request, ledger, rows
<1>2. Holding(q)'
  BY <1>1 DEF Holding
<1>3. HoldsPayment(q)'
  BY <1>1 DEF HoldsPayment, PaymentActive, OnlyMoves
<1>4. HoldsAttempt(q)'
  BY <1>1 DEF HoldsAttempt, AttemptActive, OnlyMoves
<1>5. KnowsAttempt(q)'
  BY <1>1 DEF KnowsAttempt, Holding
<1> QED
  BY <1>2, <1>3, <1>4, <1>5 DEF Request

(* A step of r that writes no row of the database and adds no answer that  *)
(* is not on record preserves the invariant if what r holds is true.       *)
LEMMA Moved ==
    ASSUME CInv, NEW r \in Requests, OnlyMoves(r), RequestTypes',
           UNCHANGED <<ledger, rows, stripe>>,
           Request(r)',
           "payment" \in fresh'[r] =>
              \/ "payment" \in fresh[r] /\ ord'[r] = ord[r]
              \/ \A q \in Requests \ {r} : "payment" \in fresh[q] => ord[q] # ord'[r],
           "attempt" \in fresh'[r] =>
              \/ "attempt" \in fresh[r] /\ key'[r] = key[r] /\ pays'[r] = pays[r]
              \/ \A q \in Requests \ {r} :
                    "attempt" \in fresh[q] => key[q] # key'[r] /\ pays[q] # pays'[r],
           \/ answered' = answered
           \/ /\ cur[r] \in saved /\ KnowsAttempt(r) /\ Holding(r)
              /\ pc[r] = "prepared"
              /\ Answer(r)
    PROVE  CInv'
<1>1. ASSUME NEW q \in Requests PROVE Request(q)'
  BY <1>1, Bystander DEF stripe
<1>2. LInv' /\ UniqueKey' /\ SaidIsTrue' /\ AttemptMatchesSession'
  BY StutterLInv DEF CInv, ledger, rows, stripe, UniqueKey, SaidIsTrue, AttemptMatchesSession
<1>3. AnswersOnRecord' /\ answered' \subseteq [key : Keys, order : Orders, attempt : Attempts]
  <2>1. CASE answered' = answered
    BY <2>1, TypeParts DEF CInv, AnswersOnRecord, RecordTypes, ledger, rows
  <2>2. CASE answered' # answered
    <3>1. /\ cur[r] \in Attempts /\ att[cur[r]] # "absent" /\ cur[r] \in saved
          /\ keyOf[cur[r]] = key[r] /\ OrderOf[PaymentOf[cur[r]]] = ord[r]
          /\ key[r] \in Keys /\ ord[r] \in Orders
      BY <2>2 DEF KnowsAttempt, Holding
    <3>2. answered' = answered \cup {[key |-> key[r], order |-> ord[r], attempt |-> cur[r]]}
      BY <2>2 DEF Answer
    <3> QED
      BY <3>1, <3>2, TypeParts DEF CInv, AnswersOnRecord, RecordTypes, ledger, rows
  <2> QED BY <2>1, <2>2
<1>4. TypeOK'
  BY <1>3 DEF CInv, TypeOK, RequestTypes, LedgerTypeOK, ledger, rows, stripe
<1> QED
  BY <1>1, <1>2, <1>3, <1>4 DEF CInv

-----------------------------------------------------------------------------
(* Every action preserves the invariant.                                   *)

(* No row, no session, no request.                                         *)
LEMMA InitCInv == Init => CInv
<1> SUFFICES ASSUME Init PROVE CInv
  OBVIOUS
<1>1. LInv
  BY InitLInv DEF Init
<1>2. TypeOK
  BY <1>1 DEF Init, LInv, TypeOK, PCs, Sessions
<1>3. ASSUME NEW r \in Requests PROVE Request(r)
  BY DEF Init, Request, Holding, HoldsPayment, HoldsAttempt, KnowsAttempt
<1>4. UniqueKey /\ AnswersOnRecord /\ SaidIsTrue /\ AttemptMatchesSession
  BY DEF Init, LedgerInit, UniqueKey, AnswersOnRecord, SaidIsTrue, AttemptMatchesSession
<1> QED
  BY <1>1, <1>2, <1>3, <1>4 DEF CInv

(* A request ends without writing: refused, rolled back, or answered with  *)
(* an attempt that is on record.                                           *)
LEMMA OverCInv ==
    ASSUME CInv, NEW r \in Requests, Over(r), UNCHANGED <<ledger, rows, stripe>>,
           \/ answered' = answered
           \/ pc[r] = "prepared" /\ cur[r] \in saved /\ Answer(r)
    PROVE  CInv'
<1>1. RequestTypes' /\ OnlyMoves(r) /\ Request(r)' /\ fresh'[r] = {}
  BY OverEffect, TypeParts DEF CInv
<1>2. KnowsAttempt(r) /\ Holding(r)
  BY DEF CInv, Request
<1> QED
  BY <1>1, <1>2, Moved

(* The order is read; nothing is inserted.                                 *)
LEMMA BeginCInv ==
    ASSUME CInv, NEW r \in Requests, NEW o \in Orders, NEW k \in Keys, Begin(r, o, k)
    PROVE  CInv'
<1>1. RequestTypes /\ Request(r)
  BY TypeParts DEF CInv
<1>2. /\ RequestTypes' /\ OnlyMoves(r) /\ pc[r] = "idle" /\ pc'[r] = "lookup"
      /\ ord'[r] = o /\ key'[r] = k /\ pays' = pays /\ cur' = cur /\ fresh' = fresh
      /\ has' = has /\ answered' = answered /\ UNCHANGED <<ledger, rows, stripe>>
  BY <1>1 DEF Begin, At, RequestTypes, OnlyMoves, PCs
<1>3. fresh[r] = {}
  BY <1>1, <1>2 DEF Request, Holding
<1>4. Request(r)'
  BY <1>1, <1>2, <1>3
     DEF Request, Holding, HoldsPayment, HoldsAttempt, KnowsAttempt, rows
<1> QED
  BY <1>2, <1>3, <1>4, Moved

(* The key's attempt is taken as it was read, or the request is refused.   *)
LEMMA FoundCInv ==
    ASSUME CInv, NEW r \in Requests, NEW next \in {"prepared", "commit"},
           pc[r] = IF next = "prepared" THEN "lookup" ELSE "refind",
           Found(r, next), UNCHANGED <<ledger, rows, stripe, answered>>
    PROVE  CInv'
<1>1. PICK a \in ByKey(key[r]) :
         \/ /\ OrderOf[PaymentOf[a]] = ord[r]
            /\ At(r, next)
            /\ cur' = [cur EXCEPT ![r] = a]
            /\ has' = [has EXCEPT ![r] = HasSession(a)]
            /\ UNCHANGED <<ord, key, pays, fresh>>
         \/ OrderOf[PaymentOf[a]] # ord[r] /\ Over(r)
  BY DEF Found
<1>2. CASE Over(r)
  BY <1>2, OverCInv
<1>3. CASE ~Over(r)
  <2>1. RequestTypes /\ Request(r) /\ a \in Attempts /\ att[a] # "absent" /\ keyOf[a] = key[r]
    BY TypeParts DEF CInv, ByKey
  <2>2. HasSession(a) \in BOOLEAN /\ (HasSession(a) => a \in saved)
    BY DEF HasSession
  <2>3. /\ RequestTypes' /\ OnlyMoves(r) /\ pc'[r] = next /\ cur'[r] = a
        /\ ord' = ord /\ key' = key /\ pays' = pays /\ fresh' = fresh
        /\ has'[r] => a \in saved
    BY <1>1, <1>3, <2>1, <2>2 DEF At, RequestTypes, OnlyMoves, PCs
  <2>4. /\ Holding(r)' /\ "attempt" \notin fresh'[r]
        /\ pc[r] = "lookup" => fresh'[r] = {}
    BY <2>1, <2>3 DEF Request, Holding
  <2>5. HoldsPayment(r)'
    <3>1. /\ HoldsPayment(r) /\ pay' = pay
          /\ \A q \in Requests \ {r} : fresh'[q] = fresh[q] /\ ord'[q] = ord[q]
      BY <2>1, <2>3 DEF Request, ledger
    <3> QED BY <2>3, <2>4, <3>1 DEF HoldsPayment, PaymentActive
  <2>6. HoldsAttempt(r)' /\ KnowsAttempt(r)'
    BY <1>1, <1>3, <2>1, <2>3, <2>4 DEF HoldsAttempt, KnowsAttempt, ledger, rows
  <2>7. Request(r)'
    BY <2>4, <2>5, <2>6 DEF Request
  <2> QED BY <2>3, <2>4, <2>7, Moved
<1> QED
  BY <1>2, <1>3

(* The key has no attempt: the request goes on to the payment.             *)
LEMMA LookupCInv ==
    ASSUME CInv, NEW r \in Requests, Lookup(r)
    PROVE  CInv'
<1>1. CASE Found(r, "prepared")
  BY <1>1, FoundCInv DEF Lookup
<1>2. CASE ~Found(r, "prepared")
  <2>1. RequestTypes /\ Request(r)
    BY TypeParts DEF CInv
  <2>2. /\ RequestTypes' /\ OnlyMoves(r) /\ pc[r] = "lookup" /\ pc'[r] = "payment"
        /\ ord' = ord /\ key' = key /\ pays' = pays /\ cur' = cur /\ fresh' = fresh
        /\ has' = has /\ answered' = answered /\ UNCHANGED <<ledger, rows, stripe>>
    BY <1>2, <2>1 DEF Lookup, At, RequestTypes, OnlyMoves, PCs
  <2>3. fresh[r] = {}
    BY <2>1, <2>2 DEF Request, Holding
  <2>4. Request(r)'
    BY <2>1, <2>2, <2>3
       DEF Request, Holding, HoldsPayment, HoldsAttempt, KnowsAttempt, rows
  <2> QED BY <2>2, <2>3, <2>4, Moved
<1> QED
  BY <1>1, <1>2

(* A payment is inserted while its order has no other, committed or not.   *)
LEMMA TryPaymentCInv ==
    ASSUME CInv, NEW r \in Requests, TryPayment(r)
    PROVE  CInv'
<1>1. RequestTypes /\ Request(r) /\ pc[r] = "payment" /\ ~PaymentBusy(r)
  BY TypeParts DEF CInv, TryPayment
<1>2. /\ ord' = ord /\ key' = key /\ cur' = cur /\ has' = has /\ answered' = answered
      /\ UNCHANGED <<ledger, rows, stripe>>
      /\ fresh[r] = {} /\ ord[r] \in Orders /\ key[r] \in Keys /\ cur[r] = None
  BY <1>1 DEF TryPayment, Request, Holding
<1>3. CASE pc' = [pc EXCEPT ![r] = "find"] /\ pays' = pays /\ fresh' = fresh
  <2>1. RequestTypes' /\ OnlyMoves(r) /\ pc'[r] = "find"
    BY <1>1, <1>2, <1>3 DEF RequestTypes, OnlyMoves, PCs
  <2>2. Request(r)'
    BY <1>1, <1>2, <1>3, <2>1
       DEF Request, Holding, HoldsPayment, HoldsAttempt, KnowsAttempt, rows
  <2> QED BY <1>2, <1>3, <2>1, <2>2, Moved
<1>4. CASE /\ ActivePayments(ord[r]) = {}
           /\ fresh' = [fresh EXCEPT ![r] = {"payment"}]
           /\ pc' = [pc EXCEPT ![r] = "attempt"]
           /\ \E p \in Payments :
                 /\ OrderOf[p] = ord[r] /\ pay[p] = "absent"
                 /\ pays' = [pays EXCEPT ![r] = p]
  <2>1. PICK p \in Payments : /\ OrderOf[p] = ord[r] /\ pay[p] = "absent"
                              /\ pays' = [pays EXCEPT ![r] = p]
    BY <1>4
  <2>2. /\ RequestTypes' /\ OnlyMoves(r) /\ pc'[r] = "attempt" /\ pays'[r] = p
        /\ fresh'[r] = {"payment"}
    BY <1>1, <1>2, <1>4, <2>1 DEF RequestTypes, OnlyMoves, PCs
  <2>3. \A q \in Requests \ {r} : "payment" \in fresh[q] => ord[q] # ord[r]
    BY <1>1 DEF PaymentBusy
  <2>4. Holding(r)' /\ HoldsAttempt(r)' /\ KnowsAttempt(r)'
    BY <1>1, <1>2, <2>1, <2>2 DEF Request, Holding, HoldsAttempt, KnowsAttempt, rows
  <2>5. HoldsPayment(r)'
    BY <1>2, <1>4, <2>1, <2>2, <2>3
       DEF HoldsPayment, ActivePayments, PaymentActive, ledger, OnlyMoves
  <2>6. Request(r)'
    BY <2>4, <2>5 DEF Request
  <2> QED BY <1>2, <2>2, <2>3, <2>6, Moved
<1> QED
  BY <1>3, <1>4 DEF TryPayment, At

(* The active payment is read without a lock: it exists from now on.       *)
LEMMA GetActivePaymentCInv ==
    ASSUME CInv, NEW r \in Requests, GetActivePayment(r)
    PROVE  CInv'
<1>1. /\ RequestTypes /\ Request(r) /\ pc[r] = "find"
      /\ UNCHANGED <<ledger, rows, stripe, answered>>
  BY TypeParts DEF CInv, GetActivePayment
<1>2. CASE Over(r)
  BY <1>1, <1>2, OverCInv
<1>3. CASE ~Over(r)
  <2>1. PICK p \in ActivePayments(ord[r]) :
           /\ pays' = [pays EXCEPT ![r] = p]
           /\ At(r, "attempt")
           /\ UNCHANGED <<ord, key, cur, fresh, has>>
    BY <1>3 DEF GetActivePayment
  <2>2. p \in Payments /\ OrderOf[p] = ord[r] /\ pay[p] # "absent"
    BY DEF ActivePayments, PaymentActive
  <2>3. /\ RequestTypes' /\ OnlyMoves(r) /\ pc'[r] = "attempt" /\ pays'[r] = p
    BY <1>1, <2>1, <2>2 DEF At, RequestTypes, OnlyMoves, PCs
  <2>4. fresh[r] = {}
    BY <1>1 DEF Request, Holding
  <2>5. Request(r)'
    BY <1>1, <2>1, <2>2, <2>3, <2>4
       DEF Request, Holding, HoldsPayment, HoldsAttempt, KnowsAttempt, ledger, rows
  <2> QED BY <1>1, <2>1, <2>3, <2>4, <2>5, Moved
<1> QED
  BY <1>2, <1>3

(* An attempt is inserted while neither its key nor its payment has        *)
(* another, committed or not.                                              *)
LEMMA TryAttemptCInv ==
    ASSUME CInv, NEW r \in Requests, TryAttempt(r)
    PROVE  CInv'
<1>1. RequestTypes /\ Request(r) /\ pc[r] = "attempt" /\ ~AttemptBusy(r)
  BY TypeParts DEF CInv, TryAttempt
<1>2. /\ ord' = ord /\ key' = key /\ pays' = pays /\ has' = has /\ answered' = answered
      /\ UNCHANGED <<ledger, rows, stripe>>
      /\ ord[r] \in Orders /\ key[r] \in Keys /\ cur[r] = None
      /\ "attempt" \notin fresh[r] /\ ~has[r]
      /\ pays[r] \in Payments /\ OrderOf[pays[r]] = ord[r]
  <2>1. saved \subseteq Attempts
    BY TypeParts DEF CInv, RecordTypes
  <2> QED
    BY <1>1, <2>1, CheckoutAssumption DEF TryAttempt, Request, Holding, KnowsAttempt
<1>3. CASE pc' = [pc EXCEPT ![r] = "refind"] /\ cur' = cur /\ fresh' = fresh
  <2>1. RequestTypes' /\ OnlyMoves(r) /\ pc'[r] = "refind"
    BY <1>1, <1>2, <1>3 DEF RequestTypes, OnlyMoves, PCs
  <2>2. Holding(r)' /\ HoldsAttempt(r)' /\ KnowsAttempt(r)'
    BY <1>1, <1>2, <1>3, <2>1 DEF Request, Holding, HoldsAttempt, KnowsAttempt, rows
  <2>3. HoldsPayment(r)'
    BY <1>1, <1>2, <1>3, <2>1 DEF Request, HoldsPayment, PaymentActive, ledger
  <2>4. Request(r)'
    BY <2>2, <2>3 DEF Request
  <2> QED BY <1>2, <1>3, <2>1, <2>4, Moved
<1>4. CASE /\ ~AttemptConflict(r)
           /\ fresh' = [fresh EXCEPT ![r] = @ \cup {"attempt"}]
           /\ pc' = [pc EXCEPT ![r] = "commit"]
           /\ \E a \in Attempts :
                 /\ PaymentOf[a] = pays[r] /\ att[a] = "absent"
                 /\ cur' = [cur EXCEPT ![r] = a]
  <2>1. PICK a \in Attempts : /\ PaymentOf[a] = pays[r] /\ att[a] = "absent"
                              /\ cur' = [cur EXCEPT ![r] = a]
    BY <1>4
  <2>2. /\ RequestTypes' /\ OnlyMoves(r) /\ pc'[r] = "commit" /\ cur'[r] = a
        /\ fresh'[r] = fresh[r] \cup {"attempt"}
    BY <1>1, <1>2, <1>4, <2>1 DEF RequestTypes, OnlyMoves, PCs
  <2>3. \A q \in Requests \ {r} :
           "attempt" \in fresh[q] => key[q] # key[r] /\ pays[q] # pays[r]
    BY <1>1 DEF AttemptBusy
  <2>4. Holding(r)' /\ KnowsAttempt(r)'
    BY <1>1, <1>2, <2>1, <2>2 DEF Holding, KnowsAttempt
  <2>5. HoldsPayment(r)'
    BY <1>1, <1>2, <2>2 DEF Request, HoldsPayment, PaymentActive, ledger, OnlyMoves
  <2>6. HoldsAttempt(r)'
    <3>1. /\ att' = att /\ keyOf' = keyOf
          /\ \A b \in Attempts : att[b] # "absent" => keyOf[b] # key[r]
          /\ \A b \in Attempts : PaymentOf[b] = pays[r] => ~AttemptActive(b)
      BY <1>2, <1>4 DEF AttemptConflict, ByKey, ledger, rows
    <3> QED
      BY <1>2, <2>1, <2>2, <2>3, <3>1 DEF HoldsAttempt, AttemptActive, OnlyMoves
  <2>7. Request(r)'
    BY <2>4, <2>5, <2>6 DEF Request
  <2> QED BY <1>2, <2>2, <2>3, <2>7, Moved
<1> QED
  BY <1>3, <1>4 DEF TryAttempt, At

(* The insert met a conflict: the key's attempt, or nothing.               *)
LEMMA RefindCInv ==
    ASSUME CInv, NEW r \in Requests, Refind(r)
    PROVE  CInv'
<1>1. CASE Found(r, "commit")
  BY <1>1, FoundCInv DEF Refind
<1>2. CASE Over(r)
  BY <1>2, OverCInv DEF Refind
<1> QED
  BY <1>1, <1>2 DEF Refind

(* A step from one statement to the next after the transaction: the        *)
(* request keeps its attempt.                                              *)
LEMMA ForwardCInv ==
    ASSUME CInv, NEW r \in Requests,
           NEW from \in {"prepared", "provider", "attach"},
           NEW to \in {"provider", "attach", "save"}, pc[r] = from, At(r, to),
           UNCHANGED <<ord, key, pays, cur, fresh, has, answered, ledger, rows, stripe>>,
           to \in {"attach", "save"} => session[cur[r]] # "none"
    PROVE  CInv'
<1>1. RequestTypes /\ Request(r)
  BY TypeParts DEF CInv
<1>2. RequestTypes' /\ OnlyMoves(r) /\ pc'[r] = to
  BY <1>1 DEF At, RequestTypes, OnlyMoves, PCs
<1>3. fresh[r] = {}
  BY <1>1 DEF Request, Holding
<1>4. Request(r)'
  BY <1>1, <1>2, <1>3
     DEF Request, Holding, HoldsPayment, HoldsAttempt, KnowsAttempt, ledger, rows, stripe
<1> QED
  BY <1>2, <1>3, <1>4, Moved

(* An attempt read with its session is the answer.                         *)
LEMMA PreparedCInv ==
    ASSUME CInv, NEW r \in Requests, Prepared(r)
    PROVE  CInv'
<1>1. CASE has[r] /\ Answer(r) /\ Over(r)
  <2>1. cur[r] \in saved
    BY <1>1 DEF CInv, Request, KnowsAttempt
  <2> QED BY <1>1, <2>1, OverCInv DEF Prepared
<1>2. CASE /\ At(r, "provider")
           /\ UNCHANGED <<ord, key, pays, cur, fresh, has, answered>>
  BY <1>2, ForwardCInv DEF Prepared
<1> QED
  BY <1>1, <1>2 DEF Prepared

(* AttachSession validates the answer or gives up.                         *)
LEMMA AttachCInv ==
    ASSUME CInv, NEW r \in Requests, Attach(r)
    PROVE  CInv'
<1>1. CASE Over(r)
  BY <1>1, OverCInv DEF Attach
<1>2. CASE At(r, "save") /\ UNCHANGED <<ord, key, pays, cur, fresh, has>>
  <2>1. session[cur[r]] # "none"
    BY DEF CInv, Request, KnowsAttempt, Attach
  <2> QED BY <1>2, <2>1, ForwardCInv DEF Attach
<1> QED
  BY <1>1, <1>2 DEF Attach

(* The provider opens a session only for an attempt that is on record, and *)
(* returns the one it has for a key it knows.                              *)
LEMMA OpenedCInv ==
    ASSUME CInv, NEW r \in Requests, pc[r] = "provider", Opened(r),
           UNCHANGED <<ledger, rows, answered>>,
           \/ Over(r)
           \/ At(r, "attach") /\ UNCHANGED <<ord, key, pays, cur, fresh, has>>
    PROVE  CInv'
<1>1. RequestTypes /\ RecordTypes /\ Request(r) /\ fresh[r] = {}
  BY TypeParts DEF CInv, Request, Holding
<1>2. cur[r] \in Attempts /\ att[cur[r]] # "absent"
  BY <1>1 DEF Request, KnowsAttempt
<1>3. /\ session' \in [Attempts -> Sessions] /\ said' = said
      /\ session'[cur[r]] # "none"
      /\ \A a \in Attempts :
            session'[a] # session[a] => a = cur[r] /\ session[a] = "none"
  BY <1>1, <1>2 DEF Opened, RecordTypes, Sessions
<1>4. RequestTypes' /\ OnlyMoves(r) /\ Request(r)' /\ fresh'[r] = {}
  <2>1. CASE Over(r)
    BY <1>1, <2>1, OverEffect
  <2>2. CASE At(r, "attach") /\ UNCHANGED <<ord, key, pays, cur, fresh, has>>
    <3>1. RequestTypes' /\ OnlyMoves(r) /\ pc'[r] = "attach"
      BY <1>1, <2>2 DEF At, RequestTypes, OnlyMoves, PCs
    <3> QED
      BY <1>1, <1>2, <1>3, <2>2, <3>1
         DEF Request, Holding, HoldsPayment, HoldsAttempt, KnowsAttempt, ledger, rows
  <2> QED BY <2>1, <2>2
<1>5. ASSUME NEW q \in Requests PROVE Request(q)'
  BY <1>3, <1>4, <1>5, Bystander
<1>6. LInv' /\ UniqueKey' /\ AnswersOnRecord'
  BY StutterLInv DEF CInv, ledger, rows, UniqueKey, AnswersOnRecord
<1>7. SaidIsTrue' /\ AttemptMatchesSession'
  BY <1>2, <1>3 DEF CInv, ledger, SaidIsTrue, AttemptMatchesSession
<1>8. TypeOK'
  BY <1>3, <1>4 DEF CInv, TypeOK, RequestTypes, LedgerTypeOK, ledger, rows
<1> QED
  BY <1>5, <1>6, <1>7, <1>8 DEF CInv

(* A session moves and the provider says so.                               *)
LEMMA CustomerCInv ==
    ASSUME CInv, NEW a \in Attempts, Customer(a)
    PROVE  CInv'
<1>1. PICK from \in {"open", "awaiting"}, to \in {"paid", "awaiting", "expired", "failed"},
           event \in Events :
         /\ SessionMoves(a, from, to, event)
         /\ Interpret(event) = "succeeded" => to = "paid"
         /\ Interpret(event) \in {"failed", "expired"} => to = Interpret(event)
  BY Meaning DEF Customer, Events
<1>2. /\ session' \in [Attempts -> Sessions] /\ said' \in [Attempts -> SUBSET Events]
      /\ session[a] = from /\ session'[a] = to /\ said'[a] = said[a] \cup {event}
      /\ \A b \in Attempts : b # a => session'[b] = session[b] /\ said'[b] = said[b]
      /\ UNCHANGED <<ledger, rows, request, answered>>
  BY <1>1, TypeParts DEF SessionMoves, CInv, RecordTypes, Sessions
<1>3. ASSUME NEW r \in Requests PROVE Request(r)'
  <2>1. /\ Holding(r) /\ HoldsPayment(r) /\ HoldsAttempt(r) /\ KnowsAttempt(r)
        /\ \A b \in Attempts : session[b] # "none" => session'[b] # "none"
    BY <1>2 DEF CInv, Request
  <2>2. (Holding(r) /\ HoldsPayment(r) /\ HoldsAttempt(r))'
    BY <1>2, <2>1 DEF Holding, HoldsPayment, HoldsAttempt, PaymentActive, AttemptActive,
       ledger, rows, request
  <2>3. KnowsAttempt(r)'
    BY <1>2, <2>1 DEF KnowsAttempt, Holding, ledger, rows, request
  <2> QED BY <2>2, <2>3 DEF Request
<1>4. LInv' /\ UniqueKey' /\ AnswersOnRecord'
  BY <1>2, StutterLInv DEF CInv, ledger, rows, UniqueKey, AnswersOnRecord
<1>5. SaidIsTrue'
  BY <1>1, <1>2 DEF CInv, ledger, SaidIsTrue
<1>6. AttemptMatchesSession'
  BY <1>1, <1>2 DEF CInv, ledger, AttemptMatchesSession
<1>7. TypeOK'
  BY <1>2 DEF CInv, TypeOK, LedgerTypeOK, ledger, rows, request
<1> QED
  BY <1>3, <1>4, <1>5, <1>6, <1>7 DEF CInv

-----------------------------------------------------------------------------
(* The transactions.                                                       *)

(* A commit is one of the ledger's transactions: a new attempt with or     *)
(* without its payment, a payment alone, or nothing.                       *)
LEMMA InsertedIsLedgerStep ==
    ASSUME CInv, NEW r \in Requests, pc[r] = "commit", Inserted(r)
    PROVE  LedgerNext \/ UNCHANGED ledger
<1>1. Request(r)
  BY DEF CInv
<1>2. pays[r] \in Payments /\ OrderOf[pays[r]] = ord[r]
  BY <1>1 DEF Request, Holding
<1>3. CASE "payment" \notin fresh[r] /\ "attempt" \notin fresh[r]
  BY <1>3 DEF Inserted, ledger
<1>4. CASE "attempt" \in fresh[r]
  <2>1. /\ cur[r] \in Attempts /\ att[cur[r]] = "absent" /\ PaymentOf[cur[r]] = pays[r]
        /\ \A b \in Attempts : PaymentOf[b] = pays[r] => ~AttemptActive(b)
    BY <1>1, <1>4 DEF Request, HoldsAttempt
  <2>2. InsertPayment(pays[r]) \/ FindPayment(pays[r])
    BY <1>1, <1>2 DEF Request, HoldsPayment, InsertPayment, FindPayment, Inserted
  <2>3. OpenAttempt(cur[r])
    BY <1>4, <2>1, <2>2 DEF OpenAttempt, Inserted
  <2> QED BY <2>1, <2>3 DEF LedgerNext, CheckoutStep
<1>5. CASE "payment" \in fresh[r] /\ "attempt" \notin fresh[r]
  <2>1. cur[r] \in Attempts /\ att[cur[r]] # "absent" /\ OrderOf[PaymentOf[cur[r]]] = ord[r]
    BY <1>1, <1>5 DEF Request, KnowsAttempt
  <2>2. InsertPayment(pays[r])
    BY <1>1, <1>2, <1>5 DEF Request, HoldsPayment, InsertPayment, Inserted
  <2>3. OpenPayment(pays[r])
    BY <1>2, <1>5, <2>1, <2>2 DEF OpenPayment, Inserted
  <2> QED BY <1>2, <2>3 DEF LedgerNext, CheckoutStep
<1> QED
  BY <1>3, <1>4, <1>5

(* The commit publishes the rows this request held and nobody else's.      *)
LEMMA InsertedCInv ==
    ASSUME CInv, NEW r \in Requests, pc[r] = "commit", Inserted(r), UNCHANGED <<stripe, answered>>,
           \/ Over(r)
           \/ /\ At(r, "prepared") /\ fresh' = [fresh EXCEPT ![r] = {}]
              /\ UNCHANGED <<ord, key, pays, cur, has>>
    PROVE  CInv'
<1>1. RequestTypes /\ RecordTypes /\ LedgerTypeOK /\ Request(r)
  BY TypeParts DEF CInv
<1>2. LInv'
  BY InsertedIsLedgerStep, NextLInv DEF CInv
<1>3. /\ ord[r] \in Orders /\ key[r] \in Keys
      /\ pays[r] \in Payments /\ OrderOf[pays[r]] = ord[r]
      /\ cur[r] \in Attempts /\ OrderOf[PaymentOf[cur[r]]] = ord[r]
  BY <1>1 DEF Request, Holding, HoldsAttempt, KnowsAttempt
<1>4. /\ keyOf' \in [Attempts -> Keys \cup {None}]
      /\ att'[cur[r]] # "absent" /\ keyOf'[cur[r]] = key[r]
      /\ \A a \in Attempts : att[a] # "absent" => att'[a] = att[a] /\ keyOf'[a] = keyOf[a]
      /\ \A a \in Attempts : att[a] = "absent" /\ att'[a] # "absent" =>
            "attempt" \in fresh[r] /\ a = cur[r] /\ att'[a] = "created"
  BY <1>1, <1>3 DEF Inserted, RecordTypes, LedgerTypeOK, Request, HoldsAttempt, KnowsAttempt
<1>5. \A p \in Payments : pay'[p] # pay[p] =>
         "payment" \in fresh[r] /\ p = pays[r] /\ pay[p] = "absent" /\ pay'[p] = "pending"
  BY <1>1, <1>3 DEF Inserted, LedgerTypeOK, Request, HoldsPayment
<1>6. RequestTypes' /\ OnlyMoves(r) /\ Request(r)' /\ fresh'[r] = {}
  <2>1. CASE Over(r)
    BY <1>1, <2>1, OverEffect
  <2>2. CASE /\ At(r, "prepared") /\ fresh' = [fresh EXCEPT ![r] = {}]
             /\ UNCHANGED <<ord, key, pays, cur, has>>
    <3>1. RequestTypes' /\ OnlyMoves(r) /\ pc'[r] = "prepared" /\ fresh'[r] = {}
      BY <1>1, <2>2 DEF At, RequestTypes, OnlyMoves, PCs
    <3> QED
      BY <1>1, <1>3, <1>4, <2>2, <3>1
         DEF Request, Holding, HoldsPayment, HoldsAttempt, KnowsAttempt, Inserted
  <2> QED BY <2>1, <2>2
<1>7. ASSUME NEW q \in Requests \ {r} PROVE Request(q)'
  <2>1. /\ pc'[q] = pc[q] /\ ord'[q] = ord[q] /\ key'[q] = key[q] /\ pays'[q] = pays[q]
        /\ cur'[q] = cur[q] /\ fresh'[q] = fresh[q] /\ has'[q] = has[q]
        /\ Holding(q) /\ HoldsPayment(q) /\ HoldsAttempt(q) /\ KnowsAttempt(q)
    BY <1>6 DEF OnlyMoves, CInv, Request
  <2>2. Holding(q)'
    BY <2>1 DEF Holding
  <2>3. HoldsPayment(q)'
    <3>1. "payment" \in fresh[q] /\ "payment" \in fresh[r] => ord[q] # ord[r]
      BY <2>1 DEF HoldsPayment
    <3>2. \/ pays[q] \in Payments /\ OrderOf[pays[q]] = ord[q]
          \/ fresh[q] = {}
      BY <2>1 DEF Holding
    <3>3. /\ "payment" \in fresh[q] =>
                /\ pay'[pays[q]] = "absent"
                /\ \A p \in Payments : OrderOf[p] = ord[q] => ~PaymentActive(p)'
          /\ pc[q] \in {"attempt", "refind", "commit"} /\ "payment" \notin fresh[q] =>
                pay'[pays[q]] # "absent"
      BY <1>3, <1>5, <2>1, <3>1, <3>2 DEF HoldsPayment, Holding, PaymentActive
    <3> QED BY <1>6, <2>1, <3>3 DEF HoldsPayment, OnlyMoves
  <2>4. HoldsAttempt(q)'
    <3>1. "attempt" \in fresh[q] /\ "attempt" \in fresh[r] =>
             key[q] # key[r] /\ pays[q] # pays[r]
      BY <2>1 DEF HoldsAttempt
    <3>2. "attempt" \in fresh[r] => PaymentOf[cur[r]] = pays[r]
      BY <1>1 DEF Request, HoldsAttempt
    <3>3. "attempt" \in fresh[q] =>
             /\ att'[cur[q]] = "absent"
             /\ \A b \in Attempts : att'[b] # "absent" => keyOf'[b] # key[q]
             /\ \A b \in Attempts : PaymentOf[b] = pays[q] => ~AttemptActive(b)'
      BY <1>3, <1>4, <2>1, <3>1, <3>2 DEF HoldsAttempt, AttemptActive
    <3> QED BY <1>6, <2>1, <3>3 DEF HoldsAttempt, OnlyMoves
  <2>5. KnowsAttempt(q)'
    BY <1>4, <2>1 DEF KnowsAttempt, Inserted, stripe
  <2> QED BY <2>2, <2>3, <2>4, <2>5 DEF Request
<1>8. UniqueKey'
  <2>1. "attempt" \in fresh[r] => \A b \in Attempts : att[b] # "absent" => keyOf[b] # key[r]
    BY <1>1 DEF Request, HoldsAttempt
  <2> QED BY <1>3, <1>4, <2>1 DEF CInv, UniqueKey
<1>9. AnswersOnRecord'
  BY <1>1, <1>4 DEF CInv, AnswersOnRecord, RecordTypes, Inserted
<1>10. SaidIsTrue' /\ AttemptMatchesSession'
  BY <1>4 DEF CInv, SaidIsTrue, AttemptMatchesSession, stripe
<1>11. TypeOK'
  BY <1>1, <1>2, <1>4, <1>6
     DEF TypeOK, RequestTypes, RecordTypes, LInv, Inserted, stripe
<1> QED
  BY <1>2, <1>6, <1>7, <1>8, <1>9, <1>10, <1>11 DEF CInv

(* An update of existing rows that revives none takes nothing away from a  *)
(* request that does not move.                                             *)
LEMMA UpdateKeeps ==
    ASSUME CInv, NEW q \in Requests,
           /\ pc'[q] = pc[q] /\ ord'[q] = ord[q] /\ key'[q] = key[q] /\ pays'[q] = pays[q]
           /\ cur'[q] = cur[q] /\ fresh'[q] = fresh[q] /\ has'[q] = has[q],
           \A s \in Requests \ {q} :
              \/ fresh'[s] = {}
              \/ fresh'[s] = fresh[s] /\ ord'[s] = ord[s] /\ key'[s] = key[s] /\ pays'[s] = pays[s],
           keyOf' = keyOf, saved \subseteq saved', session' = session,
           \A a \in Attempts : /\ att'[a] = "absent" <=> att[a] = "absent"
                               /\ AttemptActive(a)' => AttemptActive(a),
           \A p \in Payments : /\ pay'[p] = "absent" <=> pay[p] = "absent"
                               /\ PaymentActive(p)' => PaymentActive(p)
    PROVE  Request(q)'
<1>1. Holding(q) /\ HoldsPayment(q) /\ HoldsAttempt(q) /\ KnowsAttempt(q)
  BY DEF CInv, Request
<1>2. Holding(q)'
  BY <1>1 DEF Holding
<1>3. HoldsPayment(q)'
  BY <1>1 DEF HoldsPayment, Holding
<1>4. HoldsAttempt(q)'
  BY <1>1 DEF HoldsAttempt
<1>5. KnowsAttempt(q)'
  BY <1>1 DEF KnowsAttempt
<1> QED
  BY <1>2, <1>3, <1>4, <1>5 DEF Request

(* SaveSession puts the session on record of an attempt that is still      *)
(* created, or finds it there, and answers with it.                        *)
LEMMA SaveCInv ==
    ASSUME CInv, NEW r \in Requests, pc[r] = "save", Over(r), UNCHANGED stripe,
           \/ Saves(r) /\ (Answer(r) \/ UNCHANGED answered)
           \/ cur[r] \in saved /\ UNCHANGED <<ledger, rows>> /\ Answer(r)
    PROVE  CInv'
<1>1. RequestTypes /\ RecordTypes /\ LedgerTypeOK /\ Request(r)
  BY TypeParts DEF CInv
<1>2. /\ cur[r] \in Attempts /\ att[cur[r]] # "absent" /\ keyOf[cur[r]] = key[r]
      /\ OrderOf[PaymentOf[cur[r]]] = ord[r] /\ ord[r] \in Orders /\ key[r] \in Keys
  BY <1>1 DEF Request, Holding, KnowsAttempt
<1>3. LInv'
  <2>1. Saves(r) => AttachSession(cur[r])
    BY DEF Saves, AttachSession
  <2> QED BY <1>2, <2>1, NextLInv DEF CInv, LedgerNext, CheckoutStep
<1>4. /\ keyOf' = keyOf /\ pay' = pay /\ saved' = saved \cup {cur[r]}
      /\ \A a \in Attempts :
            att'[a] = att[a] \/ (att[a] = "created" /\ att'[a] = "pending")
  <2>1. CASE Saves(r)
    <3>1. keyOf' = keyOf /\ pay' = pay /\ saved' = saved \cup {cur[r]}
      BY <2>1 DEF Saves
    <3>2. att' = [att EXCEPT ![cur[r]] = "pending"] /\ att[cur[r]] = "created"
      BY <2>1 DEF Saves
    <3> QED BY <1>1, <1>2, <3>1, <3>2 DEF LedgerTypeOK
  <2>2. CASE cur[r] \in saved /\ UNCHANGED <<ledger, rows>>
    <3>1. saved = saved \cup {cur[r]}
      BY <2>2
    <3>2. keyOf' = keyOf /\ pay' = pay /\ att' = att /\ saved' = saved
      BY <2>2 DEF ledger, rows
    <3> QED BY <3>1, <3>2
  <2> QED BY <2>1, <2>2
<1>5. RequestTypes' /\ OnlyMoves(r) /\ Request(r)' /\ fresh'[r] = {}
  BY <1>1, OverEffect
<1>6. ASSUME NEW q \in Requests \ {r} PROVE Request(q)'
  <2>1. \A s \in Requests \ {q} :
           \/ fresh'[s] = {}
           \/ fresh'[s] = fresh[s] /\ ord'[s] = ord[s] /\ key'[s] = key[s] /\ pays'[s] = pays[s]
    BY <1>5 DEF OnlyMoves
  <2>2. \A a \in Attempts : /\ att'[a] = "absent" <=> att[a] = "absent"
                            /\ AttemptActive(a)' => AttemptActive(a)
    BY <1>4 DEF AttemptActive
  <2>3. \A p \in Payments : /\ pay'[p] = "absent" <=> pay[p] = "absent"
                            /\ PaymentActive(p)' => PaymentActive(p)
    BY <1>4 DEF PaymentActive
  <2>4. /\ pc'[q] = pc[q] /\ ord'[q] = ord[q] /\ key'[q] = key[q] /\ pays'[q] = pays[q]
        /\ cur'[q] = cur[q] /\ fresh'[q] = fresh[q] /\ has'[q] = has[q]
    BY <1>5 DEF OnlyMoves
  <2>5. saved \subseteq saved' /\ session' = session
    BY <1>4 DEF stripe
  <2> QED BY <1>4, <2>1, <2>2, <2>3, <2>4, <2>5, UpdateKeeps
<1>7. UniqueKey' /\ SaidIsTrue' /\ AttemptMatchesSession'
  BY <1>4 DEF CInv, UniqueKey, SaidIsTrue, AttemptMatchesSession, stripe
<1>8. /\ AnswersOnRecord'
      /\ answered' \subseteq [key : Keys, order : Orders, attempt : Attempts]
  <2>1. \/ answered' = answered
        \/ answered' = answered \cup {[key |-> key[r], order |-> ord[r], attempt |-> cur[r]]}
    BY DEF Answer
  <2> QED BY <1>1, <1>2, <1>4, <2>1 DEF CInv, AnswersOnRecord, RecordTypes
<1>9. TypeOK'
  BY <1>1, <1>2, <1>3, <1>4, <1>5, <1>8 DEF TypeOK, RequestTypes, RecordTypes, LInv, stripe
<1> QED
  BY <1>3, <1>5, <1>6, <1>7, <1>8, <1>9 DEF CInv

(* The consumer moves an open attempt the way its session went.            *)
LEMMA ConsumeCInv ==
    ASSUME CInv, NEW a \in Attempts, NEW event \in Events, Consume(a, event)
    PROVE  CInv'
<1> DEFINE oc == Interpret(event)
<1>1. /\ oc \in Outcomes /\ ApplyOutcome(a, oc) /\ event \in said[a]
      /\ UNCHANGED <<rows, stripe, request, answered>>
  BY Meaning DEF Consume
<1>2. LInv /\ LInv' /\ LedgerTypeOK
  BY <1>1, NextLInv DEF CInv, LedgerNext, LInv
<1> HIDE DEF oc
<1>3. \/ oc = "succeeded" /\ Succeeds(a)
      \/ oc = "pending" /\ StartsProcessing(a)
      \/ oc = "failed" /\ Fails(a)
      \/ oc = "expired" /\ Expires(a)
  BY <1>1, <1>2, Effects
<1>4. /\ att[a] \in {"created", "pending"}
      /\ pay[PaymentOf[a]] \in {"pending", "processing"}
      /\ \A b \in Attempts : b # a => att'[b] = att[b]
      /\ att'[a] \in {att[a], oc} /\ att'[a] # "absent"
      /\ \A p \in Payments : p # PaymentOf[a] => pay'[p] = pay[p]
      /\ pay'[PaymentOf[a]] # "absent"
  BY <1>2, <1>3, ForeignKeys DEF Succeeds, StartsProcessing, Fails, Expires, LedgerTypeOK
<1>5. ASSUME NEW q \in Requests PROVE Request(q)'
  <2>1. \A b \in Attempts : /\ att'[b] = "absent" <=> att[b] = "absent"
                            /\ AttemptActive(b)' => AttemptActive(b)
    BY <1>4 DEF AttemptActive
  <2>2. \A p \in Payments : /\ pay'[p] = "absent" <=> pay[p] = "absent"
                            /\ PaymentActive(p)' => PaymentActive(p)
    BY <1>4, ForeignKeys DEF PaymentActive
  <2>3. /\ pc' = pc /\ ord' = ord /\ key' = key /\ pays' = pays /\ cur' = cur
        /\ fresh' = fresh /\ has' = has /\ keyOf' = keyOf /\ saved' = saved
        /\ session' = session
    BY <1>1 DEF request, rows, stripe
  <2> QED BY <2>1, <2>2, <2>3, UpdateKeeps
<1>6. UniqueKey' /\ AnswersOnRecord' /\ SaidIsTrue'
  <2>1. answered \subseteq [key : Keys, order : Orders, attempt : Attempts]
    BY TypeParts DEF CInv, RecordTypes
  <2> QED
    BY <1>1, <1>4, <2>1 DEF CInv, UniqueKey, AnswersOnRecord, SaidIsTrue, rows, stripe
<1>7. AttemptMatchesSession'
  <2>1. /\ oc = "succeeded" => session[a] = "paid"
        /\ oc \in {"failed", "expired"} => session[a] = oc
    BY <1>1 DEF CInv, SaidIsTrue, oc
  <2> QED
    BY <1>1, <1>4, <2>1 DEF CInv, AttemptMatchesSession, stripe
<1>8. TypeOK'
  BY <1>1, <1>2 DEF CInv, TypeOK, LInv, rows, stripe, request
<1> QED
  BY <1>2, <1>5, <1>6, <1>7, <1>8 DEF CInv

(* The invariant is inductive.                                             *)
LEMMA NextCInv == CInv /\ [Next]_vars => CInv'
<1> SUFFICES ASSUME CInv, [Next]_vars PROVE CInv'
  OBVIOUS
<1>1. ASSUME NEW r \in Requests, RequestStep(r) PROVE CInv'
  <2>1. CASE \E o \in Orders, k \in Keys : Begin(r, o, k)
    BY <2>1, BeginCInv
  <2>2. CASE Lookup(r) \/ TryPayment(r) \/ GetActivePayment(r) \/ TryAttempt(r) \/ Refind(r)
    BY <2>2, LookupCInv, TryPaymentCInv, GetActivePaymentCInv, TryAttemptCInv, RefindCInv
  <2>3. CASE Commit(r) \/ CommitReplyLost(r)
    BY <2>3, InsertedCInv DEF Commit, CommitReplyLost
  <2>4. CASE Prepared(r) \/ Attach(r)
    BY <2>4, PreparedCInv, AttachCInv
  <2>5. CASE CallProvider(r) \/ ProviderReplyLost(r)
    BY <2>5, OpenedCInv DEF CallProvider, ProviderReplyLost
  <2>6. CASE SaveSession(r) \/ SaveReplyLost(r)
    <3>1. CASE UNCHANGED <<ledger, rows, answered>>
      BY <2>6, <3>1, OverCInv DEF SaveSession, SaveReplyLost
    <3>2. CASE ~UNCHANGED <<ledger, rows, answered>>
      BY <2>6, <3>2, SaveCInv DEF SaveSession, SaveReplyLost
    <3> QED BY <3>1, <3>2
  <2>7. CASE Abort(r)
    BY <2>7, OverCInv DEF Abort
  <2> QED
    BY <1>1, <2>1, <2>2, <2>3, <2>4, <2>5, <2>6, <2>7 DEF RequestStep
<1>2. ASSUME NEW a \in Attempts, Customer(a) PROVE CInv'
  BY <1>2, CustomerCInv
<1>3. ASSUME NEW a \in Attempts, NEW event \in Events, Consume(a, event) PROVE CInv'
  BY <1>3, ConsumeCInv
<1>4. CASE UNCHANGED vars
  <2>1. ASSUME NEW r \in Requests PROVE Request(r)'
    <3>1. Request(r)
      BY DEF CInv
    <3> QED BY <1>4, <3>1 DEF vars, ledger, rows, stripe, request, Request, Holding,
               HoldsPayment, HoldsAttempt, KnowsAttempt, PaymentActive, AttemptActive
  <2>2. LInv' /\ UniqueKey' /\ AnswersOnRecord' /\ SaidIsTrue' /\ AttemptMatchesSession'
    BY <1>4, StutterLInv DEF CInv, vars, ledger, rows, stripe, UniqueKey, AnswersOnRecord,
       SaidIsTrue, AttemptMatchesSession
  <2>3. TypeOK'
    BY <1>4 DEF CInv, TypeOK, LedgerTypeOK, vars, ledger, rows, stripe, request
  <2> QED BY <2>1, <2>2, <2>3 DEF CInv
<1> QED
  BY <1>1, <1>2, <1>3, <1>4 DEF Next

-----------------------------------------------------------------------------
(* The theorems.                                                           *)

(* The invariant holds in every reachable state.                           *)
THEOREM CheckoutInvariance == Spec => []CInv
  BY InitCInv, NextCInv, PTL DEF Spec

(* Every variable keeps its type.                                          *)
THEOREM CheckoutTypes == Spec => []TypeOK
<1>1. CInv => TypeOK
  BY DEF CInv
<1> QED
  BY <1>1, CheckoutInvariance, PTL

(* Every step of a request, of the provider or of the consumer is one of   *)
(* the ledger's transactions, or invisible to it.                          *)
LEMMA StepIsLedgerStep ==
    ASSUME CInv, [Next]_vars
    PROVE  [LedgerNext]_ledger
<1>1. ASSUME NEW r \in Requests, RequestStep(r) PROVE LedgerNext \/ UNCHANGED ledger
  <2>1. CASE \E o \in Orders, k \in Keys : Begin(r, o, k)
    BY <2>1 DEF Begin
  <2>2. CASE Lookup(r) \/ TryPayment(r) \/ GetActivePayment(r) \/ TryAttempt(r) \/ Refind(r)
    BY <2>2 DEF Lookup, TryPayment, GetActivePayment, TryAttempt, Refind
  <2>3. CASE Commit(r) \/ CommitReplyLost(r)
    BY <2>3, InsertedIsLedgerStep DEF Commit, CommitReplyLost
  <2>4. CASE \/ Prepared(r) \/ Attach(r) \/ CallProvider(r) \/ ProviderReplyLost(r)
             \/ Abort(r)
    BY <2>4 DEF Prepared, Attach, CallProvider, ProviderReplyLost, Abort
  <2>5. CASE SaveSession(r) \/ SaveReplyLost(r)
    <3>1. cur[r] \in Attempts
      BY <2>5 DEF CInv, Request, Holding, KnowsAttempt, SaveSession, SaveReplyLost
    <3>2. Saves(r) => AttachSession(cur[r])
      BY DEF Saves, AttachSession
    <3> QED
      BY <2>5, <3>1, <3>2 DEF SaveSession, SaveReplyLost, LedgerNext, CheckoutStep
  <2> QED
    BY <1>1, <2>1, <2>2, <2>3, <2>4, <2>5 DEF RequestStep
<1>2. ASSUME NEW a \in Attempts, Customer(a) PROVE UNCHANGED ledger
  BY <1>2 DEF Customer, SessionMoves
<1>3. ASSUME NEW a \in Attempts, NEW event \in Events, Consume(a, event) PROVE LedgerNext
  BY <1>3, Meaning DEF Consume, LedgerNext
<1>4. CASE UNCHANGED vars
  BY <1>4 DEF vars
<1> QED
  BY <1>1, <1>2, <1>3, <1>4 DEF Next

(* Statement by statement, with reads that take no lock and a provider     *)
(* call in the middle, checkout still changes the aggregate only by the    *)
(* transactions Ledger describes.                                          *)
THEOREM CheckoutImplementsLedger == Spec => ImplementsLedger
<1>1. Init => LedgerInit
  BY DEF Init
<1>2. CInv /\ [Next]_vars => [LedgerNext]_ledger
  BY StepIsLedgerStep
<1> QED
  BY <1>1, <1>2, CheckoutInvariance, PTL DEF Spec, ImplementsLedger, LedgerSpec

(* Two concurrent checkouts never open two sessions of one payment that    *)
(* could both be paid: a payable session belongs to an active attempt, and *)
(* the partial unique index allows one.                                    *)
THEOREM OneSession == Spec => []OneSessionPerPayment
<1>1. CInv => OneSessionPerPayment
  <2> SUFFICES ASSUME CInv, NEW a \in Attempts, NEW b \in Attempts,
                      PaymentOf[a] = PaymentOf[b], Chargeable(a), Chargeable(b)
               PROVE  a = b
    BY DEF OneSessionPerPayment
  <2>1. ASSUME NEW c \in Attempts, Chargeable(c) PROVE AttemptActive(c)
    BY <2>1 DEF CInv, LInv, LedgerTypeOK, SaidIsTrue, AttemptMatchesSession, Chargeable,
       AttemptActive
  <2> QED BY <2>1 DEF CInv, LInv, OneActiveAttempt
<1> QED
  BY <1>1, CheckoutInvariance, PTL

(* All answers to an idempotency key name one session.                     *)
THEOREM OneSessionPerKey == Spec => []SameKeySameSession
<1>1. CInv => SameKeySameSession
  <2>1. CInv => answered \subseteq [key : Keys, order : Orders, attempt : Attempts]
    BY DEF CInv, TypeOK
  <2> QED BY <2>1 DEF CInv, AnswersOnRecord, UniqueKey, SameKeySameSession
<1> QED
  BY <1>1, CheckoutInvariance, PTL

(* A customer is sent to a recorded session of the order the request       *)
(* named, when two orders race with one key, too.                          *)
THEOREM OwnOrder == Spec => []AnswersOwnOrder
<1>1. CInv => AnswersOwnOrder
  BY DEF CInv, AnswersOnRecord, AnswersOwnOrder
<1> QED
  BY <1>1, CheckoutInvariance, PTL

(* The books say of an attempt what became of its session, and no order is *)
(* paid unless the provider took the money.                                *)
THEOREM BooksMatch == Spec => []BooksMatchProvider
<1>1. ASSUME CInv PROVE BooksMatchProvider
  <2>1. ASSUME NEW o \in Orders, order[o] = "paid"
        PROVE  \E a \in Attempts : OrderOf[PaymentOf[a]] = o /\ session[a] = "paid"
    <3>1. PICK p \in Payments : OrderOf[p] = o /\ pay[p] = "succeeded"
      BY <1>1, <2>1 DEF CInv, LInv, PaidIffSucceeded
    <3>2. PICK a \in Attempts : PaymentOf[a] = p /\ att[a] = "succeeded"
      BY <1>1, <3>1 DEF CInv, LInv, AttemptsExplainPayment
    <3> QED BY <1>1, <3>1, <3>2 DEF CInv, AttemptMatchesSession
  <2> QED BY <1>1, <2>1 DEF CInv, AttemptMatchesSession, BooksMatchProvider
<1> QED
  BY <1>1, CheckoutInvariance, PTL

(* So no order has two payments live or charged while requests run.        *)
THEOREM CheckoutPays == Spec => [](PaidIffSucceeded /\ OneCharge)
<1>1. CInv => PaidIffSucceeded /\ OneCharge
  BY DEF CInv, LInv, OneCharge
<1> QED
  BY <1>1, CheckoutInvariance, PTL
=============================================================================
