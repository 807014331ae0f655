------------------------------ MODULE Checkout ------------------------------
(***************************************************************************)
(* POST /v1/orders/{orderId}/checkout, step by step: CreateCheckout reads  *)
(* the order, prepareCheckout runs its statements in one READ COMMITTED    *)
(* transaction, the provider is called with no transaction open, and       *)
(* SaveSession records the answer.  Any number of requests and the         *)
(* consumer's transactions run in between.                                 *)
(*                                                                         *)
(* The provider returns the same session for the same idempotency key, and *)
(* a key has one attempt, so a session is named by its attempt.  Rows a    *)
(* transaction inserted but did not commit are in fresh: a conflicting     *)
(* insert waits for them, as ON CONFLICT DO NOTHING does.                  *)
(***************************************************************************)
EXTENDS Ledger, Stripe, FiniteSets

CONSTANTS
    Keys,        \* Idempotency-Key values
    Requests,    \* request handlers, one request at a time each
    None         \* nothing in hand; no key

ASSUME CheckoutAssumption ==
    None \notin Keys \cup Payments \cup Attempts

VARIABLES
    keyOf,       \* payment_attempts.idempotency_key
    saved,       \* attempts whose provider_session_id is set
    session,     \* the provider's session of each attempt
    said,        \* events the provider has sent of it
    pc,          \* where each request is
    ord, key,    \* its order and idempotency key
    pays, cur,   \* its payment and its attempt
    fresh,       \* which of the two it has inserted and not committed
    has,         \* HasSession of the attempt, as it was read
    answered     \* history: attempts returned, for which key and order

rows    == <<keyOf, saved>>
stripe  == <<session, said>>
request == <<pc, ord, key, pays, cur, fresh, has>>
vars    == <<ledger, rows, stripe, request, answered>>

Sessions == {"none", "open", "awaiting", "paid", "failed", "expired"}
PCs == {"idle", "lookup", "payment", "find", "attempt", "refind", "commit",
        "prepared", "provider", "attach", "save"}

(* The events of a session, and its payment_status at the time.            *)
Event(type, status) == [type |-> type, status |-> status]
Events ==
    {Event("completed", "paid"), Event("completed", "unpaid"), Event("expired", "unpaid"),
     Event("async_payment_succeeded", "paid"), Event("async_payment_failed", "unpaid")}

TypeOK ==
    /\ LedgerTypeOK
    /\ keyOf \in [Attempts -> Keys \cup {None}] /\ saved \subseteq Attempts
    /\ session \in [Attempts -> Sessions] /\ said \in [Attempts -> SUBSET Events]
    /\ pc \in [Requests -> PCs]
    /\ ord \in [Requests -> Orders \cup {None}] /\ key \in [Requests -> Keys \cup {None}]
    /\ pays \in [Requests -> Payments \cup {None}]
    /\ cur \in [Requests -> Attempts \cup {None}]
    /\ fresh \in [Requests -> SUBSET {"payment", "attempt"}]
    /\ has \in [Requests -> BOOLEAN]
    /\ answered \subseteq [key : Keys, order : Orders, attempt : Attempts]

Init ==
    /\ LedgerInit
    /\ keyOf = [a \in Attempts |-> None] /\ saved = {}
    /\ session = [a \in Attempts |-> "none"] /\ said = [a \in Attempts |-> {}]
    /\ pc = [r \in Requests |-> "idle"]
    /\ ord = [r \in Requests |-> None] /\ key = [r \in Requests |-> None]
    /\ pays = [r \in Requests |-> None] /\ cur = [r \in Requests |-> None]
    /\ fresh = [r \in Requests |-> {}]
    /\ has = [r \in Requests |-> FALSE]
    /\ answered = {}

-----------------------------------------------------------------------------
(* What a statement of request r sees: committed rows.                     *)

ByKey(k) == {a \in Attempts : att[a] # "absent" /\ keyOf[a] = k}
ActivePayments(o) == {p \in Payments : OrderOf[p] = o /\ PaymentActive(p)}
HasSession(a) == att[a] = "pending" /\ a \in saved

(* Inserts of other transactions that r's insert would have to wait for.   *)
PaymentBusy(r) ==
    \E q \in Requests \ {r} : "payment" \in fresh[q] /\ ord[q] = ord[r]
AttemptBusy(r) ==
    \E q \in Requests \ {r} :
        "attempt" \in fresh[q] /\ (key[q] = key[r] \/ pays[q] = pays[r])

(* Ids are generated anew for every request.                               *)
Unused(i, taken) == \A q \in Requests : taken[q] # i

At(r, p) == pc' = [pc EXCEPT ![r] = p]

(* The request is over, with whatever answer; an open transaction is gone. *)
Over(r) ==
    /\ At(r, "idle")
    /\ ord' = [ord EXCEPT ![r] = None] /\ key' = [key EXCEPT ![r] = None]
    /\ pays' = [pays EXCEPT ![r] = None] /\ cur' = [cur EXCEPT ![r] = None]
    /\ fresh' = [fresh EXCEPT ![r] = {}]
    /\ has' = [has EXCEPT ![r] = FALSE]

Answer(r) ==
    answered' = answered \cup {[key |-> key[r], order |-> ord[r], attempt |-> cur[r]]}

-----------------------------------------------------------------------------
(* CreateCheckout up to the transaction.                                   *)

(* The order is read and must be pending; ErrOrderNotPayable changes       *)
(* nothing.                                                                *)
Begin(r, o, k) ==
    /\ pc[r] = "idle"
    /\ order[o] = "pending"
    /\ At(r, "lookup")
    /\ ord' = [ord EXCEPT ![r] = o] /\ key' = [key EXCEPT ![r] = k]
    /\ UNCHANGED <<ledger, rows, stripe, pays, cur, fresh, has, answered>>

(* Bug: the attempt of the key is taken whichever order it belongs to.     *)
foundAnyOrder(r, next) ==
    \E a \in ByKey(key[r]) :
        /\ At(r, next)
        /\ cur' = [cur EXCEPT ![r] = a]
        /\ has' = [has EXCEPT ![r] = HasSession(a)]
        /\ UNCHANGED <<ord, key, pays, fresh>>

(* findAttemptByKey finds the key's attempt: it is taken as it is, unless  *)
(* it belongs to another order (ErrIdempotencyKeyConflict: rolled back).   *)
Found(r, next) ==
    \E a \in ByKey(key[r]) :
        \/ /\ OrderOf[PaymentOf[a]] = ord[r]
           /\ At(r, next)
           /\ cur' = [cur EXCEPT ![r] = a]
           /\ has' = [has EXCEPT ![r] = HasSession(a)]
           /\ UNCHANGED <<ord, key, pays, fresh>>
        \/ OrderOf[PaymentOf[a]] # ord[r] /\ Over(r)

Lookup(r) ==
    /\ pc[r] = "lookup"
    /\ \/ Found(r, "prepared")
       \/ /\ ByKey(key[r]) = {}
          /\ At(r, "payment")
          /\ UNCHANGED <<ord, key, pays, cur, fresh, has>>
    /\ UNCHANGED <<ledger, rows, stripe, answered>>

(* createOrGetActivePayment: INSERT ... ON CONFLICT DO NOTHING.            *)
TryPayment(r) ==
    /\ pc[r] = "payment"
    /\ ~PaymentBusy(r)
    /\ \/ /\ ActivePayments(ord[r]) = {}
          /\ \E p \in Payments :
                /\ OrderOf[p] = ord[r] /\ pay[p] = "absent" /\ Unused(p, pays)
                /\ pays' = [pays EXCEPT ![r] = p]
          /\ fresh' = [fresh EXCEPT ![r] = {"payment"}]
          /\ At(r, "attempt")
       \/ /\ ActivePayments(ord[r]) # {}
          /\ At(r, "find")
          /\ UNCHANGED <<pays, fresh>>
    /\ UNCHANGED <<ledger, rows, stripe, ord, key, cur, has, answered>>

(* createOrGetActivePayment: SELECT without a lock.  When the payment has  *)
(* failed since the insert there is none, and the request fails.           *)
GetActivePayment(r) ==
    /\ pc[r] = "find"
    /\ \/ \E p \in ActivePayments(ord[r]) :
             /\ pays' = [pays EXCEPT ![r] = p]
             /\ At(r, "attempt")
             /\ UNCHANGED <<ord, key, cur, fresh, has>>
       \/ ActivePayments(ord[r]) = {} /\ Over(r)
    /\ UNCHANGED <<ledger, rows, stripe, answered>>

(* Bug: no index on the payment's active attempt.                          *)
keyConflictOnly(r) == ByKey(key[r]) # {}

(* Bug: no index on the idempotency key.                                   *)
paymentConflictOnly(r) ==
    \E b \in Attempts : PaymentOf[b] = pays[r] /\ AttemptActive(b)

(* Would the attempt's insert meet its key, or another active attempt?     *)
AttemptConflict(r) ==
    \/ ByKey(key[r]) # {}
    \/ \E b \in Attempts : PaymentOf[b] = pays[r] /\ AttemptActive(b)

TryAttempt(r) ==
    /\ pc[r] = "attempt"
    /\ ~AttemptBusy(r)
    /\ \/ /\ ~AttemptConflict(r)
          /\ \E a \in Attempts :
                /\ PaymentOf[a] = pays[r] /\ att[a] = "absent" /\ Unused(a, cur)
                /\ cur' = [cur EXCEPT ![r] = a]
          /\ fresh' = [fresh EXCEPT ![r] = @ \cup {"attempt"}]
          /\ At(r, "commit")
       \/ /\ AttemptConflict(r)
          /\ At(r, "refind")
          /\ UNCHANGED <<cur, fresh>>
    /\ UNCHANGED <<ledger, rows, stripe, ord, key, pays, has, answered>>

(* The insert did nothing: the key's attempt, or ErrCheckoutInProgress.    *)
Refind(r) ==
    /\ pc[r] = "refind"
    /\ Found(r, "commit") \/ (ByKey(key[r]) = {} /\ Over(r))
    /\ UNCHANGED <<ledger, rows, stripe, answered>>

(* COMMIT makes the inserted rows visible.                                 *)
Inserted(r) ==
    /\ pay' = IF "payment" \in fresh[r] THEN [pay EXCEPT ![pays[r]] = "pending"] ELSE pay
    /\ att' = IF "attempt" \in fresh[r] THEN [att EXCEPT ![cur[r]] = "created"] ELSE att
    /\ keyOf' = IF "attempt" \in fresh[r] THEN [keyOf EXCEPT ![cur[r]] = key[r]] ELSE keyOf
    /\ UNCHANGED <<order, saved>>

Commit(r) ==
    /\ pc[r] = "commit"
    /\ Inserted(r)
    /\ At(r, "prepared")
    /\ fresh' = [fresh EXCEPT ![r] = {}]
    /\ UNCHANGED <<stripe, ord, key, pays, cur, has, answered>>

CommitReplyLost(r) ==
    /\ pc[r] = "commit"
    /\ Inserted(r)
    /\ Over(r)
    /\ UNCHANGED <<stripe, answered>>

-----------------------------------------------------------------------------
(* CreateCheckout after the transaction.                                   *)

(* An attempt read with its session is returned without a provider call.   *)
Prepared(r) ==
    /\ pc[r] = "prepared"
    /\ \/ has[r] /\ Answer(r) /\ Over(r)
       \/ /\ ~has[r] /\ At(r, "provider")
          /\ UNCHANGED <<ord, key, pays, cur, fresh, has, answered>>
    /\ UNCHANGED <<ledger, rows, stripe>>

(* The provider opens the session, or returns the one of the same key.     *)
Opened(r) ==
    /\ session' = [session EXCEPT ![cur[r]] = IF @ = "none" THEN "open" ELSE @]
    /\ UNCHANGED said

CallProvider(r) ==
    /\ pc[r] = "provider"
    /\ Opened(r)
    /\ At(r, "attach")
    /\ UNCHANGED <<ledger, rows, ord, key, pays, cur, fresh, has, answered>>

(* It opened the session, but the call ends in an error or a timeout.      *)
ProviderReplyLost(r) ==
    /\ pc[r] = "provider"
    /\ Opened(r)
    /\ Over(r)
    /\ UNCHANGED <<ledger, rows, answered>>

(* AttachSession refuses a session past its expiry, and one that ended in  *)
(* another way may be past it too.                                         *)
Attach(r) ==
    /\ pc[r] = "attach"
    /\ \/ /\ session[cur[r]] # "expired"
          /\ At(r, "save")
          /\ UNCHANGED <<ord, key, pays, cur, fresh, has>>
       \/ session[cur[r]] # "open" /\ Over(r)
    /\ UNCHANGED <<ledger, rows, stripe, answered>>

(* SaveSession's UPDATE matches while the attempt is still created.        *)
Saves(r) ==
    /\ att[cur[r]] = "created"
    /\ att' = [att EXCEPT ![cur[r]] = "pending"]
    /\ saved' = saved \cup {cur[r]}
    /\ UNCHANGED <<order, pay, keyOf>>

(* Saved, or saved before with the same session; an attempt settled before *)
(* its session was saved is an error.                                      *)
SaveSession(r) ==
    /\ pc[r] = "save"
    /\ \/ (Saves(r) \/ (att[cur[r]] # "created" /\ cur[r] \in saved /\ UNCHANGED <<ledger, rows>>))
             /\ Answer(r)
       \/ att[cur[r]] # "created" /\ cur[r] \notin saved /\ UNCHANGED <<ledger, rows, answered>>
    /\ Over(r)
    /\ UNCHANGED stripe

SaveReplyLost(r) ==
    /\ pc[r] = "save"
    /\ Saves(r)
    /\ Over(r)
    /\ UNCHANGED <<stripe, answered>>

(* Any other failure: a statement fails or times out and the transaction   *)
(* is rolled back, the provider is not reached, or the process dies.       *)
Abort(r) ==
    /\ pc[r] # "idle"
    /\ Over(r)
    /\ UNCHANGED <<ledger, rows, stripe, answered>>

-----------------------------------------------------------------------------
(* The customer, the provider and the consumer.                            *)

(* The customer pays by card, or promises a delayed payment that settles   *)
(* either way; or the session expires.                                     *)
SessionMoves(a, from, to, event) ==
    /\ session[a] = from
    /\ session' = [session EXCEPT ![a] = to]
    /\ said' = [said EXCEPT ![a] = @ \cup {event}]
    /\ UNCHANGED <<ledger, rows, request, answered>>

Customer(a) ==
    \/ SessionMoves(a, "open", "paid", Event("completed", "paid"))
    \/ SessionMoves(a, "open", "awaiting", Event("completed", "unpaid"))
    \/ SessionMoves(a, "open", "expired", Event("expired", "unpaid"))
    \/ SessionMoves(a, "awaiting", "paid", Event("async_payment_succeeded", "paid"))
    \/ SessionMoves(a, "awaiting", "failed", Event("async_payment_failed", "unpaid"))

(* The consumer applies what an event means, in any order and repeatedly.  *)
(* LockPaymentAggregate waits for a transaction whose new attempt refers   *)
(* to the payment.                                                         *)
Consume(a, event) ==
    /\ event \in said[a]
    /\ \A r \in Requests : "attempt" \in fresh[r] => pays[r] # PaymentOf[a]
    /\ ApplyOutcome(a, Interpret(event))
    /\ UNCHANGED <<rows, stripe, request, answered>>

RequestStep(r) ==
    \/ \E o \in Orders, k \in Keys : Begin(r, o, k)
    \/ Lookup(r) \/ TryPayment(r) \/ GetActivePayment(r) \/ TryAttempt(r) \/ Refind(r)
    \/ Commit(r) \/ CommitReplyLost(r)
    \/ Prepared(r) \/ CallProvider(r) \/ ProviderReplyLost(r) \/ Attach(r)
    \/ SaveSession(r) \/ SaveReplyLost(r)
    \/ Abort(r)

Next ==
    \/ \E r \in Requests : RequestStep(r)
    \/ \E a \in Attempts : Customer(a) \/ \E event \in Events : Consume(a, event)

Spec == Init /\ [][Next]_vars

-----------------------------------------------------------------------------
(* Properties.                                                             *)

(* A session the customer can still pay, or has paid.                      *)
Chargeable(a) == session[a] \in {"open", "awaiting", "paid"}

(* Migration 00002: two concurrent checkouts "would otherwise open two     *)
(* provider sessions for one payment, and the customer could pay both".    *)
(* No payment ever has two sessions that are payable or paid, although the *)
(* session is opened outside any transaction.                              *)
OneSessionPerPayment ==
    \A a, b \in Attempts :
        (PaymentOf[a] = PaymentOf[b] /\ Chargeable(a) /\ Chargeable(b)) => a = b

(* "Replaying [...] with the same Idempotency-Key must return the existing *)
(* attempt instead of opening a second session": all answers to a key name *)
(* one session.                                                            *)
SameKeySameSession ==
    \A x, y \in answered : x.key = y.key => x.attempt = y.attempt

(* A customer is sent to a session of the order the request names, even    *)
(* when two orders race with one idempotency key (a key used for another   *)
(* order is refused), and to one that is on record, so that the events     *)
(* that name it are checked against it.                                    *)
AnswersOwnOrder ==
    \A x \in answered :
        x.attempt \in saved /\ OrderOf[PaymentOf[x.attempt]] = x.order

(* "Treating completion as payment would [...] mark an order paid without  *)
(* a payment": whatever the books say of an attempt is what became of its  *)
(* session, and no order is paid unless the provider took the money.       *)
BooksMatchProvider ==
    /\ \A a \in Attempts :
          /\ att[a] = "succeeded" => session[a] = "paid"
          /\ att[a] \in {"failed", "expired"} => session[a] = att[a]
    /\ \A o \in Orders : order[o] = "paid" =>
          \E a \in Attempts : OrderOf[PaymentOf[a]] = o /\ session[a] = "paid"

(* The statements and the late commit are one of Ledger's transactions.    *)
ImplementsLedger == LedgerSpec

(* Migration 00002: "a second payment can never be opened next to one that *)
(* is still running or already charged.  This is the database-level        *)
(* barrier against double charging": no order has two sessions that are    *)
(* payable or paid.                                                        *)
OneSessionPerOrder ==
    \A a, b \in Attempts :
        (/\ OrderOf[PaymentOf[a]] = OrderOf[PaymentOf[b]]
         /\ Chargeable(a) /\ Chargeable(b)) => a = b

=============================================================================
