-------------------------------- MODULE Api ---------------------------------
(***************************************************************************)
(* The HTTP API of one process: every request passes the same gate (rate   *)
(* limits, decoding, authentication) and then runs its operation statement *)
(* by statement against PostgreSQL, next to the other handlers.  A handler *)
(* fails at any statement, its answer may be lost, the process may die;    *)
(* the provider redelivers an event until it sees a 2xx.                   *)
(*                                                                         *)
(* The checkout operation is Checkout's subject and the limiters'          *)
(* decisions are RateLimit's: here a limiter may refuse anything it counts.*)
(* What the worker does to the rows (Outbox, Consumer) is two external     *)
(* steps.                                                                  *)
(***************************************************************************)
EXTENDS Orders, Stripe, FiniteSets

CONSTANTS
    Handlers,      \* requests served at the same time
    OrderRequests, \* bodies of POST /orders with their idempotency key
    Events,        \* events of the provider, one of each type
    MaxReplays     \* bound: replays of one event

ASSUME ApiAssumption == MaxReplays \in Nat

VARIABLES
    orders,   \* rows of orders
    inbox,    \* webhook_events.status by event, or "none"
    out,      \* outbox_events.status by event, or "none"
    replays,  \* webhook_events.replay_count
    pc,       \* the next statement of each handler
    req,      \* the request it serves
    ans,      \* its answer: the status, and the order it carries
    acked,    \* events the provider has seen a 2xx for
    told      \* ghost: orders clients were told of, and what they had asked

db == <<orders, inbox, out, replays>>
vars == <<db, pc, req, ans, acked, told>>

Keys == {r.key : r \in OrderRequests}
(* Events of a kind the application handles.                               *)
Handled == {e \in Events : eventKinds(e) # KindUnknown}

NoOrder == [id |-> 0, key |-> "", product |-> "", quantity |-> 0, amount |-> 0]

-----------------------------------------------------------------------------
(* Requests and the gate.                                                  *)

publicOperation(op) == op \in {"GetHealth", "ReceiveStripeWebhook"}

(* A request: what it asks for, whether its key is configured or, for the  *)
(* webhook, its signature verifies, and whether it can be decoded.         *)
Requests ==
    [op : {"GetHealth", "GetOrder", "ListWebhookEvents"}, arg : {NoOrder},
     genuine : BOOLEAN, decodable : BOOLEAN]
    \cup [op : {"CreateOrder"}, arg : OrderRequests, genuine : BOOLEAN, decodable : BOOLEAN]
    \cup [op : {"ReprocessWebhookEvent"}, arg : Events, genuine : BOOLEAN, decodable : {TRUE}]
    \cup [op : {"ReceiveStripeWebhook"}, arg : Events, genuine : BOOLEAN, decodable : BOOLEAN]

NoRequest == [op |-> "none", arg |-> NoOrder, genuine |-> FALSE, decodable |-> FALSE]

(* Before any operation: the limiter of the route's class, the decoding of *)
(* parameters and body (the webhook's is read raw, by its handler), the    *)
(* credential's limiter, the key.                                          *)
Refusals(r) ==
    {429} \cup (IF ~r.decodable /\ r.op # "ReceiveStripeWebhook" THEN {400, 413}
                ELSE IF ~publicOperation(r.op) /\ ~r.genuine THEN {401} ELSE {})

Admitted(r) == Refusals(r) = {429}

Answer(code) == [code |-> code, order |-> NoOrder]

(* The answer that ends an admitted request before its first statement, 0  *)
(* if there is none, and that statement.                                   *)
EarlyAnswer(r) ==
    CASE r.op = "CreateOrder" -> IF Priced(r.arg).code = 201 THEN 0 ELSE Priced(r.arg).code
      [] r.op = "ReceiveStripeWebhook" ->
            IF ~r.decodable THEN 500 ELSE IF ~r.genuine THEN 400 ELSE 0
      [] OTHER -> 0

FirstStatement(r) ==
    CASE r.op = "CreateOrder" -> "insertOrder"
      [] r.op = "ReprocessWebhookEvent" -> "lockEvent"
      [] r.op = "ReceiveStripeWebhook" -> "storeEvent"
      [] r.op = "GetOrder" -> "getOrder"
      [] r.op = "ListWebhookEvents" -> "listEvents"
      [] r.op = "GetHealth" -> "check"

Init ==
    /\ orders = {}
    /\ inbox = [e \in Events |-> "none"] /\ out = [e \in Events |-> "none"]
    /\ replays = [e \in Events |-> 0]
    /\ pc = [h \in Handlers |-> "idle"]
    /\ req = [h \in Handlers |-> NoRequest]
    /\ ans = [h \in Handlers |-> Answer(0)]
    /\ acked = {} /\ told = {}

Goto(h, label) == pc' = [pc EXCEPT ![h] = label] /\ UNCHANGED <<req, ans, acked, told>>

Idle(h) ==
    /\ pc' = [pc EXCEPT ![h] = "idle"]
    /\ req' = [req EXCEPT ![h] = NoRequest]
    /\ ans' = [ans EXCEPT ![h] = Answer(0)]

(* A success of an operation that writes is on its way to the client.  Any *)
(* other answer changes nothing there, whether it arrives or not.          *)
ReplyWith(h, a) ==
    /\ IF a.code \in {200, 201, 202} /\ req[h].op \in {"CreateOrder", "ReceiveStripeWebhook"}
       THEN /\ pc' = [pc EXCEPT ![h] = "reply"]
            /\ ans' = [ans EXCEPT ![h] = a]
            /\ UNCHANGED req
       ELSE Idle(h)
    /\ UNCHANGED <<acked, told>>

(* An admitted request with nothing to answer yet begins its operation; a  *)
(* refused one leaves no trace.                                            *)
Admit(h, r) ==
    /\ pc[h] = "idle"
    /\ Admitted(r) /\ EarlyAnswer(r) = 0
    /\ pc' = [pc EXCEPT ![h] = FirstStatement(r)]
    /\ req' = [req EXCEPT ![h] = r]
    /\ UNCHANGED <<db, ans, acked, told>>

-----------------------------------------------------------------------------
(* Orders.                                                                 *)

Owner(key) == {o \in orders : o.key = key}

(* INSERT ... ON CONFLICT DO NOTHING; when the row went in but the         *)
(* answer did not come back, the request fails and the row stays.          *)
InsertOrder(h, ok) ==
    LET r == req[h].arg
        row == [id |-> Cardinality(orders) + 1, key |-> r.key, product |-> r.product,
                quantity |-> r.quantity, amount |-> Priced(r).amount]
    IN
    /\ pc[h] = "insertOrder"
    /\ IF Owner(r.key) = {}
       THEN /\ orders' = orders \cup {row}
            /\ ReplyWith(h, IF ok THEN [code |-> 201, order |-> row] ELSE Answer(500))
       ELSE ok /\ Goto(h, "findOrder") /\ UNCHANGED orders
    /\ UNCHANGED <<inbox, out, replays>>

(* Bug: a replay is answered whatever it asks for.                         *)
replayAnything(h) ==
    /\ pc[h] = "findOrder"
    /\ \E o \in Owner(req[h].arg.key) : ReplyWith(h, [code |-> 201, order |-> o])
    /\ UNCHANGED db

(* The row that owns the key is the answer, unless another was asked for.  *)
FindOrder(h) ==
    LET r == req[h].arg IN
    /\ pc[h] = "findOrder"
    /\ \E o \in Owner(r.key) :
          ReplyWith(h, IF o.product = r.product /\ o.quantity = r.quantity
                       THEN [code |-> 201, order |-> o] ELSE Answer(409))
    /\ UNCHANGED db

(* The reads answer from committed rows and change nothing: the order or a *)
(* 404, the inbox rows of a status joined with their messages or a 400,    *)
(* the state of the dependencies.                                          *)
GetOrder(h) ==
    /\ pc[h] = "getOrder"
    /\ \E code \in {404} \cup {200 : o \in orders} : ReplyWith(h, Answer(code))
    /\ UNCHANGED db

ListWebhookEvents(h) ==
    /\ pc[h] = "listEvents"
    /\ \E code \in {200, 400} : ReplyWith(h, Answer(code))
    /\ UNCHANGED db

GetHealth(h) ==
    /\ pc[h] = "check"
    /\ \E code \in {200, 503} : ReplyWith(h, Answer(code))
    /\ UNCHANGED db

-----------------------------------------------------------------------------
(* Receiving an event.                                                     *)

(* Another transaction has inserted this event and not ended: the unique   *)
(* index makes the insert wait for it.                                     *)
Uncommitted(e) ==
    \E g \in Handlers : pc[g] \in {"insertMessage", "commitEvent"} /\ req[g].arg = e

(* Bug: the event is committed before its message is written.              *)
storeEventAlone(h, ok) ==
    LET e == req[h].arg IN
    /\ pc[h] = "storeEvent"
    /\ IF inbox[e] # "none" THEN ok /\ ReplyWith(h, Answer(200)) /\ UNCHANGED inbox
       ELSE IF e \notin Handled
       THEN inbox' = [inbox EXCEPT ![e] = "skipped"] /\ ReplyWith(h, Answer(IF ok THEN 200 ELSE 500))
       ELSE ok /\ inbox' = [inbox EXCEPT ![e] = "pending"] /\ Goto(h, "insertMessage")
    /\ UNCHANGED <<orders, out, replays>>

(* Bug: a redelivery is an error.                                          *)
duplicateIsError(h, ok) ==
    LET e == req[h].arg IN
    /\ pc[h] = "storeEvent"
    /\ ~Uncommitted(e)
    /\ IF inbox[e] # "none" THEN ok /\ ReplyWith(h, Answer(500)) /\ UNCHANGED inbox
       ELSE IF e \notin Handled
       THEN /\ inbox' = [inbox EXCEPT ![e] = "skipped"]
            /\ ReplyWith(h, Answer(IF ok THEN 200 ELSE 500))
       ELSE ok /\ Goto(h, "insertMessage") /\ UNCHANGED inbox
    /\ UNCHANGED <<orders, out, replays>>

(* A duplicate ends here, an unhandled kind is stored by itself, a handled *)
(* one goes on in its transaction.                                         *)
StoreEvent(h, ok) ==
    LET e == req[h].arg IN
    /\ pc[h] = "storeEvent"
    /\ ~Uncommitted(e)
    /\ IF inbox[e] # "none" THEN ok /\ ReplyWith(h, Answer(200)) /\ UNCHANGED inbox
       ELSE IF e \notin Handled
       THEN /\ inbox' = [inbox EXCEPT ![e] = "skipped"]
            /\ ReplyWith(h, Answer(IF ok THEN 200 ELSE 500))
       ELSE ok /\ Goto(h, "insertMessage") /\ UNCHANGED inbox
    /\ UNCHANGED <<orders, out, replays>>

InsertMessage(h) ==
    /\ pc[h] = "insertMessage"
    /\ Goto(h, "commitEvent")
    /\ UNCHANGED db

(* Bug: the answer is given before the transaction ends, which may fail.   *)
acceptBeforeCommit(h, ok) ==
    /\ pc[h] = "commitEvent"
    /\ \/ /\ inbox' = [inbox EXCEPT ![req[h].arg] = "pending"]
          /\ out' = [out EXCEPT ![req[h].arg] = "pending"]
       \/ UNCHANGED <<inbox, out>>
    /\ ReplyWith(h, Answer(202))
    /\ UNCHANGED <<orders, replays>>

(* Both rows, and a 202 unless the commit's answer is lost.                *)
CommitEvent(h, ok) ==
    /\ pc[h] = "commitEvent"
    /\ inbox' = [inbox EXCEPT ![req[h].arg] = "pending"]
    /\ out' = [out EXCEPT ![req[h].arg] = "pending"]
    /\ ReplyWith(h, Answer(IF ok THEN 202 ELSE 500))
    /\ UNCHANGED <<orders, replays>>

-----------------------------------------------------------------------------
(* Replaying one.                                                          *)

Replayable(e) ==
    /\ inbox[e] \in {"pending", "failed"}
    /\ inbox[e] = "failed" \/ out[e] = "failed"

(* Bug: SELECT without FOR UPDATE.                                         *)
noRowLocks(e) == FALSE

(* A replay holds the event's two rows.                                    *)
Locked(e) == \E g \in Handlers : pc[g] = "resetRows" /\ req[g].arg = e

(* Both rows are locked, then looked at.                                   *)
LockEvent(h) ==
    LET e == req[h].arg IN
    /\ pc[h] = "lockEvent"
    /\ ~Locked(e)
    /\ IF out[e] = "none" THEN ReplyWith(h, Answer(IF inbox[e] = "none" THEN 404 ELSE 409))
       ELSE IF ~Replayable(e) THEN ReplyWith(h, Answer(409))
       ELSE replays[e] < MaxReplays /\ Goto(h, "resetRows")
    /\ UNCHANGED db

(* The two updates and the commit.  A message the relay has not settled is *)
(* not reset: the transaction is rolled back.                              *)
ResetRows(h, ok) ==
    LET e == req[h].arg IN
    /\ pc[h] = "resetRows"
    /\ IF inbox[e] \in {"pending", "failed"} /\ out[e] \in {"published", "failed"}
       THEN /\ inbox' = [inbox EXCEPT ![e] = "pending"]
            /\ out' = [out EXCEPT ![e] = "pending"]
            /\ replays' = [replays EXCEPT ![e] = @ + 1]
            /\ ReplyWith(h, Answer(IF ok THEN 202 ELSE 500))
       ELSE ok /\ ReplyWith(h, Answer(500)) /\ UNCHANGED <<inbox, out, replays>>
    /\ UNCHANGED orders

-----------------------------------------------------------------------------
(* Failures, answers and the world outside.                                *)

(* A statement fails, its context ends or the handler panics: the deferred *)
(* rollback undoes the transaction and the client gets a 500.              *)
Fail(h) ==
    /\ pc[h] \notin {"idle", "reply"}
    /\ ReplyWith(h, Answer(500))
    /\ UNCHANGED db

(* The answer arrives.                                                     *)
Deliver(h) ==
    /\ pc[h] = "reply"
    /\ Idle(h)
    /\ acked' = IF req[h].op = "ReceiveStripeWebhook" /\ ans[h].code \in {200, 202}
                THEN acked \cup {req[h].arg} ELSE acked
    /\ told' = IF ans[h].code = 201
               THEN told \cup {[asked |-> req[h].arg, order |-> ans[h].order]} ELSE told
    /\ UNCHANGED db

AnswerLost(h) ==
    /\ pc[h] = "reply"
    /\ Idle(h)
    /\ UNCHANGED <<db, acked, told>>

(* The process dies, or a forced Close leaves its handlers behind:         *)
(* PostgreSQL rolls back what was not committed.                           *)
Crash ==
    /\ \E h \in Handlers : pc[h] # "idle"
    /\ pc' = [h \in Handlers |-> "idle"]
    /\ req' = [h \in Handlers |-> NoRequest]
    /\ ans' = [h \in Handlers |-> Answer(0)]
    /\ UNCHANGED <<db, acked, told>>

(* The relay leases a message and settles it; it does not wait for a row   *)
(* a replay has locked.                                                    *)
RelayMoves(e) ==
    /\ ~Locked(e)
    /\ \/ out[e] = "pending" /\ out' = [out EXCEPT ![e] = "publishing"]
       \/ out[e] = "publishing"
          /\ \E s \in {"pending", "published", "failed"} : out' = [out EXCEPT ![e] = s]
    /\ UNCHANGED <<orders, inbox, replays, pc, req, ans, acked, told>>

(* The consumer closes an event once the broker may have its message.  A   *)
(* copy that comes again may close it otherwise: a failed event is         *)
(* processed, and a failure is recorded whatever the row says.             *)
ConsumerCloses(e) ==
    /\ ~Locked(e)
    /\ inbox[e] \in {"pending", "processed", "failed"} /\ out[e] \in {"publishing", "published"}
    /\ \E s \in {"processed", "failed"} : inbox' = [inbox EXCEPT ![e] = s]
    /\ UNCHANGED <<orders, out, replays, pc, req, ans, acked, told>>

(* What a handler does next; ok says that PostgreSQL's answer to a         *)
(* statement that commits reaches it.                                      *)
Step(h, ok) ==
    \/ InsertOrder(h, ok) \/ StoreEvent(h, ok) \/ CommitEvent(h, ok) \/ ResetRows(h, ok)
    \/ ok /\ (FindOrder(h) \/ GetOrder(h) \/ ListWebhookEvents(h) \/ GetHealth(h)
             \/ InsertMessage(h) \/ LockEvent(h))

Next ==
    \/ \E h \in Handlers, r \in Requests : Admit(h, r)
    \/ \E h \in Handlers, ok \in BOOLEAN : Step(h, ok)
    \/ \E h \in Handlers : Fail(h) \/ Deliver(h) \/ AnswerLost(h)
    \/ Crash
    \/ \E e \in Events : RelayMoves(e) \/ ConsumerCloses(e)

Spec == Init /\ [][Next]_vars

(***************************************************************************)
(* Handlers are scheduled and their contexts have deadlines, so each goes  *)
(* on or fails; the provider sends an event again until it sees a 2xx, and *)
(* the limiter, which refills, does not refuse it every time.              *)
(***************************************************************************)
Redeliver(e) ==
    /\ e \notin acked
    /\ \E h \in Handlers : Admit(h, [op |-> "ReceiveStripeWebhook", arg |-> e,
                                     genuine |-> TRUE, decodable |-> TRUE])

Fairness ==
    /\ \A e \in Events : SF_vars(Redeliver(e))
    /\ \A h \in Handlers :
          /\ WF_vars(Fail(h) \/ \E ok \in BOOLEAN : Step(h, ok))
          /\ WF_vars(Deliver(h) \/ AnswerLost(h))

LiveSpec == Spec /\ Fairness

-----------------------------------------------------------------------------
(* Properties.                                                             *)

(* "Either both rows exist or neither does": no crash, failure or race     *)
(* leaves an event of a handled kind without the message that drives it.   *)
StoredTogether ==
    \A e \in Handled : inbox[e] # "none" <=> out[e] # "none"

(* "Answer 2xx only once the event is durably stored": what the provider   *)
(* will not send again is in the inbox.                                    *)
AckedIsStored == \A e \in acked : inbox[e] # "none"

(* Something goes wrong while an event is being received: a step that is   *)
(* not what its handler does when everything works.                        *)
Faulty ==
    \/ Crash
    \/ \E h \in Handlers :
          /\ req[h].op = "ReceiveStripeWebhook" /\ req[h].arg \notin acked
          /\ (Fail(h) \/ Step(h, FALSE) \/ (ans[h].code \in {200, 202} /\ AnswerLost(h)))
          /\ ~Step(h, TRUE)

(* Whatever goes wrong on the way and however often, nothing is left       *)
(* behind that keeps an event out: once deliveries stop failing, every     *)
(* event the provider keeps sending is accepted.                           *)
EveryEventAccepted == <>[][~Faulty]_vars => \A e \in Events : <>(e \in acked)

(* An idempotency key names one order for ever: every client told of an    *)
(* order under it was told of the same one, which is the one it asked for. *)
OneOrderPerKey ==
    \A s, t \in told :
       /\ s.order.product = s.asked.product /\ s.order.quantity = s.asked.quantity
       /\ s.asked.key = t.asked.key => s.order = t.order

(* The amount charged is the product of price and quantity, at the edge of *)
(* the integer's width, too.                                               *)
AmountsExact == \A o \in orders : o.amount = Catalog[o.product] * o.quantity

(* "Concurrent requests cannot count or enqueue the same replay twice":    *)
(* every replay repairs something that had failed, and never reopens work  *)
(* that is under way or done.                                              *)
ReplayOnlyRepairs ==
    [][\A e \in Events : replays'[e] # replays[e] =>
          (inbox[e] = "failed" \/ (inbox[e] = "pending" /\ out[e] = "failed"))]_vars

=============================================================================
