----------------------------- MODULE AtLeastOnce ----------------------------
(***************************************************************************)
(* What the outbox promises, whatever relays, leases and confirms do: a    *)
(* stored message reaches a queue of the broker at least once before it is *)
(* recorded as published; the record is final; and a message is abandoned  *)
(* only if it cannot be encoded at all.  Copies may still arrive after     *)
(* the record: the consumer is built to ignore them.                       *)
(***************************************************************************)
CONSTANTS
    Messages,     \* the stored messages
    Unencodable   \* the ones no publication can ever carry

VARIABLES
    delivered,    \* messages of which the broker holds or held a copy
    outcome       \* the record: open, published or abandoned

vars == <<delivered, outcome>>

Init ==
    /\ delivered = {}
    /\ outcome = [m \in Messages |-> "open"]

Deliver(m) ==
    /\ m \notin Unencodable
    /\ delivered' = delivered \cup {m}
    /\ UNCHANGED outcome

Record(m) ==
    /\ outcome[m] = "open"
    /\ m \in delivered
    /\ outcome' = [outcome EXCEPT ![m] = "published"]
    /\ UNCHANGED delivered

Abandon(m) ==
    /\ outcome[m] = "open"
    /\ m \in Unencodable
    /\ outcome' = [outcome EXCEPT ![m] = "abandoned"]
    /\ UNCHANGED delivered

Next == \E m \in Messages : Deliver(m) \/ Record(m) \/ Abandon(m)

Spec == Init /\ [][Next]_vars

=============================================================================
