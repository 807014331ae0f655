----------------------------- MODULE Publisher -----------------------------
(***************************************************************************)
(* The AMQP side of a publication: Connection.withDeadline around either   *)
(* Publisher.Publish, which keeps one confirming channel between calls, or *)
(* Consumer.republish, which opens a channel for each call.  The two live  *)
(* on connections of their own; longLived says which one this is.          *)
(*                                                                         *)
(* The driver's reader goroutine hands the broker's frames over in order:  *)
(* a return goes to the buffered channel given to NotifyReturn, which the  *)
(* driver closes together with the AMQP channel.  operationMu admits one   *)
(* operation at a time, so there is one AMQP channel in use.               *)
(***************************************************************************)
EXTENDS Sequences, Naturals

CONSTANTS
    Callers,     \* goroutines that publish
    None         \* nobody holds operationMu

ASSUME CallerAssumption == None \notin Callers

VARIABLES
    longLived,   \* Publisher, or republish
    conn,        \* Connection.connection: none, up, dead (IsClosed)
    limited,     \* is an operation deadline set on the live transport?
    owner,       \* operationMu (and Publisher.mu)
    pc,          \* where each caller is
    chan,        \* the AMQP channel: none, open, closed
    buf,         \* the returns buffer: empty, own or stale return
    frames,      \* frames of the broker the reader has not handed over
    confirm,     \* the deferred confirmation: none, ack, nack
    inflight,    \* sent, not yet seen by the broker
    took, gave,  \* did a queue take the message; did the broker return it?
    result       \* what each caller's last call returned

amqp == <<chan, buf, frames, confirm, inflight>>
vars == <<longLived, conn, limited, owner, pc, amqp, took, gave, result>>

InOperation == {"connect", "check", "open", "setup", "drain", "send", "wait", "take"}

TypeOK ==
    /\ longLived \in BOOLEAN
    /\ conn \in {"none", "up", "dead"} /\ limited \in BOOLEAN
    /\ owner \in Callers \cup {None}
    /\ pc \in [Callers -> {"idle", "lock"} \cup InOperation]
    /\ chan \in {"none", "open", "closed"}
    /\ buf \in {"empty", "own", "stale"}
    /\ frames \in {<<>>, <<"ack">>, <<"nack">>, <<"return", "ack">>, <<"return", "nack">>}
    /\ confirm \in {"none", "ack", "nack"}
    /\ inflight \in BOOLEAN /\ took \in BOOLEAN /\ gave \in BOOLEAN
    /\ result \in [Callers -> {"none", "ready", "nil", "unrouted", "error"}]

Init ==
    /\ longLived \in BOOLEAN
    /\ conn = "none" /\ limited = FALSE
    /\ owner = None
    /\ pc = [c \in Callers |-> "idle"]
    /\ chan = "none" /\ buf = "empty" /\ frames = <<>> /\ confirm = "none"
    /\ inflight = FALSE /\ took = FALSE /\ gave = FALSE
    /\ result = [c \in Callers |-> "none"]

-----------------------------------------------------------------------------
(* The connection.                                                         *)

At(c, p) == pc' = [pc EXCEPT ![c] = p]

(* The AMQP channel is gone: frames are lost, the confirmation resolves to *)
(* a refusal, and what the returns buffer held can still be received.      *)
ChannelGone ==
    /\ chan' = IF chan = "open" THEN "closed" ELSE chan
    /\ frames' = <<>> /\ inflight' = FALSE
    /\ confirm' = IF chan = "open" /\ confirm = "none" THEN "nack" ELSE confirm
    /\ UNCHANGED buf

(* The broker or the network ends the channel, or the whole connection     *)
(* (with a missed heartbeat, for instance).                                *)
ChannelDies ==
    /\ chan = "open"
    /\ ChannelGone
    /\ UNCHANGED <<longLived, conn, limited, owner, pc, took, gave, result>>

ConnectionDies ==
    /\ conn = "up"
    /\ conn' = "dead"
    /\ ChannelGone
    /\ UNCHANGED <<longLived, limited, owner, pc, took, gave, result>>

(* Clearing the deadline fails if the driver has already closed the socket *)
(* it was set on, because the connection died, or died and was dialed      *)
(* again: what was a success is then reported as an error.                 *)
Cleared(res) ==
    IF res \in {"nil", "ready"} /\ (conn # "up" \/ ~limited) THEN {res, "error"} ELSE {res}

(* A call ends.  withDeadline clears the deadline and unlocks; republish   *)
(* closes its own channel; dropped says that Publish discards the shared   *)
(* one.                                                                    *)
End(c, res, dropped) ==
    /\ At(c, "idle")
    /\ \E r \in Cleared(res) : result' = [result EXCEPT ![c] = r]
    /\ owner' = None /\ limited' = FALSE
    /\ confirm' = "none" /\ inflight' = FALSE
    /\ IF dropped \/ ~longLived
       THEN chan' = "none" /\ buf' = "empty" /\ frames' = <<>>
       ELSE UNCHANGED <<chan, buf, frames>>
    /\ UNCHANGED <<longLived, took, gave>>

(* A new message; a return still in the buffer is an earlier one's.        *)
Call(c) ==
    /\ pc[c] = "idle"
    /\ At(c, "lock")
    /\ result' = [result EXCEPT ![c] = "none"]
    /\ UNCHANGED <<longLived, conn, limited, owner, amqp, took, gave>>

Lock(c) ==
    /\ pc[c] = "lock" /\ owner = None
    /\ owner' = c
    /\ At(c, "connect")
    /\ buf' = IF buf = "own" THEN "stale" ELSE buf
    /\ took' = FALSE /\ gave' = FALSE
    /\ UNCHANGED <<longLived, conn, limited, chan, frames, confirm, inflight, result>>

(* Connect dials unless the connection is live, and the deadline is set on *)
(* its transport.                                                          *)
Connect(c) ==
    /\ pc[c] = "connect"
    /\ conn' = "up" /\ limited' = TRUE
    /\ At(c, "check")
    /\ UNCHANGED <<longLived, owner, amqp, took, gave, result>>

(* Dialing fails or runs into its deadline.                                *)
DialFails(c) ==
    /\ pc[c] \in {"connect", "open"} /\ conn # "up"
    /\ End(c, "error", FALSE)
    /\ UNCHANGED conn

(* ensureChannel: the shared channel is used while it is not closed.       *)
Check(c) ==
    /\ pc[c] = "check"
    /\ At(c, IF longLived /\ chan = "open" THEN "drain" ELSE "open")
    /\ UNCHANGED <<longLived, conn, limited, owner, amqp, took, gave, result>>

(* Connection.channel: connects again if the connection has died since,    *)
(* which leaves the deadline on the old transport; then opens a channel.   *)
OpenChannel(c) ==
    /\ pc[c] = "open"
    /\ IF conn = "up"
       THEN UNCHANGED <<conn, limited>>
       ELSE conn' = "up" /\ limited' = FALSE
    /\ At(c, "setup")
    /\ chan' = "open" /\ buf' = "empty" /\ frames' = <<>>
    /\ UNCHANGED <<longLived, owner, confirm, inflight, took, gave, result>>

(* Confirm, the topology and NotifyReturn.                                 *)
Setup(c) ==
    /\ pc[c] = "setup" /\ chan = "open"
    /\ At(c, IF longLived THEN "drain" ELSE "send")
    /\ UNCHANGED <<longLived, conn, limited, owner, amqp, took, gave, result>>

(* Warm is Publish up to here.                                             *)
Warmed(c) ==
    /\ pc[c] = "drain"
    /\ End(c, "ready", FALSE)
    /\ UNCHANGED conn

-----------------------------------------------------------------------------
(* Publish and republish.                                                  *)

(* Bug: returns of earlier messages are left in the buffer.                *)
drainNothing(c) ==
    /\ pc[c] = "drain"
    /\ At(c, "send")
    /\ UNCHANGED <<longLived, conn, limited, owner, amqp, took, gave, result>>

(* drainReturns empties the buffer.  A closed channel is always ready to   *)
(* receive from, so once the driver has closed it the loop never ends.     *)
Drain(c) ==
    /\ pc[c] = "drain"
    /\ chan = "open"
    /\ At(c, "send")
    /\ buf' = "empty"
    /\ UNCHANGED <<longLived, conn, limited, owner, chan, frames, confirm,
                   inflight, took, gave, result>>

Send(c) ==
    /\ pc[c] = "send" /\ chan = "open"
    /\ At(c, "wait")
    /\ inflight' = TRUE /\ confirm' = "none"
    /\ UNCHANGED <<longLived, conn, limited, owner, chan, buf, frames, took, gave, result>>

(* A synchronous call fails because the channel is gone.                   *)
CallFails(c) ==
    /\ pc[c] \in {"setup", "send"} /\ chan # "open"
    /\ End(c, "error", TRUE)
    /\ UNCHANGED conn

(* A synchronous call meets the socket's deadline, which ends the          *)
(* connection.                                                             *)
SocketDeadline(c) ==
    /\ pc[c] \in {"open", "setup", "send"} /\ conn = "up" /\ limited
    /\ conn' = "dead"
    /\ End(c, "error", TRUE)

(* Bug: Wait in place of WaitContext.                                      *)
waitIgnoringContext(c) ==
    /\ pc[c] = "wait" /\ chan # "open"
    /\ End(c, "error", TRUE)
    /\ UNCHANGED conn

(* The context ends while waiting for the confirm: the channel goes.       *)
WaitExpires(c) ==
    /\ pc[c] = "wait"
    /\ End(c, "error", TRUE)
    /\ UNCHANGED conn

(* Bug: an acknowledgement is all that is looked at.                       *)
confirmedIsEnough(c) ==
    /\ pc[c] = "wait" /\ confirm # "none"
    /\ End(c, IF confirm = "ack" THEN "nil" ELSE "error", FALSE)
    /\ UNCHANGED conn

(* The confirmation is there: a refusal is ErrNotConfirmed.                *)
Confirmed(c) ==
    /\ pc[c] = "wait"
    /\ \/ /\ confirm = "nack"
          /\ End(c, "error", FALSE)
       \/ /\ confirm = "ack"
          /\ At(c, "take")
          /\ UNCHANGED <<longLived, limited, owner, amqp, took, gave, result>>
    /\ UNCHANGED conn

(* takeReturn looks without waiting.  republish does not ask whether the   *)
(* channel it receives from was closed, and takes that for a return.       *)
TakeReturn(c) ==
    /\ pc[c] = "take"
    /\ LET ready == buf # "empty" \/ (~longLived /\ chan = "closed")
       IN  IF ready /\ longLived
           THEN /\ At(c, "idle") /\ result' = [result EXCEPT ![c] = "unrouted"]
                /\ owner' = None /\ limited' = FALSE
                /\ buf' = "empty" /\ confirm' = "none"
                /\ UNCHANGED <<longLived, chan, frames, inflight, took, gave>>
           ELSE End(c, IF ready THEN "unrouted" ELSE "nil", FALSE)
    /\ UNCHANGED conn

-----------------------------------------------------------------------------
(* The broker and the driver's reader.                                     *)

(* A message no queue matches is returned before it is confirmed.  The     *)
(* broker may refuse a message whatever became of it.                      *)
BrokerAnswers ==
    /\ inflight /\ chan = "open"
    /\ inflight' = FALSE
    /\ \E routed \in BOOLEAN, answer \in {"ack", "nack"} :
          /\ took' = routed /\ gave' = ~routed
          /\ frames' = IF routed THEN <<answer>> ELSE <<"return", answer>>
    /\ UNCHANGED <<longLived, conn, limited, owner, pc, chan, buf, confirm, result>>

(* The reader waits while the returns buffer, of size one, is full.        *)
ReaderDelivers ==
    /\ frames # <<>>
    /\ \/ /\ Head(frames) = "return" /\ buf = "empty"
          /\ buf' = "own"
          /\ UNCHANGED confirm
       \/ /\ Head(frames) # "return"
          /\ confirm' = Head(frames)
          /\ UNCHANGED buf
    /\ frames' = Tail(frames)
    /\ UNCHANGED <<longLived, conn, limited, owner, pc, chan, inflight, took, gave, result>>

CallerStep(c) ==
    \/ Call(c) \/ Lock(c) \/ Connect(c) \/ DialFails(c) \/ Check(c) \/ OpenChannel(c)
    \/ Setup(c) \/ Warmed(c) \/ Drain(c) \/ Send(c) \/ CallFails(c) \/ SocketDeadline(c)
    \/ WaitExpires(c) \/ Confirmed(c) \/ TakeReturn(c)

Next ==
    \/ ChannelDies \/ ConnectionDies \/ BrokerAnswers \/ ReaderDelivers
    \/ \E c \in Callers : CallerStep(c)

Spec == Init /\ [][Next]_vars

(***************************************************************************)
(* Contexts and socket deadlines expire, goroutines run, and a sync.Mutex  *)
(* is not kept from a waiter for ever.  A synchronous call that has no     *)
(* deadline is answered or fails: heartbeats end a silent connection.      *)
(* Nothing is assumed of confirmations, and nothing of Warmed: a publisher *)
(* goes on to Drain.                                                       *)
(***************************************************************************)
Fairness ==
    \A c \in Callers :
          /\ SF_vars(Lock(c))
          /\ WF_vars(Connect(c) \/ DialFails(c)) /\ WF_vars(Check(c)) /\ WF_vars(Drain(c))
          /\ WF_vars(OpenChannel(c) \/ DialFails(c) \/ SocketDeadline(c))
          /\ WF_vars(Setup(c) \/ Send(c) \/ CallFails(c) \/ SocketDeadline(c))
          /\ WF_vars(WaitExpires(c) \/ Confirmed(c)) /\ WF_vars(TakeReturn(c))

LiveSpec == Spec /\ Fairness

-----------------------------------------------------------------------------
(* Properties.                                                             *)

(* "returns only after the broker confirms it and no return says it was    *)
(* unroutable": nil means that a queue has the message, although channels  *)
(* die, confirms get lost and earlier returns linger.                      *)
NilMeansTaken ==
    [][\A c \in Callers :
         (result[c] = "none" /\ result'[c] = "nil") => took]_vars

(* "so a stale one is never blamed on the message about to be sent": the   *)
(* publisher reports ErrNotRouted only for a message that was returned.    *)
NoStaleBlame ==
    [][\A c \in Callers :
         (longLived /\ result[c] = "none" /\ result'[c] = "unrouted") => gave]_vars

(* One slot in the returns buffer is enough: the driver's reader, which    *)
(* also carries confirms and heartbeats, never waits for it to be emptied. *)
ReaderNeverWaits ==
    (frames # <<>> /\ Head(frames) = "return") => buf = "empty"

Spinning == owner # None /\ pc[owner] = "drain" /\ chan = "closed"

(* Every call returns and lets the next one in, whatever dies while it     *)
(* runs, unless the channel closes between ensureChannel's check and       *)
(* drainReturns, whose loop then spins.                                    *)
EveryCallEnds ==
    \A c \in Callers : (pc[c] # "idle") ~> (pc[c] = "idle" \/ Spinning)

=============================================================================
