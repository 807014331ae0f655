------------------------------ MODULE Dispatch ------------------------------
(***************************************************************************)
(* One consuming session: Run, consume and the worker pool of the RabbitMQ *)
(* consumer.  A dispatcher goroutine moves deliveries from the channel to  *)
(* the unbuffered work channel; a worker whose handler fails reports once  *)
(* and exits; the dispatcher then ends the session and Run opens another.  *)
(*                                                                         *)
(* What a worker does with a delivery is Consumer's subject; here it       *)
(* acknowledges it or fails.  Messages are counted, not told apart.        *)
(***************************************************************************)
EXTENDS Integers, FiniteSets

CONSTANTS
    Workers,     \* the pool: Config.Concurrency goroutines
    Prefetches,  \* values of Config.Prefetch that are configured
    Backlog      \* bound: messages in the queue at the start

ASSUME PoolAssumption ==
    /\ Workers # {} /\ IsFiniteSet(Workers)
    /\ Prefetches \subseteq Nat \ {0} /\ Backlog \in Nat

VARIABLES
    disp,        \* where the dispatcher is: Run's backoff, one of consume's
                 \* two selects, the deferred drain, or returned
    st,          \* each worker: idle, busy, failing (to report), exited
    errors,      \* errors buffered in workerErrors
    open,        \* is the AMQP channel open?
    queue,       \* messages waiting in the broker
    unacked,     \* deliveries the broker counts against prefetch
    pushed,      \* deliveries buffered in the client, not yet received
    cancelled,   \* ctx.Done()
    prefetch     \* Config.Prefetch, unacknowledged deliveries per channel

vars == <<disp, st, errors, open, queue, unacked, pushed, cancelled,
          prefetch>>

In(s) == Cardinality({w \in Workers : st[w] = s})
Concurrency == Cardinality(Workers)

Init ==
    /\ disp = "backoff"
    /\ st = [w \in Workers |-> "exited"]
    /\ errors = 0
    /\ open = FALSE
    /\ queue = Backlog /\ unacked = 0 /\ pushed = 0
    /\ cancelled = FALSE
    /\ prefetch \in Prefetches

-----------------------------------------------------------------------------
(* The broker.                                                             *)

Push ==
    /\ open
    /\ queue > 0 /\ unacked < prefetch
    /\ queue' = queue - 1 /\ unacked' = unacked + 1 /\ pushed' = pushed + 1
    /\ UNCHANGED <<disp, st, errors, open, cancelled, prefetch>>

(* A closed channel returns what it did not see acknowledged.              *)
CloseChannel ==
    /\ open' = FALSE
    /\ queue' = queue + unacked
    /\ unacked' = 0

(* The broker or the network closes the channel.  Deliveries the client    *)
(* has buffered may still be received.                                     *)
ChannelDies ==
    /\ open
    /\ CloseChannel
    /\ UNCHANGED <<disp, st, errors, pushed, cancelled, prefetch>>

-----------------------------------------------------------------------------
(* Run and consume.                                                        *)

(* A session begins: channel, prefetch, pool.                              *)
OpenSession ==
    /\ disp = "backoff" /\ ~cancelled
    /\ disp' = "select"
    /\ st' = [w \in Workers |-> "idle"]
    /\ errors' = 0 /\ pushed' = 0
    /\ open' = TRUE
    /\ UNCHANGED <<queue, unacked, cancelled, prefetch>>

(* A delivery is received, and must now be handed to a worker.             *)
Take ==
    /\ disp = "select"
    /\ pushed > 0
    /\ disp' = "handoff" /\ pushed' = pushed - 1
    /\ UNCHANGED <<st, errors, open, queue, unacked, cancelled, prefetch>>

Handoff(w) ==
    /\ disp = "handoff"
    /\ st[w] = "idle"
    /\ disp' = "select"
    /\ st' = [st EXCEPT ![w] = "busy"]
    /\ UNCHANGED <<errors, open, queue, unacked, pushed, cancelled, prefetch>>

(* Bug: an error is logged and the session goes on.                        *)
errorIgnored ==
    /\ disp = "select"
    /\ errors > 0
    /\ errors' = errors - 1
    /\ UNCHANGED <<disp, st, open, queue, unacked, pushed, cancelled, prefetch>>

(* A worker's error ends the session: channel.Close requeues everything.   *)
SeeError ==
    /\ disp = "select"
    /\ errors > 0
    /\ errors' = errors - 1
    /\ disp' = "drain"
    /\ IF open THEN CloseChannel ELSE UNCHANGED <<open, queue, unacked>>
    /\ UNCHANGED <<st, pushed, cancelled, prefetch>>

(* NotifyClose fires, or the deliveries channel is closed.                 *)
SeeClosed ==
    /\ disp = "select"
    /\ ~open
    /\ disp' = "drain"
    /\ UNCHANGED <<st, errors, open, queue, unacked, pushed, cancelled, prefetch>>

(* Shutdown is noticed in either select and in Run's backoff.              *)
SeeCancel ==
    /\ cancelled
    /\ \/ disp \in {"select", "handoff"} /\ disp' = "drain"
       \/ disp = "backoff" /\ disp' = "stopped"
    /\ UNCHANGED <<st, errors, open, queue, unacked, pushed, cancelled, prefetch>>

(* workers.Wait returns; the deferred Close ends the channel if need be.   *)
SessionOver ==
    /\ disp = "drain"
    /\ \A w \in Workers : st[w] = "exited"
    /\ disp' = IF cancelled THEN "stopped" ELSE "backoff"
    /\ pushed' = 0
    /\ IF open THEN CloseChannel ELSE UNCHANGED <<open, queue, unacked>>
    /\ UNCHANGED <<st, errors, cancelled, prefetch>>

Shutdown ==
    /\ ~cancelled
    /\ cancelled' = TRUE
    /\ UNCHANGED <<disp, st, errors, open, queue, unacked, pushed, prefetch>>

-----------------------------------------------------------------------------
(* The workers.                                                            *)

(* Bug: a handled delivery is never acknowledged.                          *)
succeedWithoutAck(w) ==
    /\ st[w] = "busy"
    /\ st' = [st EXCEPT ![w] = "idle"]
    /\ UNCHANGED <<disp, errors, open, queue, unacked, pushed, cancelled, prefetch>>

(* handle settles the delivery; the ack frees its prefetch slot.           *)
Succeed(w) ==
    /\ st[w] = "busy"
    /\ open
    /\ st' = [st EXCEPT ![w] = "idle"]
    /\ unacked' = unacked - 1
    /\ UNCHANGED <<disp, errors, open, queue, pushed, cancelled, prefetch>>

(* handle returns an error; on a closed channel the ack alone is one.      *)
HandleFails(w) ==
    /\ st[w] = "busy"
    /\ st' = [st EXCEPT ![w] = "failing"]
    /\ UNCHANGED <<disp, errors, open, queue, unacked, pushed, cancelled, prefetch>>

(* The worker reports and exits; the buffer has a slot for each of them.   *)
Report(w) ==
    /\ st[w] = "failing"
    /\ errors < Concurrency
    /\ errors' = errors + 1
    /\ st' = [st EXCEPT ![w] = "exited"]
    /\ UNCHANGED <<disp, open, queue, unacked, pushed, cancelled, prefetch>>

(* close(work) ends an idle worker's range loop.                           *)
Exit(w) ==
    /\ disp = "drain"
    /\ st[w] = "idle"
    /\ st' = [st EXCEPT ![w] = "exited"]
    /\ UNCHANGED <<disp, errors, open, queue, unacked, pushed, cancelled, prefetch>>

WorkerStep(w) ==
    Handoff(w) \/ Succeed(w) \/ HandleFails(w) \/ Report(w) \/ Exit(w)

Next ==
    \/ Push \/ ChannelDies
    \/ OpenSession \/ Take \/ SeeError \/ SeeClosed \/ SeeCancel \/ SessionOver
    \/ Shutdown
    \/ \E w \in Workers : WorkerStep(w)

Spec == Init /\ [][Next]_vars

(***************************************************************************)
(* Goroutines are scheduled, handle has deadlines everywhere and returns,  *)
(* and a select chooses at random among the cases that are ready, so a     *)
(* case that is ready again and again is chosen at some point.             *)
(***************************************************************************)
Fairness ==
    /\ WF_vars(Push) /\ WF_vars(OpenSession) /\ WF_vars(SessionOver)
    /\ SF_vars(Take) /\ SF_vars(SeeError) /\ SF_vars(SeeClosed) /\ SF_vars(SeeCancel)
    /\ \A w \in Workers :
          /\ WF_vars(Handoff(w)) /\ WF_vars(Succeed(w) \/ HandleFails(w))
          /\ WF_vars(Report(w)) /\ WF_vars(Exit(w))

LiveSpec == Spec /\ Fairness

-----------------------------------------------------------------------------
(* Properties.                                                             *)

Running == disp \in {"select", "handoff"}

(* No prefetch slot leaks in silence: while the session runs, a delivery   *)
(* nobody works on any more is matched by an error waiting to end it.      *)
SlotsAccounted ==
    (Running /\ open) =>
        unacked = pushed + (IF disp = "handoff" THEN 1 ELSE 0)
                    + In("busy") + In("failing") + errors

(* "One worker failure ends the whole session", "instead of consuming      *)
(* every prefetch slot forever".                                           *)
ErrorEndsSession == (errors > 0) ~> (~Running)

(* It does so when the prefetch does not exceed the number of workers, as  *)
(* in the default configuration: a delivery in hand then finds a worker,   *)
(* because every worker that left still holds a slot.                      *)
NarrowErrorEndsSession == (prefetch <= Concurrency) => ErrorEndsSession

=============================================================================
