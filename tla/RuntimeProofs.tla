---------------------------- MODULE RuntimeProofs ---------------------------
(***************************************************************************)
(* The consuming session, for any pool, prefetch and backlog: no prefetch  *)
(* slot leaks in silence.  And the life of a process: nothing is used      *)
(* before it is opened or after it is closed.                              *)
(***************************************************************************)
EXTENDS Runtime, FiniteSetTheorems, SequenceTheorems, TLAPS

-----------------------------------------------------------------------------
(* The session.                                                            *)

SessionTypes ==
    /\ disp \in {"backoff", "select", "handoff", "drain", "stopped"}
    /\ st \in [Workers -> {"idle", "busy", "failing", "exited"}]
    /\ errors \in Nat /\ queue \in Nat /\ unacked \in Nat /\ pushed \in Nat
    /\ open \in BOOLEAN /\ cancelled \in BOOLEAN /\ prefetch \in Nat

(* A channel exists only inside a session, a closed one holds nothing, an  *)
(* open one no more than the prefetch; a worker that left has reported an  *)
(* error; while the deferred drain runs the busy workers' slots are taken. *)
SInv ==
    /\ SessionTypes
    /\ open => disp \in {"select", "handoff", "drain"}
    /\ ~open => unacked = 0
    /\ unacked <= prefetch
    /\ Running => In("exited") = errors
    /\ (disp = "drain" /\ open) => unacked >= In("busy")
    /\ SlotsAccounted

(* What keeps the dispatcher from waiting for ever in the second select    *)
(* when the prefetch does not exceed the number of workers: some worker is *)
(* left to take the delivery it has in hand.                               *)
DeliveryFindsWorker ==
    (prefetch <= Concurrency /\ disp = "handoff" /\ open) => \E w \in Workers : st[w] # "exited"

-----------------------------------------------------------------------------
(* The process.                                                            *)

Parts == {"telemetry", "db", "broker", "consumerBroker", "republishBroker",
          "samplingBroker", "publisher"}

(* What Run has opened is an initial part of the order it opens things in. *)
DefersInOrder ==
    /\ defers \in Seq(Parts) /\ Len(defers) <= 7
    /\ Len(defers) >= 1 => defers[1] = "telemetry"
    /\ Len(defers) >= 2 => defers[2] = "db"
    /\ Len(defers) >= 3 => defers[3] = "broker"
    /\ Len(defers) >= 4 => defers[4] = "consumerBroker"
    /\ Len(defers) >= 5 => defers[5] = "republishBroker"
    /\ Len(defers) >= 6 => defers[6] = "samplingBroker"
    /\ Len(defers) >= 7 => defers[7] = "publisher"

(* How much is open at each stage.                                         *)
OpenAtStage ==
    /\ stage \in {"load", "telemetry"} => Len(defers) = 0
    /\ stage \in {"db", "dbWait"} => Len(defers) = 1
    /\ stage \in {"broker", "brokerWait"} => Len(defers) = 2 /\ process = "worker"
    /\ stage = "warm" => Len(defers) = IF process = "worker" THEN 6 ELSE 2
    /\ stage = "run" => Len(defers) = IF process = "worker" THEN 7 ELSE 2
    /\ stage = "exited" => Len(defers) = 0

(* The components run only while Run waits for them.                       *)
WorkWhileRunning ==
    /\ process \in {"worker", "api"} /\ signalled \in BOOLEAN
    /\ loops \subseteq Loops /\ (loops # {} => stage = "run" /\ process = "worker")
    /\ server # "stopped" => stage = "run"
    /\ disp \notin {"backoff", "stopped"} => stage = "run"
    /\ (stage = "run" /\ process = "api") => disp = "stopped"

RInv == SInv /\ DefersInOrder /\ OpenAtStage /\ WorkWhileRunning

-----------------------------------------------------------------------------
(* Counting workers.                                                       *)

States == {"idle", "busy", "failing", "exited"}
Count(f, s) == Cardinality({w \in Workers : f[w] = s})

(* However the workers stand, each count is a natural number.              *)
LEMMA CountType ==
    ASSUME NEW f, NEW s
    PROVE  IsFiniteSet({w \in Workers : f[w] = s}) /\ Count(f, s) \in Nat
<1>1. IsFiniteSet({w \in Workers : f[w] = s})
  BY PoolAssumption, FS_Subset
<1> QED
  BY <1>1, FS_CardinalityType DEF Count

(* One worker that moves from one state to another moves two counts.       *)
LEMMA CountMoves ==
    ASSUME NEW f \in [Workers -> States], NEW w \in Workers, NEW t \in States, f[w] # t
    PROVE  /\ Count([f EXCEPT ![w] = t], t) = Count(f, t) + 1
           /\ Count([f EXCEPT ![w] = t], f[w]) = Count(f, f[w]) - 1
           /\ \A u \in States \ {t, f[w]} : Count([f EXCEPT ![w] = t], u) = Count(f, u)
<1> DEFINE g == [f EXCEPT ![w] = t]
           At(h, u) == {v \in Workers : h[v] = u}
<1>1. \A v \in Workers : g[v] = IF v = w THEN t ELSE f[v]
  OBVIOUS
<1>2. At(g, t) = At(f, t) \cup {w} /\ w \notin At(f, t)
  BY <1>1
<1>3. At(g, f[w]) = At(f, f[w]) \ {w} /\ w \in At(f, f[w])
  BY <1>1
<1>4. ASSUME NEW u \in States \ {t, f[w]} PROVE At(g, u) = At(f, u)
  BY <1>1, <1>4
<1>5. \A u : /\ IsFiniteSet(At(f, u)) /\ Count(f, u) = Cardinality(At(f, u))
             /\ Count(g, u) = Cardinality(At(g, u))
  BY CountType DEF Count
<1> HIDE DEF g, At
<1>6. Count(g, t) = Count(f, t) + 1
  <2>1. Cardinality(At(f, t) \cup {w}) = Cardinality(At(f, t)) + 1
    BY <1>2, <1>5, FS_AddElement
  <2> QED BY <1>2, <1>5, <2>1
<1>7. Count(g, f[w]) = Count(f, f[w]) - 1
  <2>1. Cardinality(At(f, f[w]) \ {w}) = Cardinality(At(f, f[w])) - 1
    BY <1>3, <1>5, FS_RemoveElement
  <2> QED BY <1>3, <1>5, <2>1
<1>8. \A u \in States \ {t, f[w]} : Count(g, u) = Count(f, u)
  BY <1>4, <1>5
<1> QED
  BY <1>6, <1>7, <1>8 DEF g

(* A pool that starts has nobody busy, failing or gone.                    *)
LEMMA CountNone ==
    ASSUME NEW s \in States, NEW t \in States, s # t
    PROVE  Count([w \in Workers |-> s], t) = 0
<1>1. {w \in Workers : [v \in Workers |-> s][w] = t} = {}
  OBVIOUS
<1> QED
  BY <1>1, FS_EmptySet DEF Count

(* The same of the pool.                                                   *)
LEMMA InMoves ==
    ASSUME st \in [Workers -> States], NEW w \in Workers, NEW s \in States, NEW t \in States,
           s # t, st[w] = s, st' = [st EXCEPT ![w] = t]
    PROVE  /\ In(t)' = In(t) + 1 /\ In(s)' = In(s) - 1
           /\ \A u \in States \ {s, t} : In(u)' = In(u)
<1>1. \A u : In(u) = Count(st, u) /\ In(u)' = Count([st EXCEPT ![w] = t], u)
  BY DEF In, Count
<1>2. /\ Count([st EXCEPT ![w] = t], t) = Count(st, t) + 1
      /\ Count([st EXCEPT ![w] = t], s) = Count(st, s) - 1
      /\ \A u \in States \ {t, s} : Count([st EXCEPT ![w] = t], u) = Count(st, u)
  BY CountMoves
<1> QED
  BY <1>1, <1>2

(* The counts are natural numbers, now and in the next state.              *)
LEMMA InTypes ==
    /\ In("busy") \in Nat /\ In("failing") \in Nat /\ In("exited") \in Nat
    /\ In("busy")' \in Nat /\ In("failing")' \in Nat /\ In("exited")' \in Nat
<1>1. /\ In("busy") = Count(st, "busy") /\ In("busy")' = Count(st', "busy")
      /\ In("failing") = Count(st, "failing") /\ In("failing")' = Count(st', "failing")
      /\ In("exited") = Count(st, "exited") /\ In("exited")' = Count(st', "exited")
  BY DEF In, Count
<1> QED
  BY <1>1, CountType

-----------------------------------------------------------------------------
(* The session keeps its books.                                            *)

(* The broker and the dispatcher.                                          *)
LEMMA DispatchKeeps ==
    ASSUME SInv,
           \/ Push \/ ChannelDies \/ Take \/ SeeError \/ SeeClosed \/ SeeCancel \/ Shutdown
    PROVE  SInv'
<1>1. st' = st
  BY DEF Push, ChannelDies, Take, SeeError, SeeClosed, SeeCancel, Shutdown
<1>2. /\ In("busy")' = In("busy") /\ In("failing")' = In("failing") /\ In("exited")' = In("exited")
      /\ In("busy") \in Nat /\ In("failing") \in Nat /\ In("exited") \in Nat
  BY <1>1, InTypes DEF In
<1>3. SessionTypes
  BY DEF SInv
<1>4. CASE Push
  BY <1>2, <1>3, <1>4 DEF SInv, SessionTypes, SlotsAccounted, Running, Push
<1>5. CASE ChannelDies
  <2>1. ~open' /\ open' \in BOOLEAN
    BY <1>5 DEF ChannelDies, CloseChannel
  <2>2. queue' \in Nat /\ unacked' = 0
    BY <1>3, <1>5 DEF SessionTypes, ChannelDies, CloseChannel
  <2> QED BY <1>2, <1>3, <1>5, <2>1, <2>2 DEF SInv, SessionTypes, SlotsAccounted, Running, ChannelDies
<1>6. CASE Take
  BY <1>2, <1>3, <1>6 DEF SInv, SessionTypes, SlotsAccounted, Running, Take
<1>7. CASE SeeError
  <2>1. ~open' /\ open' \in BOOLEAN
    BY <1>3, <1>7 DEF SeeError, CloseChannel, SessionTypes
  <2>2. queue' \in Nat /\ unacked' = 0
    BY <1>3, <1>7 DEF SInv, SessionTypes, SeeError, CloseChannel
  <2>3. errors' \in Nat
    BY <1>3, <1>7 DEF SessionTypes, SeeError
  <2> QED
    BY <1>2, <1>3, <1>7, <2>1, <2>2, <2>3 DEF SInv, SessionTypes, SlotsAccounted, Running, SeeError
<1>8. CASE SeeClosed
  BY <1>2, <1>3, <1>8 DEF SInv, SessionTypes, SlotsAccounted, Running, SeeClosed
<1>9. CASE SeeCancel
  BY <1>2, <1>3, <1>9 DEF SInv, SessionTypes, SlotsAccounted, Running, SeeCancel
<1>10. CASE Shutdown
  BY <1>2, <1>3, <1>10 DEF SInv, SessionTypes, SlotsAccounted, Running, Shutdown
<1> QED
  BY <1>4, <1>5, <1>6, <1>7, <1>8, <1>9, <1>10

(* A session begins and ends.                                              *)
LEMMA SessionKeeps ==
    ASSUME SInv, OpenSession \/ SessionOver
    PROVE  SInv'
<1>1. CASE OpenSession
  <2>1. In("busy")' = 0 /\ In("failing")' = 0 /\ In("exited")' = 0
    <3>1. ASSUME NEW t \in {"busy", "failing", "exited"} PROVE In(t)' = 0
      <4>1. In(t)' = Count([w \in Workers |-> "idle"], t)
        BY <1>1 DEF OpenSession, In, Count
      <4> QED BY <4>1, CountNone DEF States
    <3> QED BY <3>1
  <2> QED
    BY <1>1, <2>1 DEF SInv, SessionTypes, SlotsAccounted, Running, OpenSession
<1>2. CASE SessionOver
  <2>0. SessionTypes
    BY DEF SInv
  <2>1. ~open' /\ open' \in BOOLEAN
    BY <1>2, <2>0 DEF SessionOver, CloseChannel, SessionTypes
  <2>2. queue' \in Nat /\ unacked' = 0
    BY <1>2, <2>0 DEF SInv, SessionTypes, SessionOver, CloseChannel
  <2> QED BY <1>2, <2>0, <2>1, <2>2 DEF SInv, SessionTypes, SlotsAccounted, Running, SessionOver
<1> QED
  BY <1>1, <1>2

(* The workers.                                                            *)
LEMMA WorkerKeeps ==
    ASSUME SInv, NEW w \in Workers, WorkerStep(w)
    PROVE  SInv'
<1> USE DEF States
<1>0. st \in [Workers -> States] /\ SessionTypes
  BY DEF SInv, SessionTypes
<1>1. /\ In("busy") \in Nat /\ In("failing") \in Nat /\ In("exited") \in Nat
      /\ In("busy")' \in Nat
  BY InTypes
<1>2. CASE Handoff(w)
  <2>1. In("busy")' = In("busy") + 1 /\ In("failing")' = In("failing") /\ In("exited")' = In("exited")
    BY <1>0, <1>1, <1>2, InMoves DEF Handoff
  <2> QED BY <1>0, <1>1, <1>2, <2>1 DEF SInv, SessionTypes, SlotsAccounted, Running, Handoff
<1>3. CASE Succeed(w)
  <2>1. In("busy")' = In("busy") - 1 /\ In("failing")' = In("failing") /\ In("exited")' = In("exited")
    BY <1>0, <1>1, <1>3, InMoves DEF Succeed
  <2>2. unacked >= In("busy")
    BY <1>0, <1>1, <1>3 DEF SInv, SessionTypes, SlotsAccounted, Running, Succeed
  <2>3. unacked' \in Nat
    BY <1>0, <1>1, <1>3, <2>1, <2>2 DEF SessionTypes, Succeed
  <2> QED BY <1>0, <1>1, <1>3, <2>1, <2>2, <2>3 DEF SInv, SessionTypes, SlotsAccounted, Running, Succeed
<1>4. CASE HandleFails(w)
  <2>1. In("busy")' = In("busy") - 1 /\ In("failing")' = In("failing") + 1 /\ In("exited")' = In("exited")
    BY <1>0, <1>1, <1>4, InMoves DEF HandleFails
  <2> QED BY <1>0, <1>1, <1>4, <2>1 DEF SInv, SessionTypes, SlotsAccounted, Running, HandleFails
<1>5. CASE Report(w)
  <2>1. In("busy")' = In("busy") /\ In("failing")' = In("failing") - 1 /\ In("exited")' = In("exited") + 1
    BY <1>0, <1>1, <1>5, InMoves DEF Report
  <2> QED BY <1>0, <1>1, <1>5, <2>1 DEF SInv, SessionTypes, SlotsAccounted, Running, Report
<1>6. CASE Exit(w)
  <2>1. In("busy")' = In("busy")
    BY <1>0, <1>1, <1>6, InMoves DEF Exit
  <2> QED BY <1>0, <1>1, <1>6, <2>1 DEF SInv, SessionTypes, SlotsAccounted, Running, Exit
<1> QED
  BY <1>2, <1>3, <1>4, <1>5, <1>6 DEF WorkerStep

(* Before the first session there is nothing to account for.               *)
LEMMA InitSInv == Init => SInv
<1> SUFFICES ASSUME Init PROVE SInv
  OBVIOUS
<1>1. SessionTypes
  BY PoolAssumption DEF Init, SessionTypes
<1>2. ~open /\ ~Running /\ unacked = 0
  BY DEF Init, Running
<1> QED
  BY <1>1, <1>2 DEF SInv, SessionTypes, SlotsAccounted

(* Every step of the session keeps the books.                              *)
LEMMA NextSInv == SInv /\ [Next]_vars => SInv'
<1> SUFFICES ASSUME SInv, [Next]_vars PROVE SInv'
  OBVIOUS
<1>1. CASE UNCHANGED vars
  BY <1>1 DEF vars, SInv, SessionTypes, SlotsAccounted, Running, In
<1> QED
  BY <1>1, DispatchKeeps, SessionKeeps, WorkerKeeps DEF Next

(* The books hold for any pool, prefetch and backlog.                      *)
THEOREM SessionInvariance == Spec => []SInv
  BY InitSInv, NextSInv, PTL DEF Spec

(* No prefetch slot leaks in silence while a session runs: a delivery that *)
(* no worker has any more is matched by a buffered error.                  *)
THEOREM SessionSlots == Spec => []SlotsAccounted
<1>1. SInv => SlotsAccounted
  BY DEF SInv
<1> QED BY <1>1, SessionInvariance, PTL

(* With every worker gone each has left an error that holds a slot, and    *)
(* the delivery in hand needs one more than a narrow prefetch has.         *)
LEMMA NarrowFindsWorker == SInv => DeliveryFindsWorker
<1> SUFFICES ASSUME SInv, prefetch <= Concurrency, disp = "handoff", open,
                    \A w \in Workers : st[w] = "exited"
             PROVE  FALSE
  BY DEF DeliveryFindsWorker
<1>1. {w \in Workers : st[w] = "exited"} = Workers
  OBVIOUS
<1>2. In("exited") = Concurrency
  BY <1>1 DEF In, Concurrency
<1>3. /\ unacked = pushed + 1 + In("busy") + In("failing") + errors
      /\ errors = Concurrency /\ unacked <= prefetch
  BY <1>2 DEF SInv, SlotsAccounted, Running
<1> QED
  BY <1>3, InTypes DEF SInv, SessionTypes

(* In the default configuration, where prefetch and concurrency are equal, *)
(* consume never waits in its second select for a pool that is all gone.   *)
THEOREM NarrowSessionMovesOn == Spec => []DeliveryFindsWorker
  BY NarrowFindsWorker, SessionInvariance, PTL

-----------------------------------------------------------------------------
(* The process.                                                            *)

(* Run opens one thing more, or the four connections of the worker.        *)
LEMMA OpensNext ==
    ASSUME DefersInOrder
    PROVE  /\ Len(defers) = 1 /\ defers' = Append(defers, "db")
                 => DefersInOrder' /\ Len(defers') = 2
           /\ Len(defers) = 6 /\ defers' = Append(defers, "publisher")
                 => DefersInOrder' /\ Len(defers') = 7
           /\ (/\ Len(defers) = 2
               /\ defers' = defers \o <<"broker", "consumerBroker", "republishBroker", "samplingBroker">>)
                 => DefersInOrder' /\ Len(defers') = 6
<1> DEFINE brokers == <<"broker", "consumerBroker", "republishBroker", "samplingBroker">>
<1>0. defers \in Seq(Parts) /\ Len(defers) \in Nat
  BY DEF DefersInOrder
<1>1. ASSUME NEW x \in Parts, defers' = Append(defers, x)
      PROVE  /\ defers' \in Seq(Parts) /\ Len(defers') = Len(defers) + 1
             /\ defers'[Len(defers) + 1] = x
             /\ \A i \in 1..Len(defers) : defers'[i] = defers[i]
  BY <1>0, <1>1
<1>2. ASSUME NEW t \in Seq(Parts), defers' = defers \o t
      PROVE  /\ defers' \in Seq(Parts) /\ Len(defers') = Len(defers) + Len(t)
             /\ \A i \in 1..Len(defers) : defers'[i] = defers[i]
             /\ \A i \in 1..Len(t) : defers'[Len(defers) + i] = t[i]
  BY <1>0, <1>2
<1>3. ASSUME Len(defers) = 1, defers' = Append(defers, "db")
      PROVE  DefersInOrder' /\ Len(defers') = 2
  <2>1. /\ defers' \in Seq(Parts) /\ Len(defers') = 2
        /\ defers'[2] = "db" /\ defers'[1] = defers[1]
    BY <1>1, <1>3 DEF Parts
  <2> QED BY <1>3, <2>1 DEF DefersInOrder
<1>4. ASSUME Len(defers) = 6, defers' = Append(defers, "publisher")
      PROVE  DefersInOrder' /\ Len(defers') = 7
  <2>1. /\ defers' \in Seq(Parts) /\ Len(defers') = 7
        /\ defers'[7] = "publisher" /\ \A i \in 1..6 : defers'[i] = defers[i]
    BY <1>1, <1>4 DEF Parts
  <2> QED BY <1>4, <2>1 DEF DefersInOrder
<1>5. ASSUME Len(defers) = 2, defers' = defers \o brokers
      PROVE  DefersInOrder' /\ Len(defers') = 6
  <2>1. /\ brokers \in Seq(Parts) /\ Len(brokers) = 4
        /\ brokers[1] = "broker" /\ brokers[2] = "consumerBroker"
        /\ brokers[3] = "republishBroker" /\ brokers[4] = "samplingBroker"
    BY DEF Parts
  <2> HIDE DEF brokers
  <2>2. /\ defers' \in Seq(Parts) /\ Len(defers') = 6
        /\ defers'[1] = defers[1] /\ defers'[2] = defers[2]
        /\ \A i \in 1..4 : defers'[2 + i] = brokers[i]
    <3>1. /\ defers' \in Seq(Parts) /\ Len(defers') = Len(defers) + Len(brokers)
          /\ \A i \in 1..Len(defers) : defers'[i] = defers[i]
          /\ \A i \in 1..Len(brokers) : defers'[Len(defers) + i] = brokers[i]
      BY <1>2, <1>5, <2>1
    <3> QED BY <1>5, <2>1, <3>1
  <2>3. /\ defers'[3] = "broker" /\ defers'[4] = "consumerBroker"
        /\ defers'[5] = "republishBroker" /\ defers'[6] = "samplingBroker"
    BY <2>1, <2>2
  <2> QED BY <1>5, <2>2, <2>3 DEF DefersInOrder
<1> QED
  BY <1>3, <1>4, <1>5

(* The deferred closes run in reverse: what remains is still in order.     *)
LEMMA ClosesLast ==
    ASSUME DefersInOrder, defers # <<>>, defers' = SubSeq(defers, 1, Len(defers) - 1)
    PROVE  DefersInOrder'
<1>1. defers \in Seq(Parts) /\ Len(defers) \in 1..7
  <2>1. defers \in Seq(Parts) /\ Len(defers) <= 7
    BY DEF DefersInOrder
  <2>2. Len(defers) \in Nat \ {0}
    BY <2>1, EmptySeq
  <2>3. Len(defers) \in 1..7
    <3> DEFINE n == Len(defers)
    <3>1. n \in Nat \ {0} /\ n <= 7
      BY <2>1, <2>2
    <3> HIDE DEF n
    <3>2. n \in 1..7
      BY <3>1
    <3> QED BY <3>2 DEF n
  <2> QED BY <2>1, <2>3
<1> DEFINE n == Len(defers) - 1
           t == SubSeq(defers, 1, n)
<1>2. n \in 0..6
  BY <1>1
<1>3. \A i \in 1..n : defers[i] \in Parts
  BY <1>1
<1>4. defers' = t
  OBVIOUS
<1>5. /\ t \in Seq(Parts) /\ Len(t) = IF 1 <= n THEN n - 1 + 1 ELSE 0
      /\ \A i \in 1..(n - 1 + 1) : t[i] = defers[1 + i - 1]
  <2> HIDE DEF n
  <2> QED BY <1>2, <1>3, SubSeqProperties
<1>6. Len(defers) = n + 1
  BY <1>1
<1> HIDE DEF n, t
<1>7. Len(t) = n /\ \A i \in 1..n : t[i] = defers[i]
  <2>1. Len(t) = n
    BY <1>2, <1>5
  <2>2. \A i \in 1..n : i \in 1..(n - 1 + 1) /\ 1 + i - 1 = i
    BY <1>2
  <2> QED BY <1>5, <2>1, <2>2
<1>8. DefersInOrder
  OBVIOUS
<1> QED
  BY <1>2, <1>4, <1>5, <1>6, <1>7, <1>8 DEF DefersInOrder

(* Starting: nothing of the session exists and no component runs yet.      *)
LEMMA StartKeeps ==
    ASSUME RInv,
           \/ Load \/ OpenTelemetry \/ StartupExpires \/ OpenDatabase \/ ConnectBroker
           \/ RetryTimer \/ RetryGivesUp
    PROVE  RInv'
<1>1. UNCHANGED <<vars, process, signalled, loops, server>> /\ stage # "run" /\ stage' # "run"
  BY DEF Load, OpenTelemetry, StartupExpires, OpenDatabase, ConnectBroker, RetryTimer,
         RetryGivesUp, Return, Unstarted
<1>2. SInv'
  BY <1>1, NextSInv DEF RInv
<1>3. WorkWhileRunning'
  BY <1>1 DEF RInv, WorkWhileRunning, vars
<1>4. DefersInOrder' /\ OpenAtStage'
  <2> USE DEF RInv, OpenAtStage
  <2>1. CASE Load \/ StartupExpires \/ RetryTimer
    BY <2>1 DEF Load, StartupExpires, RetryTimer, Return, Unstarted, DefersInOrder
  <2>2. CASE OpenTelemetry
    <3>1. defers' \in {<<>>, <<"telemetry">>}
      BY <2>2 DEF OpenTelemetry
    <3>2. DefersInOrder'
      <4>1. CASE defers' = <<>>
        BY <4>1 DEF DefersInOrder
      <4>2. CASE defers' = <<"telemetry">>
        <5>1. defers' \in Seq(Parts) /\ Len(defers') = 1 /\ defers'[1] = "telemetry"
          BY <4>2 DEF Parts
        <5> QED BY <5>1 DEF DefersInOrder
      <4> QED BY <3>1, <4>1, <4>2
    <3> QED BY <2>2, <3>2 DEF OpenTelemetry, Return, Unstarted
  <2>3. CASE OpenDatabase
    <3>1. /\ Len(defers) = 1 /\ process' = process
          /\ \/ /\ defers' = Append(defers, "db")
                /\ stage' \in {"close", IF process = "worker" THEN "broker" ELSE "warm"}
             \/ defers' = defers /\ stage' = "dbWait"
      BY <2>3 DEF OpenDatabase, Return, Unstarted
    <3>2. process \in {"worker", "api"}
      BY DEF WorkWhileRunning
    <3>3. CASE defers' = Append(defers, "db")
      <4>1. DefersInOrder' /\ Len(defers') = 2
        BY <3>1, <3>3, OpensNext
      <4>2. defers' # defers
        BY <3>1, <4>1
      <4> QED BY <3>1, <3>2, <4>1, <4>2
    <3>4. CASE defers' = defers /\ stage' = "dbWait"
      BY <3>1, <3>4 DEF DefersInOrder
    <3> QED BY <3>1, <3>3, <3>4
  <2>4. CASE ConnectBroker \/ RetryGivesUp
    <3>1. /\ process' = process
          /\ \/ /\ Len(defers) = 2 /\ process = "worker" /\ stage' = "warm"
                /\ defers' = defers \o <<"broker", "consumerBroker", "republishBroker", "samplingBroker">>
             \/ defers' = defers /\ stage' = "close"
             \/ defers' = defers /\ stage = "broker" /\ stage' = "brokerWait"
      BY <2>4 DEF ConnectBroker, RetryGivesUp, Return, Unstarted
    <3>2. CASE /\ Len(defers) = 2 /\ process = "worker" /\ stage' = "warm"
               /\ defers' = defers \o <<"broker", "consumerBroker", "republishBroker", "samplingBroker">>
      <4>1. DefersInOrder' /\ Len(defers') = 6
        BY <3>2, OpensNext
      <4> QED BY <3>1, <3>2, <4>1
    <3>3. CASE defers' = defers /\ stage' = "close"
      BY <3>3 DEF DefersInOrder
    <3>4. CASE defers' = defers /\ stage = "broker" /\ stage' = "brokerWait"
      BY <3>1, <3>4 DEF DefersInOrder
    <3> QED BY <3>1, <3>2, <3>3, <3>4
  <2> QED BY <2>1, <2>2, <2>3, <2>4
<1> QED
  BY <1>2, <1>3, <1>4 DEF RInv

(* The components' context is cancelled, or the API's server takes the     *)
(* place of a consumer: the session's books are not touched.               *)
LEMMA ContextKeeps ==
    ASSUME SInv, UNCHANGED <<st, errors, open, queue, unacked, pushed, prefetch>>,
           cancelled' \in BOOLEAN,
           disp' = disp \/ (disp = "backoff" /\ disp' = "stopped")
    PROVE  SInv'
<1>1. SessionTypes'
  BY DEF SInv, SessionTypes
<1>2. In("busy")' = In("busy") /\ In("failing")' = In("failing") /\ In("exited")' = In("exited")
  BY DEF In
<1> QED
  BY <1>1, <1>2 DEF SInv, SlotsAccounted, Running

(* The group, or the API's server, starts.                                 *)
LEMMA RunKeeps ==
    ASSUME RInv, StartGroup \/ StartServer
    PROVE  RInv'
<1>0. /\ stage = "warm" /\ loops = {} /\ server = "stopped" /\ disp \in {"backoff", "stopped"}
      /\ signalled \in BOOLEAN /\ cancelled \in BOOLEAN /\ DefersInOrder /\ SInv
      /\ process \in {"worker", "api"} /\ disp # "stopped" => disp = "backoff"
  BY DEF RInv, WorkWhileRunning, StartGroup, StartServer, SInv, SessionTypes
<1>1. CASE StartGroup
  <2>1. /\ Len(defers) = 6 /\ process = "worker" /\ defers' = Append(defers, "publisher")
        /\ process' = process /\ signalled' = signalled /\ disp' = disp
        /\ UNCHANGED <<st, errors, open, queue, unacked, pushed, prefetch>>
        /\ stage' \in {"run", "close"}
    BY <1>1 DEF StartGroup, Return, RInv, OpenAtStage
  <2>2. DefersInOrder' /\ Len(defers') = 7
    BY <1>0, <2>1, OpensNext
  <2>3. cancelled' \in BOOLEAN
    BY <1>0, <1>1 DEF StartGroup
  <2>4. SInv'
    BY <1>0, <2>1, <2>3, ContextKeeps
  <2>5. OpenAtStage'
    BY <2>1, <2>2 DEF OpenAtStage
  <2>6. \/ stage' = "run" /\ loops' = Loops
        \/ stage' = "close" /\ loops' = {} /\ server' = "stopped"
    BY <1>0, <1>1 DEF StartGroup, Return
  <2>7. WorkWhileRunning'
    BY <1>0, <2>1, <2>6 DEF WorkWhileRunning
  <2> QED BY <2>2, <2>4, <2>5, <2>7 DEF RInv
<1>2. CASE StartServer
  <2>1. /\ Len(defers) = 2 /\ process = "api" /\ defers' = defers
        /\ process' = process /\ signalled' = signalled /\ disp' = "stopped" /\ loops' = loops
        /\ UNCHANGED <<st, errors, open, queue, unacked, pushed, prefetch>>
        /\ stage' = "run"
    BY <1>2 DEF StartServer, RInv, OpenAtStage
  <2>2. cancelled' \in BOOLEAN
    BY <1>0, <1>2 DEF StartServer
  <2>3. SInv'
    BY <1>0, <2>1, <2>2, ContextKeeps
  <2>4. OpenAtStage' /\ DefersInOrder'
    BY <1>0, <2>1 DEF OpenAtStage, DefersInOrder
  <2>5. WorkWhileRunning'
    BY <1>0, <2>1 DEF WorkWhileRunning
  <2> QED BY <2>3, <2>4, <2>5 DEF RInv
<1> QED
  BY <1>1, <1>2

(* The consumer's session inside the running process.                      *)
LEMMA ConsumeKeeps ==
    ASSUME RInv, On(Consume)
    PROVE  RInv'
<1>1. stage = "run" /\ UNCHANGED runtime
  BY DEF On
<1>2. SInv'
  <2>1. Next
    BY DEF On, Consume, Next
  <2> QED BY <2>1, NextSInv DEF RInv
<1>3. disp = "stopped" => disp' = "stopped"
  BY DEF On, Consume, Push, ChannelDies, OpenSession, Take, SeeError, SeeClosed, SeeCancel,
         SessionOver, WorkerStep, Handoff, Succeed, HandleFails, Report, Exit
<1>4. DefersInOrder' /\ OpenAtStage'
  BY <1>1 DEF runtime, RInv, DefersInOrder, OpenAtStage
<1>5. WorkWhileRunning'
  BY <1>1, <1>3 DEF runtime, RInv, WorkWhileRunning
<1> QED
  BY <1>2, <1>4, <1>5 DEF RInv

(* Loops, requests and the server, which touch neither the session nor     *)
(* what is open; a signal or a failing server cancels the context.         *)
LEMMA ServiceKeeps ==
    ASSUME RInv,
           \/ \E l \in Loops : LoopStops(l)
           \/ RequestArrives \/ RequestEnds \/ ServerDrains \/ ServerStops
           \/ ServeFails \/ Signal
    PROVE  RInv'
<1>1. /\ UNCHANGED <<disp, st, errors, open, queue, unacked, pushed, prefetch,
                     process, stage, defers>>
      /\ cancelled' \in BOOLEAN /\ signalled' \in BOOLEAN
  <2>1. cancelled \in BOOLEAN /\ signalled \in BOOLEAN
    BY DEF RInv, SInv, SessionTypes, WorkWhileRunning
  <2>2. CASE ServeFails \/ Signal
    BY <2>1, <2>2 DEF ServeFails, Signal
  <2>3. CASE (\E l \in Loops : LoopStops(l)) \/ RequestArrives \/ RequestEnds \/ ServerDrains
    BY <2>1, <2>3 DEF LoopStops, RequestArrives, RequestEnds, ServerDrains, Quiet, vars
  <2>4. CASE ServerStops
    BY <2>1, <2>4 DEF ServerStops, vars
  <2> QED BY <2>2, <2>3, <2>4
<1>2. /\ loops' \subseteq loops
      /\ server' # "stopped" => server # "stopped"
  BY DEF LoopStops, RequestArrives, RequestEnds, ServeFails, ServerDrains, ServerStops, Signal,
         Quiet
<1>3. SInv'
  BY <1>1, ContextKeeps DEF RInv
<1>4. DefersInOrder' /\ OpenAtStage'
  BY <1>1 DEF RInv, DefersInOrder, OpenAtStage
<1>5. WorkWhileRunning'
  BY <1>1, <1>2 DEF RInv, WorkWhileRunning
<1> QED
  BY <1>3, <1>4, <1>5 DEF RInv

(* group.Wait returns, the deferred closes run, the process exits.         *)
LEMMA StopKeeps ==
    ASSUME RInv, GroupReturns \/ CloseLast \/ ProcessExits
    PROVE  RInv'
<1>1. UNCHANGED <<vars, process, signalled, loops, server>>
  BY DEF GroupReturns, CloseLast, ProcessExits, Unstarted
<1>2. SInv'
  BY <1>1, NextSInv DEF RInv
<1>3. loops = {} /\ server = "stopped" /\ disp \in {"backoff", "stopped"} /\ stage' # "run"
  BY DEF GroupReturns, CloseLast, ProcessExits, RInv, WorkWhileRunning
<1>4. WorkWhileRunning'
  BY <1>1, <1>3 DEF RInv, WorkWhileRunning, vars
<1>5. CASE GroupReturns
  BY <1>2, <1>4, <1>5 DEF GroupReturns, RInv, DefersInOrder, OpenAtStage
<1>6. CASE CloseLast
  <2>1. DefersInOrder'
    BY <1>6, ClosesLast DEF CloseLast, RInv
  <2> QED BY <1>2, <1>4, <1>6, <2>1 DEF CloseLast, RInv, OpenAtStage
<1>7. CASE ProcessExits
  BY <1>2, <1>4, <1>7 DEF ProcessExits, RInv, DefersInOrder, OpenAtStage
<1> QED
  BY <1>5, <1>6, <1>7

(* Nothing is open before main reads the settings.                         *)
LEMMA InitRInv == RuntimeInit => RInv
<1> SUFFICES ASSUME RuntimeInit PROVE RInv
  OBVIOUS
<1>1. SInv /\ disp = "backoff"
  BY InitSInv DEF RuntimeInit, Init
<1>2. DefersInOrder /\ OpenAtStage
  BY DEF RuntimeInit, DefersInOrder, OpenAtStage
<1>3. WorkWhileRunning
  BY <1>1 DEF RuntimeInit, WorkWhileRunning
<1> QED
  BY <1>1, <1>2, <1>3 DEF RInv

(* Every step of the process preserves the invariant.                      *)
LEMMA NextRInv == RInv /\ [RuntimeNext]_rvars => RInv'
<1> SUFFICES ASSUME RInv, [RuntimeNext]_rvars PROVE RInv'
  OBVIOUS
<1>1. CASE UNCHANGED rvars
  <2>1. SInv'
    BY <1>1, NextSInv DEF RInv, rvars
  <2> QED
    BY <1>1, <2>1 DEF rvars, runtime, vars, RInv, DefersInOrder, OpenAtStage, WorkWhileRunning
<1> QED
  BY <1>1, StartKeeps, RunKeeps, ConsumeKeeps, ServiceKeeps, StopKeeps DEF RuntimeNext

(* The invariant holds of both processes, whatever the settings.           *)
THEOREM RuntimeInvariance == RuntimeSpec => []RInv
  BY InitRInv, NextRInv, PTL DEF RuntimeSpec

(* The pool's books hold inside the process too, through cancellation at   *)
(* any moment and the drain that follows.                                  *)
THEOREM RuntimeSlots == RuntimeSpec => [](SlotsAccounted /\ DeliveryFindsWorker)
<1>1. RInv => SlotsAccounted /\ DeliveryFindsWorker
  BY NarrowFindsWorker DEF RInv, SInv
<1> QED BY <1>1, RuntimeInvariance, PTL

(* The deferred closes of Run never close what a component still uses:     *)
(* group.Wait comes first, and they run in reverse of the opening.         *)
THEOREM ClosedAfterUse == RuntimeSpec => []NothingUsedAfterClose
<1>1. ASSUME RInv PROVE NothingUsedAfterClose
  <2>0. DefersInOrder /\ OpenAtStage /\ WorkWhileRunning /\ Len(defers) \in Nat
    BY <1>1 DEF RInv, DefersInOrder
  <2>1. DOMAIN defers = 1..Len(defers)
    BY <2>0 DEF DefersInOrder
  <2>2. \A i \in 1..Len(defers) : defers[i] \in Opened
    BY <2>1 DEF Opened
  <2>3. CASE Len(defers) = 7
    <3>1. {"telemetry", "db", "broker", "consumerBroker", "republishBroker",
           "samplingBroker", "publisher"} \subseteq Opened
      BY <2>0, <2>2, <2>3 DEF DefersInOrder
    <3> QED BY <2>0, <3>1 DEF NothingUsedAfterClose
  <2>4. CASE Len(defers) # 7
    <3>1. /\ loops = {} /\ (stage = "run" => process = "api" /\ Len(defers) = 2)
      BY <2>0, <2>4 DEF OpenAtStage, WorkWhileRunning
    <3>2. disp \in {"backoff", "stopped"}
      BY <2>0, <3>1 DEF WorkWhileRunning
    <3>3. server # "stopped" => {"db"} \subseteq Opened /\ process = "api"
      <4>1. Len(defers) = 2 => defers[2] = "db" /\ 2 \in 1..Len(defers)
        BY <2>0 DEF DefersInOrder
      <4>2. Len(defers) = 2 => "db" \in Opened
        BY <2>2, <4>1
      <4> QED BY <2>0, <3>1, <4>2 DEF WorkWhileRunning
    <3>4. "publisher" \notin Opened
      <4>1. \A i \in 1..Len(defers) : defers[i] # "publisher"
        <5> SUFFICES ASSUME NEW i \in 1..Len(defers) PROVE defers[i] # "publisher"
          OBVIOUS
        <5> DEFINE n == Len(defers)
        <5>1. i \in {1, 2, 3, 4, 5, 6} /\ i <= n
          <6>1. n \in Nat /\ n <= 7 /\ n # 7 /\ i \in 1..n
            BY <2>0, <2>4 DEF DefersInOrder
          <6> HIDE DEF n
          <6> QED BY <6>1
        <5> QED BY <2>0, <5>1 DEF DefersInOrder
      <4> QED BY <2>1, <4>1 DEF Opened
    <3>5. Opened # {} => "telemetry" \in Opened
      <4>1. Opened # {} => Len(defers) >= 1
        BY <2>0, <2>1 DEF Opened
      <4>2. Len(defers) >= 1 => defers[1] = "telemetry" /\ 1 \in 1..Len(defers)
        BY <2>0 DEF DefersInOrder
      <4> QED BY <2>2, <4>1, <4>2
    <3> QED BY <3>1, <3>2, <3>3, <3>4, <3>5 DEF NothingUsedAfterClose
  <2> QED BY <2>3, <2>4
<1> QED BY <1>1, RuntimeInvariance, PTL

=============================================================================
