-------------------------- MODULE PublisherProofs ---------------------------
(***************************************************************************)
(* Publish and republish, for any number of callers: what nil and          *)
(* ErrNotRouted mean, and why one slot in the returns buffer is enough.    *)
(***************************************************************************)
EXTENDS Publisher, TLAPS

(* operationMu is held exactly by the caller that is inside an operation.  *)
OneOperation == \A c \in Callers : pc[c] \in InOperation <=> owner = c

(* Somebody waits for the confirmation of a message.                       *)
Waiting == \E c \in Callers : pc[c] = "wait"

(* A message on its way, and the broker's answer to it, belong to the call *)
(* that waits; the returns buffer is empty until that answer fills it.     *)
OneExchange ==
    /\ inflight => Waiting /\ chan = "open" /\ frames = <<>> /\ confirm = "none" /\ buf = "empty"
    /\ frames # <<>> => Waiting /\ chan = "open" /\ confirm = "none"
    /\ frames # <<>> /\ Head(frames) = "return" => buf = "empty" /\ gave
    /\ frames \in {<<"ack">>, <<"nack">>} => took \/ buf = "own"

(* What the buffer and the confirmation say of the message being sent.     *)
Evidence ==
    /\ buf = "own" => gave
    /\ \A c \in Callers :
          /\ pc[c] \in {"setup", "send"} => buf = "empty"
          /\ pc[c] \in {"wait", "take"} => buf # "stale"
          /\ pc[c] = "wait" /\ confirm = "ack" => took \/ buf = "own"
          /\ pc[c] = "take" => took \/ buf = "own"

IInv == TypeOK /\ OneOperation /\ OneExchange /\ Evidence

-----------------------------------------------------------------------------
(* The caller inside an operation is alone there, and unless it waits for  *)
(* a confirmation nothing of a message is under way.                       *)
LEMMA Alone ==
    ASSUME IInv, NEW c \in Callers, pc[c] \in InOperation
    PROVE  /\ owner = c
           /\ \A d \in Callers \ {c} : pc[d] \in {"idle", "lock"}
           /\ Waiting <=> pc[c] = "wait"
           /\ pc[c] # "wait" => ~inflight /\ frames = <<>>
<1>1. owner = c /\ \A d \in Callers \ {c} : pc[d] \in {"idle", "lock"}
  BY DEF IInv, OneOperation, TypeOK
<1>2. Waiting <=> pc[c] = "wait"
  BY <1>1 DEF Waiting
<1> QED
  BY <1>1, <1>2 DEF IInv, OneExchange

(* While operationMu is free nothing of a message is under way.            *)
LEMMA NobodyInside ==
    ASSUME IInv, owner = None
    PROVE  ~inflight /\ frames = <<>> /\ \A d \in Callers : pc[d] \in {"idle", "lock"}
<1>1. \A d \in Callers : pc[d] \in {"idle", "lock"}
  BY CallerAssumption DEF IInv, OneOperation, TypeOK
<1> QED
  BY <1>1 DEF IInv, OneExchange, Waiting

(* Returning from a call, with the channel dropped if frames are left.     *)
LEMMA EndKeeps ==
    ASSUME IInv, NEW c \in Callers, pc[c] \in InOperation,
           NEW res \in {"ready", "nil", "unrouted", "error"}, NEW dropped \in BOOLEAN,
           End(c, res, dropped), conn' \in {"none", "up", "dead"},
           dropped \/ frames = <<>>
    PROVE  IInv'
<1>1. /\ owner = c
      /\ \A d \in Callers \ {c} : pc[d] \in {"idle", "lock"}
  BY Alone
<1>2. /\ pc' = [pc EXCEPT ![c] = "idle"] /\ owner' = None
      /\ confirm' = "none" /\ inflight' = FALSE /\ limited' = FALSE
      /\ frames' = <<>>
      /\ chan' \in {chan, "none"} /\ buf' \in {buf, "empty"}
      /\ UNCHANGED <<longLived, took, gave>>
      /\ \E r \in {res, "error"} : result' = [result EXCEPT ![c] = r]
  BY DEF End, At, Cleared
<1>3. \A d \in Callers : pc'[d] \in {"idle", "lock"}
  BY <1>1, <1>2 DEF IInv, TypeOK
<1>4. TypeOK'
  <2>1. result' \in [Callers -> {"none", "ready", "nil", "unrouted", "error"}]
    BY <1>2 DEF IInv, TypeOK
  <2> QED BY <1>2, <2>1 DEF IInv, TypeOK, InOperation
<1>5. OneOperation'
  BY <1>2, <1>3, CallerAssumption DEF OneOperation, InOperation
<1>6. OneExchange'
  BY <1>2 DEF OneExchange
<1>7. Evidence'
  BY <1>2, <1>3 DEF IInv, Evidence
<1> QED
  BY <1>4, <1>5, <1>6, <1>7 DEF IInv

(* The driver closes the channel: its frames are gone and a confirmation   *)
(* that has not come never will.                                           *)
LEMMA ChannelGoneKeeps ==
    ASSUME IInv, ChannelGone, conn' \in {"none", "up", "dead"},
           UNCHANGED <<longLived, limited, owner, pc, took, gave, result>>
    PROVE  IInv'
<1> USE DEF IInv, ChannelGone
<1>1. TypeOK'
  BY DEF TypeOK
<1>2. OneOperation' /\ OneExchange'
  BY DEF OneOperation, OneExchange
<1>3. Evidence'
  BY DEF Evidence
<1> QED
  BY <1>1, <1>2, <1>3

(* Moving on inside an operation, while no message is under way.           *)
LEMMA StepInside ==
    ASSUME IInv, NEW c \in Callers, pc[c] \in InOperation \ {"wait"},
           NEW p \in InOperation \ {"wait", "take"}, At(c, p),
           UNCHANGED <<longLived, owner, frames, confirm, inflight, took, gave, result>>,
           conn' \in {"none", "up", "dead"}, limited' \in BOOLEAN,
           chan' \in {"none", "open", "closed"},
           buf' \in {buf, "empty"}, p \in {"setup", "send"} => buf' = "empty"
    PROVE  IInv'
<1>1. /\ owner = c /\ ~inflight /\ frames = <<>>
      /\ \A d \in Callers \ {c} : pc[d] \in {"idle", "lock"}
  BY Alone
<1>2. pc'[c] = p /\ \A d \in Callers \ {c} : pc'[d] = pc[d]
  BY DEF At, IInv, TypeOK
<1>3. TypeOK'
  BY DEF IInv, TypeOK, At
<1>4. OneOperation'
  BY <1>1, <1>2 DEF IInv, OneOperation
<1>5. OneExchange'
  BY <1>1 DEF OneExchange
<1>6. Evidence'
  BY <1>1, <1>2 DEF IInv, Evidence
<1> QED
  BY <1>3, <1>4, <1>5, <1>6 DEF IInv

-----------------------------------------------------------------------------
(* A call begins, and takes operationMu: a return that is still in the     *)
(* buffer is now an earlier message's.                                     *)
LEMMA BeginKeeps ==
    ASSUME IInv, NEW c \in Callers, Call(c) \/ Lock(c)
    PROVE  IInv'
<1>1. CASE Call(c)
  <2>1. pc'[c] = "lock" /\ pc[c] = "idle" /\ \A d \in Callers \ {c} : pc'[d] = pc[d]
    BY <1>1 DEF Call, At, IInv, TypeOK
  <2>2. TypeOK'
    BY <1>1 DEF IInv, TypeOK, Call, At, amqp
  <2>3. OneOperation'
    BY <1>1, <2>1 DEF IInv, OneOperation, Call, InOperation
  <2>4. OneExchange'
    <3>1. Waiting => Waiting'
      BY <2>1 DEF Waiting
    <3> QED BY <1>1, <3>1 DEF IInv, OneExchange, Call, amqp
  <2>5. Evidence'
    BY <1>1, <2>1 DEF IInv, Evidence, Call, amqp
  <2> QED BY <2>2, <2>3, <2>4, <2>5 DEF IInv
<1>2. CASE Lock(c)
  <2>1. /\ pc'[c] = "connect" /\ owner' = c
        /\ \A d \in Callers \ {c} : pc'[d] = pc[d]
    BY <1>2 DEF Lock, At, IInv, TypeOK
  <2>2. /\ ~inflight /\ frames = <<>>
        /\ \A d \in Callers : pc[d] \in {"idle", "lock"}
    BY <1>2, NobodyInside DEF Lock
  <2>3. TypeOK'
    BY <1>2 DEF IInv, TypeOK, Lock, At, InOperation
  <2>4. OneOperation'
    BY <2>1, <2>2 DEF OneOperation, InOperation
  <2>5. OneExchange'
    BY <1>2, <2>2 DEF OneExchange, Lock
  <2>6. Evidence'
    BY <1>2, <2>1, <2>2 DEF Evidence, Lock
  <2> QED BY <2>3, <2>4, <2>5, <2>6 DEF IInv
<1> QED
  BY <1>1, <1>2

(* withDeadline and ensureChannel, up to the point of sending.             *)
LEMMA PrepareKeeps ==
    ASSUME IInv, NEW c \in Callers,
           \/ Connect(c) \/ DialFails(c) \/ Check(c) \/ OpenChannel(c) \/ Setup(c)
           \/ Warmed(c) \/ Drain(c) \/ CallFails(c) \/ SocketDeadline(c)
    PROVE  IInv'
<1>0. conn \in {"none", "up", "dead"} /\ limited \in BOOLEAN /\ chan \in {"none", "open", "closed"}
  BY DEF IInv, TypeOK
<1>1. CASE Connect(c)
  BY <1>0, <1>1, StepInside DEF Connect, amqp, InOperation
<1>2. CASE Check(c)
  BY <1>0, <1>2, StepInside DEF Check, amqp, InOperation
<1>3. CASE OpenChannel(c)
  <2>1. frames' = frames
    BY <1>3, Alone DEF OpenChannel, InOperation
  <2> QED BY <1>0, <1>3, <2>1, StepInside DEF OpenChannel, InOperation
<1>4. CASE Setup(c) /\ longLived
  BY <1>0, <1>4, StepInside DEF Setup, amqp, InOperation
<1>5. CASE Drain(c)
  BY <1>0, <1>5, StepInside DEF Drain, InOperation
<1>6. CASE DialFails(c) \/ Warmed(c)
  <2>1. frames = <<>> /\ pc[c] \in InOperation
    BY <1>6, Alone DEF DialFails, Warmed, InOperation
  <2> QED BY <1>0, <1>6, <2>1, EndKeeps DEF DialFails, Warmed
<1>7. CASE CallFails(c) \/ SocketDeadline(c)
  <2>1. pc[c] \in InOperation
    BY <1>7 DEF CallFails, SocketDeadline, InOperation
  <2> QED BY <1>0, <1>7, <2>1, EndKeeps DEF CallFails, SocketDeadline
<1>8. CASE Setup(c) /\ ~longLived
  <2>1. buf = "empty"
    BY <1>8 DEF Setup, IInv, Evidence
  <2> QED BY <1>0, <1>8, <2>1, StepInside DEF Setup, amqp, InOperation
<1> QED
  BY <1>1, <1>2, <1>3, <1>4, <1>5, <1>6, <1>7, <1>8

(* The message goes out.                                                   *)
LEMMA SendKeeps ==
    ASSUME IInv, NEW c \in Callers, Send(c)
    PROVE  IInv'
<1>1. /\ pc[c] = "send" /\ owner = c /\ frames = <<>> /\ buf = "empty"
      /\ \A d \in Callers \ {c} : pc[d] \in {"idle", "lock"}
  BY Alone DEF Send, InOperation, IInv, Evidence
<1>2. /\ pc'[c] = "wait" /\ \A d \in Callers \ {c} : pc'[d] = pc[d]
      /\ chan' = "open" /\ confirm' = "none"
      /\ UNCHANGED <<owner, buf, frames, took, gave>>
  BY DEF Send, At, IInv, TypeOK
<1>3. TypeOK'
  BY DEF IInv, TypeOK, Send, At, InOperation
<1>4. OneOperation'
  BY <1>1, <1>2 DEF OneOperation, InOperation
<1>5. OneExchange'
  BY <1>1, <1>2 DEF OneExchange, Waiting
<1>6. Evidence'
  BY <1>1, <1>2 DEF Evidence
<1> QED
  BY <1>3, <1>4, <1>5, <1>6 DEF IInv

(* The confirmation, its absence, and the look at the returns buffer.      *)
LEMMA SettleKeeps ==
    ASSUME IInv, NEW c \in Callers, WaitExpires(c) \/ Confirmed(c) \/ TakeReturn(c)
    PROVE  IInv'
<1>0. conn \in {"none", "up", "dead"} /\ pc[c] \in InOperation
  BY DEF IInv, TypeOK, WaitExpires, Confirmed, TakeReturn, InOperation
<1>1. CASE WaitExpires(c)
  BY <1>0, <1>1, EndKeeps DEF WaitExpires
<1>2. CASE Confirmed(c) /\ confirm = "nack"
  <2>1. frames = <<>>
    BY <1>2 DEF IInv, OneExchange
  <2> QED BY <1>0, <1>2, <2>1, EndKeeps DEF Confirmed
<1>3. CASE Confirmed(c) /\ confirm # "nack"
  <2>1. /\ owner = c /\ \A d \in Callers \ {c} : pc[d] \in {"idle", "lock"}
    BY <1>0, Alone
  <2>2. /\ confirm = "ack" /\ pc[c] = "wait"
        /\ pc'[c] = "take" /\ \A d \in Callers \ {c} : pc'[d] = pc[d]
        /\ UNCHANGED <<longLived, conn, limited, owner, amqp, took, gave, result>>
    BY <1>3 DEF Confirmed, At, IInv, TypeOK
  <2>3. TypeOK'
    BY <1>3, <2>2 DEF IInv, TypeOK, Confirmed, At, InOperation, amqp
  <2>4. OneOperation'
    BY <2>1, <2>2 DEF OneOperation, InOperation
  <2>5. OneExchange'
    BY <2>2 DEF IInv, OneExchange, amqp
  <2>6. Evidence'
    BY <2>1, <2>2 DEF IInv, Evidence, amqp
  <2> QED BY <2>3, <2>4, <2>5, <2>6 DEF IInv
<1>4. CASE TakeReturn(c)
  <2>1. /\ owner = c /\ frames = <<>> /\ ~inflight
        /\ \A d \in Callers \ {c} : pc[d] \in {"idle", "lock"}
    BY <1>0, <1>4, Alone DEF TakeReturn
  <2>2. \/ \E res \in {"nil", "unrouted"} : End(c, res, FALSE)
        \/ /\ At(c, "idle") /\ result' = [result EXCEPT ![c] = "unrouted"]
           /\ owner' = None /\ limited' = FALSE
           /\ buf' = "empty" /\ confirm' = "none"
           /\ UNCHANGED <<longLived, chan, frames, inflight, took, gave>>
    BY <1>4 DEF TakeReturn
  <2>3. CASE \E res \in {"nil", "unrouted"} : End(c, res, FALSE)
    BY <1>0, <1>4, <2>1, <2>3, EndKeeps DEF TakeReturn
  <2>4. CASE /\ At(c, "idle") /\ result' = [result EXCEPT ![c] = "unrouted"]
             /\ owner' = None /\ limited' = FALSE
             /\ buf' = "empty" /\ confirm' = "none"
             /\ UNCHANGED <<longLived, chan, frames, inflight, took, gave>>
    <3>1. \A d \in Callers : pc'[d] \in {"idle", "lock"}
      BY <2>1, <2>4 DEF At, IInv, TypeOK
    <3>2. TypeOK'
      BY <1>0, <1>4, <2>4 DEF IInv, TypeOK, At, TakeReturn, InOperation
    <3>3. OneOperation'
      BY <2>4, <3>1, CallerAssumption DEF OneOperation, InOperation
    <3>4. OneExchange' /\ Evidence'
      BY <2>1, <2>4, <3>1 DEF OneExchange, Evidence
    <3> QED BY <3>2, <3>3, <3>4 DEF IInv
  <2> QED BY <2>2, <2>3, <2>4
<1> QED
  BY <1>1, <1>2, <1>3, <1>4

(* The broker answers: a return comes before the confirmation.             *)
LEMMA AnswerKeeps ==
    ASSUME IInv, BrokerAnswers
    PROVE  IInv'
<1>1. PICK routed \in BOOLEAN, answer \in {"ack", "nack"} :
         /\ took' = routed /\ gave' = ~routed
         /\ frames' = IF routed THEN <<answer>> ELSE <<"return", answer>>
  BY DEF BrokerAnswers
<1>2. /\ Waiting /\ chan = "open" /\ frames = <<>> /\ confirm = "none" /\ buf = "empty"
      /\ ~inflight'
      /\ UNCHANGED <<longLived, conn, limited, owner, pc, chan, buf, confirm, result>>
  BY DEF BrokerAnswers, IInv, OneExchange
<1>3. TypeOK'
  <2>1. frames' \in {<<"ack">>, <<"nack">>, <<"return", "ack">>, <<"return", "nack">>}
    BY <1>1
  <2>2. took' \in BOOLEAN /\ gave' \in BOOLEAN
    BY <1>1
  <2>3. inflight' \in BOOLEAN
    BY DEF BrokerAnswers
  <2> QED BY <1>2, <2>1, <2>2, <2>3 DEF IInv, TypeOK
<1>4. OneOperation'
  BY <1>2 DEF IInv, OneOperation
<1>5. Waiting'
  BY <1>2 DEF Waiting
<1>6. OneExchange'
  <2>1. CASE routed
    BY <1>1, <1>2, <1>5, <2>1 DEF OneExchange
  <2>2. CASE ~routed
    <3>1. frames' = <<"return", answer>> /\ gave'
      BY <1>1, <2>2
    <3>2. frames' \notin {<<"ack">>, <<"nack">>}
      BY <3>1
    <3> QED BY <1>2, <1>5, <3>1, <3>2 DEF OneExchange
  <2> QED BY <2>1, <2>2
<1>7. Evidence'
  <2>1. PICK d \in Callers : pc[d] = "wait"
    BY <1>2 DEF Waiting
  <2>2. \A c \in Callers : pc[c] \in {"idle", "lock", "wait"}
    BY <2>1, Alone DEF InOperation
  <2> QED BY <1>2, <2>2 DEF IInv, Evidence
<1> QED
  BY <1>3, <1>4, <1>6, <1>7 DEF IInv

(* The frames of one answer: a confirmation alone, or after a return.      *)
LEMMA AnswerAlone ==
    ASSUME NEW answer
    PROVE  Head(<<answer>>) = answer /\ Tail(<<answer>>) = <<>>
  OBVIOUS

(* The return comes first, and what is left is the confirmation.           *)
LEMMA AnswerAfterReturn ==
    ASSUME NEW answer
    PROVE  Head(<<"return", answer>>) = "return" /\ Tail(<<"return", answer>>) = <<answer>>
  OBVIOUS

(* The reader hands over one frame.                                        *)
LEMMA ReaderKeeps ==
    ASSUME IInv, ReaderDelivers
    PROVE  IInv'
<1>1. /\ Waiting /\ chan = "open" /\ confirm = "none" /\ ~inflight
      /\ UNCHANGED <<longLived, conn, limited, owner, pc, chan, inflight, took, gave, result>>
  BY DEF ReaderDelivers, IInv, OneExchange
<1>2. Waiting' /\ OneOperation'
  BY <1>1 DEF Waiting, IInv, OneOperation
<1>3. frames \in {<<"ack">>, <<"nack">>, <<"return", "ack">>, <<"return", "nack">>}
  BY DEF ReaderDelivers, IInv, TypeOK
<1>4. CASE frames \in {<<"ack">>, <<"nack">>}
  <2>1. Head(frames) \in {"ack", "nack"} /\ Tail(frames) = <<>>
    BY <1>4, AnswerAlone
  <2>2. frames' = <<>> /\ confirm' \in {"ack", "nack"} /\ buf' = buf /\ (took \/ buf = "own")
    BY <1>4, <2>1 DEF ReaderDelivers, IInv, OneExchange
  <2>3. TypeOK'
    BY <1>1, <2>2 DEF IInv, TypeOK
  <2>4. OneExchange'
    BY <1>1, <2>2 DEF OneExchange
  <2>5. Evidence'
    BY <1>1, <2>2 DEF IInv, Evidence
  <2> QED BY <1>2, <2>3, <2>4, <2>5 DEF IInv
<1>5. CASE frames \in {<<"return", "ack">>, <<"return", "nack">>}
  <2>1. Head(frames) = "return" /\ Tail(frames) \in {<<"ack">>, <<"nack">>}
    BY <1>5, AnswerAfterReturn
  <2>2. frames' \in {<<"ack">>, <<"nack">>} /\ confirm' = confirm /\ buf' = "own" /\ gave
    BY <1>3, <2>1 DEF ReaderDelivers, IInv, OneExchange
  <2>3. TypeOK'
    BY <1>1, <2>2 DEF IInv, TypeOK
  <2>4. Head(frames') # "return"
    BY <2>2
  <2>5. OneExchange'
    BY <1>1, <1>2, <2>2, <2>4 DEF OneExchange
  <2>6. Evidence'
    <3>1. \A c \in Callers : pc[c] \notin {"setup", "send"}
      <4>1. PICK d \in Callers : pc[d] = "wait"
        BY <1>1 DEF Waiting
      <4> QED BY <4>1, Alone DEF InOperation
    <3> QED BY <1>1, <2>2, <3>1 DEF IInv, Evidence
  <2> QED BY <1>2, <2>3, <2>5, <2>6 DEF IInv
<1> QED
  BY <1>3, <1>4, <1>5

-----------------------------------------------------------------------------
(* Nothing has been sent at first.                                         *)
LEMMA InitIInv == Init => IInv
<1> SUFFICES ASSUME Init PROVE IInv
  OBVIOUS
<1>1. TypeOK
  BY DEF Init, TypeOK
<1>2. OneOperation
  BY CallerAssumption DEF Init, OneOperation, InOperation
<1>3. OneExchange /\ Evidence
  BY DEF Init, OneExchange, Evidence
<1> QED
  BY <1>1, <1>2, <1>3 DEF IInv

(* Every step of a caller, of the broker or of the driver keeps it.        *)
LEMMA NextIInv == IInv /\ [Next]_vars => IInv'
<1> SUFFICES ASSUME IInv, [Next]_vars PROVE IInv'
  OBVIOUS
<1>1. CASE UNCHANGED vars
  BY <1>1 DEF vars, amqp, IInv, TypeOK, OneOperation, OneExchange, Waiting, Evidence
<1>2. CASE ChannelDies \/ ConnectionDies
  BY <1>2, ChannelGoneKeeps DEF ChannelDies, ConnectionDies, IInv, TypeOK
<1>3. CASE BrokerAnswers \/ ReaderDelivers
  BY <1>3, AnswerKeeps, ReaderKeeps
<1>4. ASSUME NEW c \in Callers, CallerStep(c) PROVE IInv'
  BY <1>4, BeginKeeps, PrepareKeeps, SendKeeps, SettleKeeps DEF CallerStep
<1> QED
  BY <1>1, <1>2, <1>3, <1>4 DEF Next

(* The invariant holds for any number of callers of one connection.        *)
THEOREM PublisherInvariance == Spec => []IInv
  BY InitIInv, NextIInv, PTL DEF Spec

(* Locks, channel, buffer and frames hold what their types say; the reader *)
(* never sees more than a return and the confirmation that follows it.     *)
THEOREM PublisherTypes == Spec => []TypeOK
<1>1. IInv => TypeOK
  BY DEF IInv
<1> QED BY <1>1, PublisherInvariance, PTL

(* The buffer of one that NotifyReturn is given never blocks the driver's  *)
(* reader: whatever was left in it is drained before the next Send.        *)
THEOREM OneSlotIsEnough == Spec => []ReaderNeverWaits
<1>1. IInv => ReaderNeverWaits
  BY DEF IInv, OneExchange, ReaderNeverWaits
<1> QED BY <1>1, PublisherInvariance, PTL

(* Only takeReturn lets a call return nil or ErrNotRouted.                 *)
LEMMA OnlyTakeReports ==
    ASSUME IInv, Next, NEW c \in Callers, result'[c] # result[c],
           result'[c] = "nil" \/ (longLived /\ result'[c] = "unrouted")
    PROVE  TakeReturn(c)
<1>1. result \in [Callers -> {"none", "ready", "nil", "unrouted", "error"}]
  BY DEF IInv, TypeOK
<1>2. ASSUME NEW d \in Callers, NEW res \in {"ready", "error"}, NEW b \in BOOLEAN, End(d, res, b)
      PROVE  FALSE
  BY <1>1, <1>2 DEF End, Cleared
<1>3. ~(ChannelDies \/ ConnectionDies \/ BrokerAnswers \/ ReaderDelivers)
  BY DEF ChannelDies, ConnectionDies, BrokerAnswers, ReaderDelivers
<1>4. PICK d \in Callers : CallerStep(d)
  BY <1>3 DEF Next
<1>5. ~(Call(d) \/ Lock(d) \/ Connect(d) \/ Check(d) \/ OpenChannel(d) \/ Setup(d) \/ Drain(d) \/ Send(d))
  BY <1>1 DEF Call, Lock, Connect, Check, OpenChannel, Setup, Drain, Send
<1>6. ~(DialFails(d) \/ Warmed(d) \/ CallFails(d) \/ SocketDeadline(d) \/ WaitExpires(d))
  BY <1>2 DEF DialFails, Warmed, CallFails, SocketDeadline, WaitExpires
<1>7. ~Confirmed(d)
  BY <1>2 DEF Confirmed
<1>8. TakeReturn(d)
  BY <1>4, <1>5, <1>6, <1>7 DEF CallerStep
<1>9. d = c
  BY <1>1, <1>8 DEF TakeReturn, End
<1> QED
  BY <1>8, <1>9

(* Publish returns nil only for a message that a queue has taken: an ack   *)
(* with no return of its own proves it was routed.                         *)
THEOREM NilIsTaken == Spec => NilMeansTaken
<1> DEFINE A == \A c \in Callers : (result[c] = "none" /\ result'[c] = "nil") => took
<1>1. ASSUME IInv, Next PROVE A
  <2> SUFFICES ASSUME NEW c \in Callers, result[c] = "none", result'[c] = "nil" PROVE took
    OBVIOUS
  <2>1. TakeReturn(c) /\ pc[c] = "take"
    BY <1>1, OnlyTakeReports DEF TakeReturn
  <2>2. buf = "empty"
    BY <1>1, <2>1 DEF TakeReturn, End, Cleared, IInv, TypeOK
  <2> QED BY <1>1, <2>1, <2>2 DEF IInv, Evidence
<1>2. IInv /\ [Next]_vars => [A]_vars
  BY <1>1
<1> QED BY <1>2, PublisherInvariance, PTL DEF Spec, NilMeansTaken

(* Publish blames no message for an earlier one's return: drainReturns and *)
(* the lock leave nothing stale to be found by takeReturn.                 *)
THEOREM NeverBlamesStale == Spec => NoStaleBlame
<1> DEFINE A == \A c \in Callers :
                   (longLived /\ result[c] = "none" /\ result'[c] = "unrouted") => gave
<1>1. ASSUME IInv, Next PROVE A
  <2> SUFFICES ASSUME NEW c \in Callers, longLived, result[c] = "none", result'[c] = "unrouted"
               PROVE  gave
    OBVIOUS
  <2>1. TakeReturn(c) /\ pc[c] = "take"
    BY <1>1, OnlyTakeReports DEF TakeReturn
  <2>2. buf # "empty"
    BY <1>1, <2>1 DEF TakeReturn, End, Cleared, IInv, TypeOK
  <2> QED BY <1>1, <2>1, <2>2 DEF IInv, Evidence, TypeOK
<1>2. IInv /\ [Next]_vars => [A]_vars
  BY <1>1
<1> QED BY <1>2, PublisherInvariance, PTL DEF Spec, NoStaleBlame

=============================================================================
