---------------------------- MODULE OutboxProofs ----------------------------
(***************************************************************************)
(* Safety of the outbox relay for every number of relays and messages,     *)
(* every batch size and every choice of durations: the inductive invariant *)
(* IInv, the safety properties it implies, and the refinement of           *)
(* AtLeastOnce.                                                            *)
(***************************************************************************)
EXTENDS Outbox, TLAPS

USE RelayAssumption, TimeAssumption

(* Time arithmetic used by every step that ticks.                          *)
LEMMA CountdownFacts ==
    ASSUME NEW n \in Nat
    PROVE  /\ Countdown(n) \in Nat /\ Countdown(n) <= n
           /\ \A k \in Nat : k >= n => Countdown(k) >= Countdown(n)
           /\ Countdown(n) > 0 => n > 0
  BY DEF Countdown

(* The rows and relays the service starts with satisfy the invariant.      *)
LEMMA InitIInv == Init => IInv
<1> SUFFICES ASSUME Init PROVE IInv
  OBVIOUS
<1> USE DEF Init
<1>1. TypeOK
  BY DEF TypeOK, Statuses, Results, PCs
<1>2. LeaseColumnsAgree /\ PublishedIsAccepted /\ OnlyUnencodableFails
  BY DEF LeaseColumnsAgree, PublishedIsAccepted, OnlyUnencodableFails
<1>3. LocalsAgree
  BY DEF LocalsAgree
<1>4. WindowInsideLease /\ ReserveKept
  BY DEF WindowInsideLease, ReserveKept
<1> QED
  BY <1>1, <1>2, <1>3, <1>4 DEF IInv

(* The end of publishOne and of runOnce, when no row and no acceptance     *)
(* changes: dropping leases and locals cannot break the invariant.         *)
LEMMA CycleOverIInv ==
    ASSUME IInv, NEW r \in Relays, NEW p \in {"idle", "down"},
           CycleOver(r, p), UNCHANGED <<rows, accepted>>
    PROVE  IInv'
<1> USE DEF CycleOver, Goto, rows, IInv, TypeOK
<1>1. TypeOK'
  BY DEF Results, PCs
<1>2. (LeaseColumnsAgree /\ PublishedIsAccepted /\ OnlyUnencodableFails)'
  BY DEF LeaseColumnsAgree, PublishedIsAccepted, OnlyUnencodableFails
<1>3. LocalsAgree'
  BY DEF LocalsAgree
<1>4. WindowInsideLease'
  BY DEF WindowInsideLease
<1>5. ReserveKept'
  BY DEF ReserveKept
<1> QED
  BY <1>1, <1>2, <1>3, <1>4, <1>5 DEF IInv

(* A claim touches only rows that are due, hence rows nobody holds in a    *)
(* window that is still running.                                           *)
LEMMA ClaimRows ==
    ASSUME IInv, NEW r \in Relays, NEW batch \in SUBSET Messages, Claim(r, batch)
    PROVE  /\ status' \in [Messages -> Statuses]
           /\ lockedBy' \in [Messages -> Relays \cup {NoRelay}]
           /\ lockLeft' \in [Messages -> 0..LeaseDuration]
           /\ UNCHANGED <<dueIn, attempts>>
           /\ LeaseColumnsAgree'
           /\ \A m \in batch : lockedBy'[m] = r /\ lockLeft'[m] = LeaseDuration
           /\ \A m \in Messages : status'[m] \in {"published", "failed"}
                                     => status'[m] = status[m]
           /\ \A m \in Messages : lockLeft[m] > 0 /\ lockedBy[m] # NoRelay
                 => m \notin batch /\ lockedBy'[m] = lockedBy[m] /\ lockLeft'[m] = lockLeft[m]
<1> USE DEF Claim, Due, IInv, TypeOK, LeaseColumnsAgree, Statuses
<1>1. \A m \in batch : Due(m)
  OBVIOUS
<1>2. \A m \in Messages : lockLeft[m] > 0 /\ lockedBy[m] # NoRelay => m \notin batch
  BY <1>1
<1> QED
  BY <1>1, <1>2

(* A settlement touches one row, held by r, and leaves every other alone.  *)
LEMMA MarkRows ==
    ASSUME IInv, NEW r \in Relays, pc[r] = "settling", Mark(r, cur[r])
    PROVE  /\ cur[r] \in Messages /\ Holds(r, cur[r])
           /\ status' \in [Messages -> Statuses]
           /\ lockedBy' \in [Messages -> Relays \cup {NoRelay}]
           /\ lockLeft' \in [Messages -> 0..LeaseDuration]
           /\ dueIn' \in [Messages -> 0..BackoffMax]
           /\ attempts' \in [Messages -> 0..MaxExponent]
           /\ LeaseColumnsAgree'
           /\ \A m \in Messages \ {cur[r]} :
                 /\ status'[m] = status[m]
                 /\ lockedBy'[m] = lockedBy[m]
                 /\ lockLeft'[m] = lockLeft[m]
           /\ status'[cur[r]] # "publishing"
           /\ status'[cur[r]] = "published" => cur[r] \in accepted
           /\ status'[cur[r]] = "failed" => cur[r] \in Unencodable
<1> DEFINE m == cur[r]
<1>1. m \in Messages /\ Holds(r, m)
  BY DEF IInv, LocalsAgree, Mark
<1>2. BumpedAttempts(m) \in 0..MaxExponent
  BY <1>1 DEF BumpedAttempts, IInv, TypeOK
<1>3. PICK s \in Statuses, d \in 0..BackoffMax :
         /\ MarkAs(m, s, d)
         /\ s # "publishing"
         /\ s = "published" => m \in accepted
         /\ s = "failed" => m \in Unencodable
  <2> USE DEF Statuses
  <2>1. CASE result[r] = "ok"
    BY <1>1, <2>1 DEF Mark, IInv, TypeOK, LocalsAgree
  <2>2. CASE result[r] = "permanent"
    BY <1>1, <2>2 DEF Mark, IInv, TypeOK, LocalsAgree
  <2>3. CASE result[r] = "transient"
    BY <1>1, <2>3 DEF Mark
  <2> QED
    BY <2>1, <2>2, <2>3 DEF Mark
<1> HIDE DEF m
<1>4. LeaseColumnsAgree'
  BY <1>1, <1>3 DEF MarkAs, IInv, TypeOK, LeaseColumnsAgree
<1>5. /\ status' = [status EXCEPT ![m] = s]
      /\ lockedBy' = [lockedBy EXCEPT ![m] = NoRelay]
      /\ lockLeft' = [lockLeft EXCEPT ![m] = 0]
      /\ dueIn' = [dueIn EXCEPT ![m] = d]
      /\ attempts' = [attempts EXCEPT ![m] = BumpedAttempts(m)]
  BY <1>3 DEF MarkAs
<1>6. /\ status' \in [Messages -> Statuses]
      /\ lockedBy' \in [Messages -> Relays \cup {NoRelay}]
      /\ lockLeft' \in [Messages -> 0..LeaseDuration]
      /\ dueIn' \in [Messages -> 0..BackoffMax]
      /\ attempts' \in [Messages -> 0..MaxExponent]
  <2>1. status' \in [Messages -> Statuses] /\ lockedBy' \in [Messages -> Relays \cup {NoRelay}]
    BY <1>5 DEF IInv, TypeOK
  <2>2. lockLeft' \in [Messages -> 0..LeaseDuration]
    <3>1. 0 \in 0..LeaseDuration
      OBVIOUS
    <3> QED
      BY <1>5, <3>1 DEF IInv, TypeOK
  <2>3. dueIn' \in [Messages -> 0..BackoffMax]
    BY <1>5 DEF IInv, TypeOK
  <2>4. attempts' \in [Messages -> 0..MaxExponent]
    BY <1>2, <1>5 DEF IInv, TypeOK
  <2> QED
    BY <2>1, <2>2, <2>3, <2>4
<1>7. \A n \in Messages \ {m} :
         status'[n] = status[n] /\ lockedBy'[n] = lockedBy[n] /\ lockLeft'[n] = lockLeft[n]
  BY <1>5 DEF IInv, TypeOK
<1>8. status'[m] = s
  BY <1>1, <1>5 DEF IInv, TypeOK
<1> QED
  BY <1>1, <1>3, <1>4, <1>6, <1>7, <1>8 DEF m

(* The lease is acquired: rows change, and the batch becomes todo.         *)
LEMMA LeaseIInv ==
    ASSUME IInv, NEW r \in Relays, Lease(r)
    PROVE  IInv'
<1>1. PICK batch \in SUBSET Messages :
         Claim(r, batch) /\ todo' = [todo EXCEPT ![r] = batch]
  BY DEF Lease
<1>2. /\ status' \in [Messages -> Statuses]
      /\ lockedBy' \in [Messages -> Relays \cup {NoRelay}]
      /\ lockLeft' \in [Messages -> 0..LeaseDuration]
      /\ UNCHANGED <<dueIn, attempts>>
      /\ LeaseColumnsAgree'
      /\ \A m \in batch : lockedBy'[m] = r /\ lockLeft'[m] = LeaseDuration
      /\ \A m \in Messages : status'[m] \in {"published", "failed"}
                                => status'[m] = status[m]
      /\ \A m \in Messages : lockLeft[m] > 0 /\ lockedBy[m] # NoRelay
            => m \notin batch /\ lockedBy'[m] = lockedBy[m] /\ lockLeft'[m] = lockLeft[m]
  BY <1>1, ClaimRows
<1> USE DEF Lease, IInv
<1>3. TypeOK'
  BY <1>1, <1>2 DEF TypeOK, PCs
<1>4. (PublishedIsAccepted /\ OnlyUnencodableFails)'
  BY <1>2 DEF PublishedIsAccepted, OnlyUnencodableFails
<1>5. LocalsAgree'
  BY <1>1 DEF LocalsAgree, TypeOK
<1>6. WindowInsideLease'
  <2> SUFFICES ASSUME NEW s \in Relays, NEW m \in Messages,
                      left'[s] > 0, m \in todo'[s] \/ m = cur'[s]
               PROVE  lockedBy'[m] = s /\ lockLeft'[m] >= left'[s]
    BY DEF WindowInsideLease
  <2>1. CASE s = r
    <3>1. m \in batch
      BY <1>1, <2>1 DEF LocalsAgree, TypeOK
    <3> QED
      BY <1>2, <2>1, <3>1 DEF TypeOK
  <2>2. CASE s # r
    <3>1. left'[s] = left[s] /\ (m \in todo[s] \/ m = cur[s])
      BY <1>1, <2>2 DEF TypeOK
    <3>2. lockedBy[m] = s /\ lockLeft[m] >= left[s] /\ lockLeft[m] > 0
      BY <3>1 DEF WindowInsideLease, TypeOK
    <3> QED
      BY <1>2, <3>1, <3>2
  <2> QED
    BY <2>1, <2>2
<1>7. ReserveKept'
  BY DEF ReserveKept, TypeOK
<1> QED
  BY <1>2, <1>3, <1>4, <1>5, <1>6, <1>7

(* The claim whose answer is lost: rows change, the relay knows nothing.   *)
LEMMA LeaseReplyLostIInv ==
    ASSUME IInv, NEW r \in Relays, LeaseReplyLost(r)
    PROVE  IInv'
<1>1. PICK batch \in SUBSET Messages : Claim(r, batch)
  BY DEF LeaseReplyLost
<1>2. /\ status' \in [Messages -> Statuses]
      /\ lockedBy' \in [Messages -> Relays \cup {NoRelay}]
      /\ lockLeft' \in [Messages -> 0..LeaseDuration]
      /\ UNCHANGED <<dueIn, attempts>>
      /\ LeaseColumnsAgree'
      /\ \A m \in Messages : status'[m] \in {"published", "failed"}
                                => status'[m] = status[m]
      /\ \A m \in Messages : lockLeft[m] > 0 /\ lockedBy[m] # NoRelay
            => m \notin batch /\ lockedBy'[m] = lockedBy[m] /\ lockLeft'[m] = lockLeft[m]
  BY <1>1, ClaimRows
<1> USE DEF LeaseReplyLost, CycleOver, Goto, IInv
<1>3. TypeOK'
  BY <1>2 DEF TypeOK, PCs, Results
<1>4. (PublishedIsAccepted /\ OnlyUnencodableFails)'
  BY <1>2 DEF PublishedIsAccepted, OnlyUnencodableFails
<1>5. LocalsAgree'
  BY DEF LocalsAgree, TypeOK
<1>6. WindowInsideLease'
  <2> SUFFICES ASSUME NEW s \in Relays, NEW m \in Messages,
                      left'[s] > 0, m \in todo'[s] \/ m = cur'[s]
               PROVE  lockedBy'[m] = s /\ lockLeft'[m] >= left'[s]
    BY DEF WindowInsideLease
  <2>1. s # r /\ left'[s] = left[s] /\ (m \in todo[s] \/ m = cur[s])
    BY DEF TypeOK
  <2>2. lockedBy[m] = s /\ lockLeft[m] >= left[s] /\ lockLeft[m] > 0
    BY <2>1 DEF WindowInsideLease, TypeOK
  <2> QED
    BY <1>2, <2>1, <2>2
<1>7. ReserveKept'
  BY DEF ReserveKept, TypeOK
<1> QED
  BY <1>2, <1>3, <1>4, <1>5, <1>6, <1>7

(* A settlement, whether the loop goes on (Settle) or the cycle ends with  *)
(* an error the relay sees in its place (SettleReplyLost).                 *)
LEMMA SettleIInv ==
    ASSUME IInv, NEW r \in Relays, pc[r] = "settling", Mark(r, cur[r]),
           UNCHANGED accepted,
           \/ Goto(r, "loop") /\ UNCHANGED <<todo, left>>
           \/ CycleOver(r, "idle")
    PROVE  IInv'
<1>1. /\ cur[r] \in Messages /\ Holds(r, cur[r])
      /\ status' \in [Messages -> Statuses]
      /\ lockedBy' \in [Messages -> Relays \cup {NoRelay}]
      /\ lockLeft' \in [Messages -> 0..LeaseDuration]
      /\ dueIn' \in [Messages -> 0..BackoffMax]
      /\ attempts' \in [Messages -> 0..MaxExponent]
      /\ LeaseColumnsAgree'
      /\ \A m \in Messages \ {cur[r]} :
            /\ status'[m] = status[m]
            /\ lockedBy'[m] = lockedBy[m]
            /\ lockLeft'[m] = lockLeft[m]
      /\ status'[cur[r]] = "published" => cur[r] \in accepted
      /\ status'[cur[r]] = "failed" => cur[r] \in Unencodable
  BY MarkRows
<1> USE DEF CycleOver, Goto, IInv
<1>2. TypeOK'
  <2>1. CASE Goto(r, "loop") /\ UNCHANGED <<todo, left>>
    BY <1>1, <2>1 DEF TypeOK, PCs, Results
  <2>2. CASE CycleOver(r, "idle")
    BY <1>1, <2>2 DEF TypeOK, PCs, Results
  <2> QED
    BY <2>1, <2>2
<1>3. (PublishedIsAccepted /\ OnlyUnencodableFails)'
  BY <1>1 DEF PublishedIsAccepted, OnlyUnencodableFails
<1>4. LocalsAgree'
  BY DEF LocalsAgree, TypeOK
<1>5. WindowInsideLease'
  <2> SUFFICES ASSUME NEW s \in Relays, NEW m \in Messages,
                      left'[s] > 0, m \in todo'[s] \/ m = cur'[s]
               PROVE  lockedBy'[m] = s /\ lockLeft'[m] >= left'[s]
    BY DEF WindowInsideLease
  <2>1. left'[s] = left[s] /\ (m \in todo[s] \/ m = cur[s])
    BY DEF TypeOK
  <2>2. lockedBy[m] = s /\ lockLeft[m] >= left[s]
    BY <2>1 DEF WindowInsideLease
  <2>3. m # cur[r]
    <3>1. CASE s = r
      BY <3>1 DEF LocalsAgree, TypeOK
    <3>2. CASE s # r
      BY <1>1, <2>2, <3>2 DEF Holds
    <3> QED
      BY <3>1, <3>2
  <2> QED
    BY <1>1, <2>1, <2>2, <2>3
<1>6. ReserveKept'
  BY DEF ReserveKept, TypeOK
<1> QED
  BY <1>1, <1>2, <1>3, <1>4, <1>5, <1>6

(* Time passes: a lease loses exactly what the window inside it loses.     *)
LEMMA TickIInv ==
    ASSUME IInv, Tick
    PROVE  IInv'
<1> USE DEF Tick, IInv
<1>1. TypeOK'
  BY DEF TypeOK, Countdown
<1>2. (LeaseColumnsAgree /\ PublishedIsAccepted /\ OnlyUnencodableFails)'
  BY DEF LeaseColumnsAgree, PublishedIsAccepted, OnlyUnencodableFails
<1>3. LocalsAgree'
  BY DEF LocalsAgree
<1>4. WindowInsideLease'
  <2> SUFFICES ASSUME NEW s \in Relays, NEW m \in Messages,
                      left'[s] > 0, m \in todo'[s] \/ m = cur'[s]
               PROVE  lockedBy'[m] = s /\ lockLeft'[m] >= left'[s]
    BY DEF WindowInsideLease
  <2>1. left[s] \in Nat /\ lockLeft[m] \in Nat
    BY DEF TypeOK
  <2>2. left'[s] = Countdown(left[s]) /\ lockLeft'[m] = Countdown(lockLeft[m])
    OBVIOUS
  <2>3. left[s] > 0
    BY <2>1, <2>2, CountdownFacts
  <2>4. lockedBy[m] = s /\ lockLeft[m] >= left[s]
    BY <2>3 DEF WindowInsideLease
  <2> QED
    BY <2>1, <2>2, <2>4, CountdownFacts
<1>5. ReserveKept'
  <2> SUFFICES ASSUME NEW s \in Prompt
               PROVE  /\ pc'[s] = "publishing" => left'[s] >= SettlementReserve
                      /\ pc'[s] = "settling" => settleLeft'[s] <= left'[s]
    BY DEF ReserveKept
  <2> s \in Relays
    BY RelayAssumption
  <2>1. ~Overdue(s)
    OBVIOUS
  <2>2. CASE pc[s] = "publishing"
    BY <2>1, <2>2 DEF Overdue, WindowOpen, Countdown, TypeOK
  <2>3. CASE pc[s] = "settling"
    <3>1. settleLeft[s] <= left[s] /\ settleLeft[s] > 0
      BY <2>1, <2>3 DEF Overdue, ReserveKept, TypeOK
    <3> QED
      BY <2>3, <3>1 DEF Countdown, TypeOK
  <2> QED
    BY <2>2, <2>3
<1> QED
  BY <1>1, <1>2, <1>3, <1>4, <1>5

(* The steps of a relay that change no row.                                *)
LEMMA QuietIInv ==
    ASSUME IInv, NEW r \in Relays,
           \/ StartCycle(r) \/ PublishNext(r) \/ BrokerTakes(r) \/ LeaseLost(r)
    PROVE  IInv'
<1> USE DEF IInv, rows
<1>1. CASE StartCycle(r)
  <2> USE <1>1 DEF StartCycle
  <2>1. TypeOK'
    BY DEF TypeOK, PCs
  <2>2. (LeaseColumnsAgree /\ PublishedIsAccepted /\ OnlyUnencodableFails)'
    BY DEF LeaseColumnsAgree, PublishedIsAccepted, OnlyUnencodableFails
  <2>3. (LocalsAgree /\ ReserveKept)'
    BY DEF LocalsAgree, ReserveKept, TypeOK
  <2>4. WindowInsideLease'
    BY DEF WindowInsideLease, LocalsAgree, TypeOK
  <2> QED
    BY <2>1, <2>2, <2>3, <2>4
<1>2. CASE PublishNext(r)
  <2> USE <1>2 DEF PublishNext
  <2>1. PICK m \in todo[r] :
           /\ cur' = [cur EXCEPT ![r] = m]
           /\ todo' = [todo EXCEPT ![r] = @ \ {m}]
    OBVIOUS
  <2>2. m \in Messages
    BY DEF TypeOK
  <2>3. TypeOK'
    BY <2>1, <2>2 DEF TypeOK, PCs
  <2>4. (LeaseColumnsAgree /\ PublishedIsAccepted /\ OnlyUnencodableFails)'
    BY DEF LeaseColumnsAgree, PublishedIsAccepted, OnlyUnencodableFails
  <2>5. LocalsAgree'
    <3>1. cur[r] = NoRelay /\ ~taken[r] /\ result[r] \notin {"ok", "permanent"}
      BY DEF LocalsAgree, TypeOK
    <3> QED
      BY <2>1, <2>2, <3>1 DEF LocalsAgree, TypeOK
  <2>6. WindowInsideLease'
    BY <2>1, <2>2 DEF WindowInsideLease, TypeOK
  <2>7. ReserveKept'
    BY DEF ReserveKept, WindowOpen, TypeOK
  <2> QED
    BY <2>3, <2>4, <2>5, <2>6, <2>7
<1>3. CASE BrokerTakes(r)
  <2> USE <1>3 DEF BrokerTakes
  <2>1. cur[r] \in Messages
    BY DEF LocalsAgree
  <2>2. TypeOK'
    BY <2>1 DEF TypeOK
  <2>3. (LeaseColumnsAgree /\ PublishedIsAccepted /\ OnlyUnencodableFails)'
    BY DEF LeaseColumnsAgree, PublishedIsAccepted, OnlyUnencodableFails
  <2>4. LocalsAgree'
    BY DEF LocalsAgree, TypeOK
  <2>5. (WindowInsideLease /\ ReserveKept)'
    BY DEF WindowInsideLease, ReserveKept
  <2> QED
    BY <2>2, <2>3, <2>4, <2>5
<1>4. CASE LeaseLost(r)
  <2> USE <1>4 DEF LeaseLost, Goto
  <2>1. TypeOK'
    BY DEF TypeOK, PCs, Results
  <2>2. (LeaseColumnsAgree /\ PublishedIsAccepted /\ OnlyUnencodableFails)'
    BY DEF LeaseColumnsAgree, PublishedIsAccepted, OnlyUnencodableFails
  <2>3. LocalsAgree'
    BY DEF LocalsAgree, TypeOK
  <2>4. WindowInsideLease'
    BY DEF WindowInsideLease, TypeOK
  <2>5. ReserveKept'
    BY DEF ReserveKept, TypeOK
  <2> QED
    BY <2>1, <2>2, <2>3, <2>4, <2>5
<1> QED
  BY <1>1, <1>2, <1>3, <1>4

(* Publish returns: only here does an outcome become known.                *)
LEMMA PublishReturnsIInv ==
    ASSUME IInv, NEW r \in Relays,
           \/ PublishConfirmed(r) \/ PublishTransient(r) \/ PublishPermanent(r)
    PROVE  IInv'
<1>1. PICK res \in {"ok", "transient", "permanent"} :
         /\ pc[r] = "publishing" /\ PublishReturns(r, res)
         /\ res = "ok" => taken[r]
         /\ res = "permanent" => cur[r] \in Unencodable
  BY DEF PublishConfirmed, PublishTransient, PublishPermanent
<1> USE <1>1 DEF PublishReturns, IInv, rows
<1>2. TypeOK'
  BY DEF TypeOK, PCs, Results
<1>3. (LeaseColumnsAgree /\ PublishedIsAccepted /\ OnlyUnencodableFails)'
  BY DEF LeaseColumnsAgree, PublishedIsAccepted, OnlyUnencodableFails
<1>4. LocalsAgree'
  BY DEF LocalsAgree, TypeOK
<1>5. WindowInsideLease'
  BY DEF WindowInsideLease
<1>6. ReserveKept'
  BY DEF ReserveKept, TypeOK
<1> QED
  BY <1>2, <1>3, <1>4, <1>5, <1>6

(* Every step, of every relay and of the clock, preserves the invariant.   *)
LEMMA NextIInv == IInv /\ [Next]_vars => IInv'
<1> SUFFICES ASSUME IInv, [Next]_vars PROVE IInv'
  OBVIOUS
<1>1. CASE Tick
  BY <1>1, TickIInv
<1>2. ASSUME NEW r \in Relays, RelayStep(r) PROVE IInv'
  <2>1. CASE StartCycle(r) \/ PublishNext(r) \/ BrokerTakes(r) \/ LeaseLost(r)
    BY <2>1, QuietIInv
  <2>2. CASE Lease(r)
    BY <2>2, LeaseIInv
  <2>3. CASE LeaseReplyLost(r)
    BY <2>3, LeaseReplyLostIInv
  <2>4. CASE LeaseError(r) \/ EndCycle(r) \/ SettleError(r) \/ Crash(r)
    BY <2>4, CycleOverIInv DEF LeaseError, EndCycle, SettleError, Crash
  <2>5. CASE PublishConfirmed(r) \/ PublishTransient(r) \/ PublishPermanent(r)
    BY <2>5, PublishReturnsIInv
  <2>6. CASE Settle(r) \/ SettleReplyLost(r)
    BY <2>6, SettleIInv DEF Settle, SettleReplyLost
  <2> QED
    BY <1>2, <2>1, <2>2, <2>3, <2>4, <2>5, <2>6 DEF RelayStep
<1>3. CASE UNCHANGED vars
  BY <1>3 DEF vars, rows, relay, IInv, TypeOK, LeaseColumnsAgree,
              PublishedIsAccepted, OnlyUnencodableFails, LocalsAgree,
              WindowInsideLease, ReserveKept, Holds
<1> QED
  BY <1>1, <1>2, <1>3 DEF Next

(* The inductive invariant holds in every reachable state.                 *)
THEOREM Invariance == Spec => []IInv
  BY InitIInv, NextIInv, PTL DEF Spec

(* Every variable of the relay keeps its type: statuses, lease columns,    *)
(* countdowns within their durations, program counters.                    *)
THEOREM TypeCorrect == Spec => []TypeOK
  BY Invariance, PTL DEF IInv

(* A row is published only if a queue of the broker took the message, and  *)
(* abandoned only if it cannot be encoded: settle and Publish, for any     *)
(* relays, pauses, crashes and lost answers.                               *)
THEOREM NothingLost == Spec => []SettlementIsTrue
<1>1. IInv => SettlementIsTrue
  BY DEF IInv, SettlementIsTrue
<1> QED
  BY <1>1, Invariance, PTL

(* The lease columns and the status never disagree, so no statement of     *)
(* outbox.sql can trip the CHECK constraint of the table.                  *)
THEOREM LeaseColumns == Spec => []LeaseColumnsAgree
  BY Invariance, PTL DEF IInv

(* The local window of runOnce does its work: a prompt relay publishes and *)
(* settles under a lease the database still honours.                       *)
THEOREM UnderLease == Spec => []PublishesUnderLease
<1>1. IInv => PublishesUnderLease
  <2> SUFFICES ASSUME IInv, NEW r \in Prompt,
                      \/ pc[r] = "publishing"
                      \/ pc[r] = "settling" /\ settleLeft[r] > 0
               PROVE  Holds(r, cur[r])
    BY DEF PublishesUnderLease
  <2> r \in Relays
    BY RelayAssumption
  <2>1. left[r] > 0
    BY TimeAssumption DEF IInv, ReserveKept, TypeOK
  <2>2. cur[r] \in Messages
    BY DEF IInv, LocalsAgree
  <2>3. lockedBy[cur[r]] = r /\ lockLeft[cur[r]] >= left[r]
    BY <2>1, <2>2 DEF IInv, WindowInsideLease
  <2> QED
    BY <2>1, <2>2, <2>3 DEF Holds, IInv, TypeOK
<1> QED
  BY <1>1, Invariance, PTL

(* Two prompt relays never publish the same message at the same time.      *)
THEOREM Exclusive == Spec => []ExclusivePublication
<1>1. PublishesUnderLease => ExclusivePublication
  BY DEF PublishesUnderLease, ExclusivePublication, Holds
<1> QED
  BY <1>1, UnderLease, PTL

(* A row leaves publishing only through the relay that holds its lease,    *)
(* before the deadline, even among relays paused past theirs.              *)
THEOREM HolderSettles == Spec => OnlyHolderSettles
<1> DEFINE A == \A m \in Messages :
         (status[m] = "publishing" /\ status'[m] # "publishing")
            => \E r \in Relays :
                  /\ lockedBy[m] = r /\ lockLeft[m] > 0
                  /\ pc[r] = "settling" /\ cur[r] = m /\ pc'[r] # "settling"
<1>1. IInv /\ [Next]_vars => A
  <2> SUFFICES ASSUME IInv, [Next]_vars, NEW m \in Messages,
                      status[m] = "publishing", status'[m] # "publishing"
               PROVE  \E r \in Relays :
                         /\ lockedBy[m] = r /\ lockLeft[m] > 0
                         /\ pc[r] = "settling" /\ cur[r] = m /\ pc'[r] # "settling"
    OBVIOUS
  <2>1. PICK r \in Relays : Settle(r) \/ SettleReplyLost(r)
    <3>1. status' # status
      OBVIOUS
    <3>2. ASSUME NEW r \in Relays, NEW batch \in SUBSET Messages, Claim(r, batch)
          PROVE  FALSE
      BY <3>2 DEF Claim
    <3> QED
      BY <3>1, <3>2 DEF Next, RelayStep, Tick, vars, rows, StartCycle, Lease,
         LeaseReplyLost, LeaseError, PublishNext, EndCycle, BrokerTakes,
         PublishConfirmed, PublishTransient, PublishPermanent, PublishReturns,
         LeaseLost, SettleError, Crash
  <2>2. pc[r] = "settling" /\ Mark(r, cur[r]) /\ pc'[r] # "settling"
    BY <2>1 DEF Settle, SettleReplyLost, Goto, CycleOver, IInv, TypeOK
  <2>3. Holds(r, cur[r]) /\ \A n \in Messages \ {cur[r]} : status'[n] = status[n]
    BY <2>2, MarkRows
  <2>4. cur[r] = m
    BY <2>3
  <2> QED
    BY <2>2, <2>3, <2>4 DEF Holds
<1>2. Spec => [][A]_vars
  BY <1>1, Invariance, PTL DEF Spec
<1> QED
  BY <1>2 DEF OnlyHolderSettles

(* The relay implements at-least-once delivery: a step that changes what   *)
(* AtLeastOnce sees is a broker taking a message it can take, or a         *)
(* settlement by the lease's holder.                                       *)
THEOREM Refinement == Spec => ImplementsAtLeastOnce
<1> DEFINE oc == [m \in Messages |-> OutcomeOf(status[m])]
<1>1. Init => Delivery!Init
  BY DEF Init, Delivery!Init, OutcomeOf
<1>2. IInv /\ [Next]_vars => [Delivery!Next]_(Delivery!vars)
  <2> SUFFICES ASSUME IInv, [Next]_vars
               PROVE  Delivery!Next \/ UNCHANGED <<accepted, oc>>
    BY DEF Delivery!vars
  <2>1. ASSUME UNCHANGED <<status, accepted>>
        PROVE  UNCHANGED <<accepted, oc>>
    BY <2>1
  <2>2. ASSUME NEW r \in Relays, NEW batch \in SUBSET Messages,
               Claim(r, batch), UNCHANGED accepted
        PROVE  UNCHANGED <<accepted, oc>>
    <3>1. \A m \in Messages : OutcomeOf(status'[m]) = OutcomeOf(status[m])
      BY <2>2 DEF Claim, Due, OutcomeOf, IInv, TypeOK
    <3> QED
      BY <2>2, <3>1
  <2>3. ASSUME NEW r \in Relays, BrokerTakes(r)
        PROVE  Delivery!Next
    <3>1. cur[r] \in Messages /\ cur[r] \notin Unencodable
      BY <2>3 DEF BrokerTakes, IInv, LocalsAgree
    <3>2. accepted' = accepted \cup {cur[r]} /\ UNCHANGED oc
      BY <2>3 DEF BrokerTakes, rows
    <3>3. Delivery!Deliver(cur[r])
      BY <3>1, <3>2 DEF Delivery!Deliver
    <3> QED
      BY <3>1, <3>3 DEF Delivery!Next
  <2>4. ASSUME NEW r \in Relays, pc[r] = "settling", Mark(r, cur[r]),
               UNCHANGED accepted
        PROVE  Delivery!Next \/ UNCHANGED <<accepted, oc>>
    <3> DEFINE m == cur[r]
    <3>1. /\ m \in Messages /\ Holds(r, m)
          /\ status' \in [Messages -> Statuses]
          /\ \A n \in Messages \ {m} : status'[n] = status[n]
          /\ status'[m] # "publishing"
          /\ status'[m] = "published" => m \in accepted
          /\ status'[m] = "failed" => m \in Unencodable
      BY <2>4, MarkRows
    <3>2. status[m] = "publishing"
      BY <3>1 DEF Holds, IInv, LeaseColumnsAgree, TypeOK
    <3> HIDE DEF m
    <3>3. oc[m] = "open" /\ oc' = [oc EXCEPT ![m] = OutcomeOf(status'[m])]
      BY <3>1, <3>2 DEF OutcomeOf
    <3>4. CASE status'[m] = "published"
      <4>1. Delivery!Record(m)
        BY <2>4, <3>1, <3>3, <3>4 DEF Delivery!Record, OutcomeOf
      <4> QED
        BY <3>1, <4>1 DEF Delivery!Next
    <3>5. CASE status'[m] = "failed"
      <4>1. Delivery!Abandon(m)
        BY <2>4, <3>1, <3>3, <3>5 DEF Delivery!Abandon, OutcomeOf
      <4> QED
        BY <3>1, <4>1 DEF Delivery!Next
    <3>6. CASE status'[m] \notin {"published", "failed"}
      BY <2>4, <3>3, <3>6 DEF OutcomeOf
    <3> QED
      BY <3>4, <3>5, <3>6
  <2>5. CASE Tick \/ UNCHANGED vars
    BY <2>1, <2>5 DEF Tick, vars, rows
  <2>6. ASSUME NEW r \in Relays, RelayStep(r)
        PROVE  Delivery!Next \/ UNCHANGED <<accepted, oc>>
    <3>1. CASE Lease(r) \/ LeaseReplyLost(r)
      BY <2>2, <3>1 DEF Lease, LeaseReplyLost
    <3>2. CASE BrokerTakes(r)
      BY <2>3, <3>2
    <3>3. CASE Settle(r) \/ SettleReplyLost(r)
      BY <2>4, <3>3 DEF Settle, SettleReplyLost
    <3>4. CASE \/ StartCycle(r) \/ LeaseError(r) \/ PublishNext(r) \/ EndCycle(r)
               \/ PublishConfirmed(r) \/ PublishTransient(r) \/ PublishPermanent(r)
               \/ LeaseLost(r) \/ SettleError(r) \/ Crash(r)
      BY <2>1, <3>4 DEF rows, StartCycle, LeaseError, PublishNext, EndCycle,
         PublishConfirmed, PublishTransient, PublishPermanent, PublishReturns,
         LeaseLost, SettleError, Crash
    <3> QED
      BY <2>6, <3>1, <3>2, <3>3, <3>4 DEF RelayStep
  <2> QED
    BY <2>5, <2>6 DEF Next
<1> QED
  BY <1>1, <1>2, Invariance, PTL DEF Spec, ImplementsAtLeastOnce, Delivery!Spec

=============================================================================
