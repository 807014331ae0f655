-------------------------- MODULE RateLimitProofs ---------------------------
(***************************************************************************)
(* The four promises of the limiter, for every policy config.Load accepts, *)
(* every capacity and TTL, any number of callers and any bound on how long *)
(* they wait for the mutex: no client gets more than its rate, none less,  *)
(* an announced retry is admitted and idle buckets go.                     *)
(***************************************************************************)
EXTENDS RateLimit, SequenceTheorems, WellFoundedInduction, TLAPS

-----------------------------------------------------------------------------
(* The inductive invariant.                                                *)

(* A token takes time, a full bucket holds one, and a bucket refills       *)
(* before it may be reclaimed.                                             *)
PolicyOK ==
    /\ kind \in Limiters
    /\ TokenInterval \in Nat \ {0}
    /\ Full \in Nat /\ TokenInterval <= Full
    /\ Capacity \in Nat \ {0}
    /\ cfg.ttl \in Nat
    /\ cfg.ttl > 0 => Full <= cfg.ttl

(* A caller that is counted waits with the key that is its own.            *)
Calls ==
    {call \in [key : Keys, owner : Keys, stale : 0 .. MaxSkew] :
        call.key # NoKey /\ call.owner = call.key}

BooksOK ==
    /\ lru \in Seq(Keys)
    /\ credit \in [Keys -> 0 .. Full]
    /\ age \in [Keys -> 0 .. MaxAge]
    /\ wait \in [Callers -> Calls \cup {NoCall}]
    /\ owed \in [Keys -> 0 .. Full]
    /\ dated \in [Keys -> 0 .. Full]
    /\ promise \in [Keys -> (-MaxSkew) .. NoPromise]

(* One bucket per key, and a bucket in front of another was used no        *)
(* earlier, up to the longest wait for the mutex.                          *)
UsedInOrder ==
    /\ \A i, j \in DOMAIN lru : lru[i] = lru[j] => i = j
    /\ \A i, j \in DOMAIN lru : i < j => age[lru[i]] <= age[lru[j]] + MaxSkew

(* What bucket k would hold now: what it is owed at least, what its time   *)
(* is worth at most, and a token by the time its retry is due.             *)
Book(k) == Smaller(Full, credit[k] + age[k])

BucketOK(k) ==
    /\ k \in Held => /\ owed[k] <= Book(k)
                     /\ Book(k) <= dated[k]
                     /\ TokenInterval <= credit[k] + age[k] + promise[k]
    /\ k \notin Held => dated[k] = Full

IInv ==
    /\ PolicyOK
    /\ BooksOK
    /\ UsedInOrder
    /\ \A k \in Keys : BucketOK(k)

-----------------------------------------------------------------------------
(* Lemmas about the operators.                                             *)

(* A bounded set of naturals has the greatest element Max chooses.         *)
LEMMA MaxIsGreatest ==
    ASSUME NEW S \in SUBSET Nat, S # {}, NEW n \in Nat, \A x \in S : x <= n
    PROVE  Max(S) \in S /\ \A x \in S : x <= Max(S)
<1> DEFINE T == {n - x : x \in S}
<1>1. T \subseteq Nat
  OBVIOUS
<1>2. T # {}
  BY S # {}
<1>3. PICK t \in T : \A y \in T : ~(<<y, t>> \in OpToRel(<, Nat))
  <2> HIDE DEF T
  <2> QED BY <1>1, <1>2, WFMin, NatLessThanWellFounded, Zenon
<1>4. \A y \in T : t <= y
  <2> HIDE DEF T
  <2>1. TAKE y \in T
  <2>2. <<y, t>> \in Nat \X Nat
    BY <1>1
  <2>3. ~(y < t)
    BY <1>3, <2>2 DEF OpToRel
  <2> QED BY <2>2, <2>3
<1>5. PICK m \in S : t = n - m
  OBVIOUS
<1>6. \A x \in S : m >= x
  BY <1>4, <1>5
<1>7. Max(S) \in S /\ \A x \in S : Max(S) >= x
  BY <1>6 DEF Max
<1> QED BY <1>7

(* An element removed from a sequence leaves the others in their order.    *)
LEMMA RemoveAtShape ==
    ASSUME NEW S, NEW s \in Seq(S), NEW i \in 1 .. Len(s)
    PROVE  /\ RemoveAt(s, i) \in Seq(S)
           /\ Len(RemoveAt(s, i)) = Len(s) - 1
           /\ \A j \in 1 .. Len(s) - 1 :
                 RemoveAt(s, i)[j] = IF j < i THEN s[j] ELSE s[j + 1]
<1> DEFINE a == SubSeq(s, 1, i - 1)
           b == SubSeq(s, i + 1, Len(s))
           n == Len(s)
<1>1. a \in Seq(S) /\ Len(a) = i - 1 /\ \A j \in 1 .. i - 1 : a[j] = s[j]
  OBVIOUS
<1>2. b \in Seq(S) /\ Len(b) = n - i /\ \A j \in 1 .. n - i : b[j] = s[i + j]
  OBVIOUS
<1>3. RemoveAt(s, i) = a \o b
  BY DEF RemoveAt
<1>4. n \in Nat /\ i \in 1 .. n
  BY DEF n
<1> HIDE DEF a, b, n
<1>5. a \o b \in Seq(S) /\ Len(a \o b) = n - 1
  <2>1. a \o b \in Seq(S) /\ Len(a \o b) = Len(a) + Len(b)
    BY <1>1, <1>2, ConcatProperties, Zenon
  <2> QED BY <1>1, <1>2, <1>4, <2>1
<1>6. ASSUME NEW j \in 1 .. n - 1
      PROVE  (a \o b)[j] = IF j < i THEN s[j] ELSE s[j + 1]
  <2>1. CASE j < i
    BY <1>1, <1>2, <1>4, <2>1
  <2>2. CASE ~(j < i)
    <3>1. j - (i - 1) \in 1 .. n - i /\ i + (j - (i - 1)) = j + 1
      BY <1>4, <2>2
    <3>2. (a \o b)[j] = b[j - (i - 1)]
      BY <1>1, <1>2, <1>4, <2>2
    <3> QED BY <1>2, <2>2, <3>1, <3>2
  <2> QED BY <2>1, <2>2
<1> QED BY <1>3, <1>5, <1>6 DEF n

(* Retry-After is never earlier than the wait it stands for.               *)
LEMMA RoundedUp ==
    ASSUME NEW w \in Nat \ {0}
    PROVE  roundUpToSecond(w) \in Nat \ {0} /\ roundUpToSecond(w) >= w
<1>1. Second \in Nat \ {0}
  BY LimiterAssumption
<1>2. ((w + Second - 1) \div Second) * Second >= w
  BY <1>1
<1>3. ((w + Second - 1) \div Second) * Second \in Int
  BY <1>1
<1> QED BY <1>1, <1>2, <1>3 DEF roundUpToSecond

-----------------------------------------------------------------------------
(* Who is counted.                                                         *)

(* Every address of a host falls into the one bucket of that host.         *)
LEMMA OneBucketPerHost ==
    ASSUME NEW h, NEW a \in Addresses(h)
    PROVE  /\ a # Junk
           /\ a[1] = h
           /\ ClientBucket(a) = <<h, 0>>
  BY DEF Addresses, ClientBucket, Junk

(* Whatever a sender wrote in front, the rightmost hop that is not a proxy *)
(* of ours is the one Resolve returns.                                     *)
LEMMA RightmostForeignHop ==
    ASSUME NEW peer, trustedProxy(peer), NEW hops, DOMAIN hops \in SUBSET Nat,
           NEW i \in DOMAIN hops, ~trustedProxy(hops[i]), hops[i] # Junk, hops # <<>>,
           \A j \in DOMAIN hops :
              j <= i \/ (trustedProxy(hops[j]) /\ hops[j] # Junk)
    PROVE  Resolve(peer, hops) = hops[i]
<1> DEFINE F == {j \in DOMAIN hops : hops[j] = Junk \/ ~trustedProxy(hops[j])}
<1>1. i \in F /\ F \in SUBSET Nat /\ i \in Nat /\ \A j \in F : j <= i
  OBVIOUS
<1>2. Max(F) = i
  <2> HIDE DEF F
  <2>1. Max(F) \in F /\ \A x \in F : x <= Max(F)
    BY <1>1, MaxIsGreatest
  <2> QED BY <1>1, <2>1
<1>3. F # {}
  BY <1>1
<1> QED BY <1>2, <1>3 DEF Resolve

(* What may stand in the header.                                           *)
Hops == {Junk} \cup UNION {Addresses(h) : h \in Hosts}

(* Behind one of our proxies, or two, the client is the peer the first one *)
(* saw.                                                                    *)
LEMMA AppendedHop ==
    ASSUME NEW peer, trustedProxy(peer), NEW f \in Seq(Hops),
           NEW a, ~trustedProxy(a), a # Junk, NEW b, trustedProxy(b), b # Junk
    PROVE  /\ Resolve(peer, Forwarded(f, a)) = a
           /\ Resolve(peer, Forwarded(Forwarded(f, a), b)) = a
<1> DEFINE S == Hops \cup {a, b}
           n == Len(f)
           one == Forwarded(f, a)
           two == Forwarded(one, b)
<1>1. f \in Seq(S) /\ n \in Nat
  OBVIOUS
<1> HIDE DEF S
<1>2. a \in S /\ b \in S
  BY DEF S
<1>3. one \in Seq(S) /\ Len(one) = n + 1 /\ one[n + 1] = a /\ DOMAIN one = 1 .. n + 1
  BY <1>1, <1>2 DEF Forwarded
<1> HIDE DEF one, n
<1>4. two \in Seq(S) /\ Len(two) = n + 2
  BY <1>1, <1>2, <1>3 DEF Forwarded
<1>7. DOMAIN two = 1 .. n + 2 /\ two[n + 1] = a /\ two[n + 2] = b
  BY <1>1, <1>2, <1>3, <1>4 DEF Forwarded
<1> HIDE DEF two
<1>5. Resolve(peer, one) = a
  <2>1. one # <<>>
    BY <1>1, <1>3
  <2> QED BY <1>1, <1>3, <2>1, RightmostForeignHop
<1>6. Resolve(peer, two) = a
  <2>1. two # <<>>
    BY <1>1, <1>4
  <2>2. \A j \in DOMAIN two : j <= n + 1 \/ j = n + 2
    BY <1>1, <1>7
  <2> QED BY <1>1, <1>7, <2>1, <2>2, RightmostForeignHop
<1> QED BY <1>5, <1>6 DEF one, two

(* "Who is the caller" is answered with the caller: however a host's       *)
(* request arrives and whatever it wrote into X-Forwarded-For, the bucket  *)
(* is the one of its host.                                                 *)
LEMMA ResolvedIsSender ==
    ASSUME NEW h \in Hosts, NEW r \in Arrivals(h)
    PROVE  ClientBucket(Resolve(r.peer, r.hops)) = <<h, 0>>
<1>1. \A p \in Trusted : trustedProxy(<<p, 0>>) /\ <<p, 0>> # Junk
  BY DEF trustedProxy, Junk
<1>2. CASE h \in Trusted
  <2>0. ClientBucket(<<h, 0>>) = <<h, 0>>
    BY DEF ClientBucket
  <2>1. CASE \E p \in Trusted : r = [peer |-> <<p, 0>>, hops |-> <<<<h, 0>>>>]
    <3>1. r.hops = <<<<h, 0>>>>
      BY <2>1
    <3>2. {i \in DOMAIN r.hops : r.hops[i] = Junk \/ ~trustedProxy(r.hops[i])} = {}
      BY <1>1, <1>2, <3>1
    <3>3. trustedProxy(r.peer)
      BY <1>1, <2>1
    <3>4. Resolve(r.peer, r.hops) = <<h, 0>>
      BY <3>1, <3>2, <3>3 DEF Resolve
    <3> QED BY <2>0, <3>4
  <2>2. CASE r = [peer |-> <<h, 0>>, hops |-> <<>>]
    BY <2>0, <2>2 DEF Resolve
  <2>3. CASE r = [peer |-> <<h, 0>>, hops |-> <<Junk>>]
    <3> DEFINE F == {i \in DOMAIN <<Junk>> : <<Junk>>[i] = Junk
                                              \/ ~trustedProxy(<<Junk>>[i])}
    <3>1. F = {1}
      OBVIOUS
    <3>2. Max({1}) = 1
      BY MaxIsGreatest
    <3>3. Resolve(<<h, 0>>, <<Junk>>) = <<h, 0>>
      BY <3>1, <3>2 DEF Resolve
    <3> QED BY <2>0, <2>3, <3>3
  <2> QED BY <1>2, <2>1, <2>2, <2>3 DEF Arrivals
<1>3. CASE h \notin Trusted
  <2>0. \A a \in Addresses(h) : ~trustedProxy(a) /\ a # Junk /\ ClientBucket(a) = <<h, 0>>
    BY <1>3, OneBucketPerHost DEF trustedProxy
  <2>1. CASE \E a \in Addresses(h), f \in Forgeries : r = [peer |-> a, hops |-> f]
    BY <2>0, <2>1 DEF Resolve
  <2>8. ASSUME NEW f \in Forgeries PROVE f \in Seq(Hops)
    <3>1. f = <<>> \/ \E x \in Hops : f = <<x>>
      BY DEF Forgeries, Hops
    <3>2. <<>> \in Seq(Hops)
      OBVIOUS
    <3>3. \A x \in Hops : <<x>> \in Seq(Hops)
      OBVIOUS
    <3> QED BY <3>1, <3>2, <3>3, Zenon
  <2>2. CASE \E p \in Trusted, a \in Addresses(h), f \in Forgeries :
               r = [peer |-> <<p, 0>>, hops |-> Forwarded(f, a)]
    <3>1. PICK p \in Trusted, a \in Addresses(h), f \in Forgeries :
             r = [peer |-> <<p, 0>>, hops |-> Forwarded(f, a)]
      BY <2>2
    <3>2. f \in Seq(Hops) /\ ~trustedProxy(a) /\ a # Junk
      BY <2>0, <2>8
    <3>3. Resolve(<<p, 0>>, Forwarded(f, a)) = a
      BY <1>1, <3>2, AppendedHop
    <3> QED BY <2>0, <3>1, <3>3
  <2>3. CASE \E p \in Trusted, q \in Trusted, a \in Addresses(h), f \in Forgeries :
               r = [peer |-> <<p, 0>>, hops |-> Forwarded(Forwarded(f, a), <<q, 0>>)]
    <3>1. PICK p \in Trusted, q \in Trusted, a \in Addresses(h), f \in Forgeries :
             r = [peer |-> <<p, 0>>, hops |-> Forwarded(Forwarded(f, a), <<q, 0>>)]
      BY <2>3
    <3>2. f \in Seq(Hops) /\ ~trustedProxy(a) /\ a # Junk
      BY <2>0, <2>8
    <3>3. Resolve(<<p, 0>>, Forwarded(Forwarded(f, a), <<q, 0>>)) = a
      BY <1>1, <3>2, AppendedHop
    <3> QED BY <2>0, <3>1, <3>3
  <2> DEFINE Straight == {[peer |-> a, hops |-> f] : a \in Addresses(h), f \in Forgeries}
             Once == {[peer |-> <<p, 0>>, hops |-> Forwarded(f, a)] :
                        p \in Trusted, a \in Addresses(h), f \in Forgeries}
             Twice == {[peer |-> <<p, 0>>, hops |-> Forwarded(Forwarded(f, a), <<q, 0>>)] :
                        p \in Trusted, q \in Trusted, a \in Addresses(h), f \in Forgeries}
  <2>4. r \in Straight \/ r \in Once \/ r \in Twice
    BY <1>3 DEF Arrivals
  <2>5. CASE r \in Straight
    BY <2>1, <2>5
  <2>6. CASE r \in Once
    <3>1. \E p \in Trusted, a \in Addresses(h), f \in Forgeries :
             r = [peer |-> <<p, 0>>, hops |-> Forwarded(f, a)]
      BY <2>6
    <3> QED BY <2>2, <3>1, Zenon
  <2>7. CASE r \in Twice
    <3>1. \E p \in Trusted, q \in Trusted, a \in Addresses(h), f \in Forgeries :
             r = [peer |-> <<p, 0>>, hops |-> Forwarded(Forwarded(f, a), <<q, 0>>)]
      BY <2>7
    <3> QED BY <2>3, <3>1, Zenon
  <2> HIDE DEF Straight, Once, Twice
  <2> QED BY <2>4, <2>5, <2>6, <2>7
<1> QED BY <1>2, <1>3

(* A request that is counted is counted against its own sender.            *)
LEMMA CountedAsOwner ==
    ASSUME kind \in Limiters, NEW r \in Requests, r.key # NoKey
    PROVE  r.key \in Keys /\ r.owner = r.key
<1>1. CASE kind \in {"client", "health"}
  <2>1. r \in ClientRequests
    BY <1>1 DEF Requests
  <2>2. PICK h \in Hosts : \E q \in Arrivals(h) :
          r = [owner |-> ClientBucket(CHOOSE a \in Addresses(h) : TRUE),
               key |-> ClientBucket(Resolve(q.peer, q.hops))]
    BY <2>1 DEF ClientRequests
  <2>3. PICK a \in Addresses(h) : TRUE
    BY DEF Addresses
  <2>4. (CHOOSE b \in Addresses(h) : TRUE) \in Addresses(h)
    BY <2>3
  <2>5. r.owner = <<h, 0>> /\ r.key = <<h, 0>>
    <3>1. PICK q \in Arrivals(h) :
            r = [owner |-> ClientBucket(CHOOSE b \in Addresses(h) : TRUE),
                 key |-> ClientBucket(Resolve(q.peer, q.hops))]
      BY <2>2
    <3>2. ClientBucket(CHOOSE b \in Addresses(h) : TRUE) = <<h, 0>>
      BY <2>4, OneBucketPerHost
    <3>3. ClientBucket(Resolve(q.peer, q.hops)) = <<h, 0>>
      BY ResolvedIsSender
    <3> QED BY <3>1, <3>2, <3>3
  <2>6. ClientBucket(a) \in Keys /\ ClientBucket(a) = <<h, 0>>
    BY <1>1, OneBucketPerHost DEF Keys
  <2> QED BY <2>5, <2>6
<1>2. CASE kind = "credential"
  BY <1>2 DEF Requests, Keys, Fingerprint
<1>3. CASE kind = "webhook"
  BY <1>3 DEF Requests, Keys
<1> QED BY <1>1, <1>2, <1>3 DEF Limiters

-----------------------------------------------------------------------------
(* The order of use.                                                       *)

(* expire keeps a front part of the list: what it drops is idle for the    *)
(* TTL at the caller's reading, and the last one it keeps is not.          *)
LEMMA UnexpiredShape ==
    ASSUME PolicyOK, BooksOK, NEW s \in Nat
    PROVE  \E m \in 0 .. Len(lru) :
              /\ Unexpired(s) \in Seq(Keys)
              /\ Len(Unexpired(s)) = m
              /\ \A i \in 1 .. m : Unexpired(s)[i] = lru[i]
              /\ cfg.ttl = 0 => m = Len(lru)
              /\ cfg.ttl > 0 => /\ m > 0 => age[lru[m]] - s < cfg.ttl
                                /\ \A i \in 1 .. Len(lru) :
                                      i > m => age[lru[i]] - s >= cfg.ttl
<1>1. lru \in Seq(Keys) /\ Len(lru) \in Nat /\ DOMAIN lru = 1 .. Len(lru)
  BY DEF BooksOK
<1>2. CASE cfg.ttl = 0
  <2>1. Unexpired(s) = lru
    BY <1>2 DEF Unexpired
  <2>2. Len(lru) \in 0 .. Len(lru)
    BY <1>1
  <2> WITNESS Len(lru) \in 0 .. Len(lru)
  <2> QED BY <1>1, <1>2, <2>1
<1>3. CASE cfg.ttl # 0
  <2> DEFINE young == {i \in DOMAIN lru : age[lru[i]] - s < cfg.ttl}
             m == Max({0} \cup young)
  <2>1. Unexpired(s) = SubSeq(lru, 1, m)
    BY <1>3 DEF Unexpired
  <2>2. young \subseteq 1 .. Len(lru)
    BY <1>1
  <2>3. m \in {0} \cup young /\ \A x \in {0} \cup young : x <= m
    <3> HIDE DEF young
    <3> DEFINE S == {0} \cup young
    <3>1. S \in SUBSET Nat /\ S # {} /\ \A x \in S : x <= Len(lru)
      BY <1>1, <2>2
    <3> HIDE DEF S
    <3>2. Max(S) \in S /\ \A x \in S : x <= Max(S)
      BY <1>1, <3>1, MaxIsGreatest
    <3> QED BY <3>2 DEF S
  <2>4. m \in 0 .. Len(lru)
    BY <1>1, <2>2, <2>3
  <2>5. \A i \in 1 .. Len(lru) : age[lru[i]] - s \in Int
    BY <1>1 DEF BooksOK, PolicyOK
  <2>6. m > 0 => age[lru[m]] - s < cfg.ttl
    BY <2>3
  <2>7. \A i \in 1 .. Len(lru) : i > m => age[lru[i]] - s >= cfg.ttl
    BY <1>1, <2>3, <2>4, <2>5 DEF PolicyOK
  <2>8. /\ SubSeq(lru, 1, m) \in Seq(Keys)
        /\ Len(SubSeq(lru, 1, m)) = m
        /\ \A i \in 1 .. m : SubSeq(lru, 1, m)[i] = lru[i]
    <3> HIDE DEF m
    <3> QED BY <1>1, <2>4
  <2> HIDE DEF m
  <2>9. /\ Unexpired(s) \in Seq(Keys)
        /\ Len(Unexpired(s)) = m
        /\ \A i \in 1 .. m : Unexpired(s)[i] = lru[i]
    BY <2>1, <2>8
  <2> QED BY <1>3, <2>4, <2>6, <2>7, <2>9
<1> QED BY <1>2, <1>3

(* MoveToFront, evictIfFull and PushFront put the key in front and leave   *)
(* the others in their order.                                              *)
LEMMA TouchShape ==
    ASSUME Capacity \in Nat \ {0}, NEW k \in Keys, NEW held \in Seq(Keys),
           \A i, j \in DOMAIN held : held[i] = held[j] => i = j
    PROVE  /\ Touch(held, k) \in Seq(Keys)
           /\ Len(Touch(held, k)) >= 1
           /\ Touch(held, k)[1] = k
           /\ \A i \in 2 .. Len(Touch(held, k)) :
                 \E p \in DOMAIN held :
                    Touch(held, k)[i] = held[p] /\ held[p] # k
           /\ \A i, j \in 2 .. Len(Touch(held, k)) :
                 i < j => \E p, q \in DOMAIN held :
                             /\ p < q
                             /\ Touch(held, k)[i] = held[p]
                             /\ Touch(held, k)[j] = held[q]
<1>1. CASE k \in Range(held)
  <2> DEFINE c == CHOOSE i \in DOMAIN held : held[i] = k
             rest == RemoveAt(held, c)
             n == Len(held)
  <2>1. c \in DOMAIN held /\ held[c] = k
    BY <1>1 DEF Range
  <2>2. n \in Nat /\ DOMAIN held = 1 .. n
    OBVIOUS
  <2>3. Touch(held, k) = <<k>> \o rest
    BY <1>1 DEF Touch
  <2> HIDE DEF c, rest, n
  <2>4. /\ rest \in Seq(Keys) /\ Len(rest) = n - 1
        /\ \A j \in 1 .. n - 1 : rest[j] = IF j < c THEN held[j] ELSE held[j + 1]
    <3>1. c \in 1 .. Len(held)
      BY <2>1, <2>2
    <3> QED BY <3>1, RemoveAtShape, Zenon DEF rest, n
  <2>5. /\ <<k>> \o rest \in Seq(Keys) /\ Len(<<k>> \o rest) = n
        /\ (<<k>> \o rest)[1] = k
        /\ \A i \in 2 .. n : (<<k>> \o rest)[i] = rest[i - 1]
    <3>1. <<k>> \o rest \in Seq(Keys) /\ Len(<<k>> \o rest) = 1 + Len(rest)
      BY <2>4
    <3> QED BY <2>2, <2>4, <3>1
  <2> DEFINE at(i) == IF i - 1 < c THEN i - 1 ELSE i
             t == Touch(held, k)
  <2>6. \A i \in 2 .. n : at(i) \in 1 .. n /\ at(i) # c /\ t[i] = held[at(i)]
    BY <2>1, <2>2, <2>3, <2>4, <2>5
  <2>7. \A i, j \in 2 .. n : i < j => at(i) < at(j)
    BY <2>1, <2>2
  <2>8. t \in Seq(Keys) /\ Len(t) = n /\ t[1] = k /\ n >= 1
    BY <2>1, <2>2, <2>3, <2>5
  <2> HIDE DEF at, t
  <2>9. \A i \in 2 .. n : held[at(i)] # k
    BY <2>1, <2>2, <2>6
  <2> QED BY <2>2, <2>6, <2>7, <2>8, <2>9 DEF t
<1>2. CASE k \notin Range(held)
  <2> DEFINE n == Smaller(Len(held), Capacity - 1)
             rest == SubSeq(held, 1, n)
             t == Touch(held, k)
  <2>1. n \in 0 .. Len(held)
    BY DEF Smaller
  <2>2. t = <<k>> \o rest
    BY <1>2 DEF Touch
  <2> HIDE DEF n
  <2>3. rest \in Seq(Keys) /\ Len(rest) = n /\ \A i \in 1 .. n : rest[i] = held[i]
    BY <2>1
  <2> HIDE DEF rest, t
  <2>4. t \in Seq(Keys) /\ Len(t) = n + 1
    BY <2>1, <2>2, <2>3
  <2>5. t[1] = k /\ \A i \in 2 .. n + 1 : t[i] = rest[i - 1]
    BY <2>1, <2>2, <2>3, <2>4
  <2>6. \A i \in 2 .. n + 1 : i - 1 \in DOMAIN held /\ t[i] = held[i - 1]
    BY <2>1, <2>3, <2>5
  <2>7. \A p \in DOMAIN held : held[p] # k
    BY <1>2 DEF Range
  <2>8. \A i, j \in 2 .. n + 1 :
           i < j => \E p, q \in DOMAIN held : p < q /\ t[i] = held[p] /\ t[j] = held[q]
    <3>1. \A i, j \in 2 .. n + 1 : i < j => i - 1 < j - 1
      BY <2>1
    <3> QED BY <2>6, <3>1
  <2>9. Len(t) >= 1
    BY <2>1, <2>4
  <2> QED BY <2>4, <2>5, <2>6, <2>7, <2>8, <2>9 DEF t
<1> QED BY <1>1, <1>2

-----------------------------------------------------------------------------
(* One call of Allow.                                                      *)

(* What the caller finds in its bucket once the reading is accounted for.  *)
Found(c) ==
    IF wait[c].key \in Range(Unexpired(wait[c].stale))
    THEN Refill(credit[wait[c].key], age[wait[c].key] - wait[c].stale) ELSE Full

(* What expire drops had the time to refill.                               *)
LEMMA DroppedIsFull ==
    ASSUME IInv, NEW s \in Nat
    PROVE  /\ Range(Unexpired(s)) \subseteq Held
           /\ \A k \in Held : k \in Range(Unexpired(s)) \/ Full <= age[k]
<1> DEFINE n == Len(lru)
           u == Unexpired(s)
<1>1. PolicyOK /\ BooksOK
  BY DEF IInv
<1>2. lru \in Seq(Keys) /\ n \in Nat /\ DOMAIN lru = 1 .. n
  BY <1>1 DEF BooksOK
<1>3. PICK m \in 0 .. n :
         /\ u \in Seq(Keys)
         /\ Len(u) = m
         /\ \A i \in 1 .. m : u[i] = lru[i]
         /\ cfg.ttl = 0 => m = n
         /\ cfg.ttl > 0 => /\ m > 0 => age[lru[m]] - s < cfg.ttl
                           /\ \A i \in 1 .. n : i > m => age[lru[i]] - s >= cfg.ttl
  BY <1>1, UnexpiredShape
<1> HIDE DEF u, n
<1>4. DOMAIN u = 1 .. m
  BY <1>3
<1>5. 1 .. m \subseteq 1 .. n
  BY <1>2, <1>3
<1>6. Range(u) \subseteq Held
  <2>1. ASSUME NEW i \in 1 .. m PROVE u[i] \in Held
    BY <1>2, <1>3, <1>5 DEF Held
  <2> QED BY <1>4, <2>1 DEF Range
<1>7. ASSUME NEW i \in 1 .. n, i > m PROVE Full <= age[lru[i]]
  <2>1. cfg.ttl \in Nat /\ Full \in Nat /\ (cfg.ttl > 0 => Full <= cfg.ttl)
    BY <1>1 DEF PolicyOK
  <2>2. cfg.ttl > 0
    BY <1>2, <1>3, <1>7, <2>1
  <2>3. age[lru[i]] - s >= cfg.ttl
    BY <1>3, <1>7, <2>2
  <2>4. lru[i] \in Keys
    BY <1>2
  <2>5. age[lru[i]] \in Int
    BY <1>1, <2>4 DEF BooksOK
  <2> QED BY <2>1, <2>2, <2>3, <2>5
<1>8. ASSUME NEW i \in 1 .. n, ~(i > m) PROVE lru[i] \in Range(u)
  <2>1. i \in 1 .. m
    BY <1>2, <1>8
  <2> QED BY <1>3, <1>4, <2>1 DEF Range
<1>9. \A k \in Held : k \in Range(u) \/ Full <= age[k]
  BY <1>2, <1>7, <1>8 DEF Held
<1> QED BY <1>6, <1>9 DEF u

(* What a call finds covers what its caller is owed, is no more than the   *)
(* time is worth, and is a token if the announced retry is due.            *)
LEMMA FoundIsRight ==
    ASSUME IInv, NEW c \in Callers, wait[c] # NoCall
    PROVE  /\ wait[c].key \in Keys /\ wait[c].owner = wait[c].key
           /\ wait[c].stale \in 0 .. MaxSkew
           /\ Found(c) \in 0 .. Full
           /\ owed[wait[c].key] <= Found(c) + wait[c].stale
           /\ Found(c) <= dated[wait[c].key]
           /\ \/ Found(c) >= TokenInterval
              \/ Found(c) + wait[c].stale + promise[wait[c].key] >= TokenInterval
<1> DEFINE k == wait[c].key
           s == wait[c].stale
           kept == Range(Unexpired(s))
<1>1. MaxSkew \in Nat
  BY LimiterAssumption
<1>2. wait[c] \in Calls
  BY DEF IInv, BooksOK
<1>3. k \in Keys /\ wait[c].owner = k /\ s \in 0 .. MaxSkew
  BY <1>2 DEF Calls
<1>4. s \in Nat
  BY <1>1, <1>3
<1>5. kept \subseteq Held /\ \A x \in Held : x \in kept \/ Full <= age[x]
  BY <1>4, DroppedIsFull
<1>6. /\ Full \in Nat /\ TokenInterval \in Nat /\ TokenInterval <= Full
      /\ credit[k] \in 0 .. Full /\ age[k] \in Nat
      /\ owed[k] \in 0 .. Full /\ dated[k] \in 0 .. Full /\ promise[k] \in Int
  <2>1. MaxAge \in Nat /\ NoPromise \in Int
    BY <1>1, LimiterAssumption DEF IInv, PolicyOK, MaxAge, NoPromise
  <2> QED BY <1>1, <1>3, <2>1 DEF IInv, PolicyOK, BooksOK
<1>7. BucketOK(k)
  BY <1>3 DEF IInv
<1> HIDE DEF k, s, kept
<1>8. CASE k \in kept
  <2>1. Found(c) = Refill(credit[k], age[k] - s)
    BY <1>8 DEF Found, k, s, kept
  <2>2. k \in Held
    BY <1>5, <1>8
  <2>3. /\ owed[k] <= Book(k) /\ Book(k) <= dated[k]
        /\ TokenInterval <= credit[k] + age[k] + promise[k]
    BY <1>7, <2>2 DEF BucketOK
  <2>4. /\ Found(c) \in 0 .. Full
        /\ Book(k) <= Found(c) + s /\ Found(c) <= Book(k)
        /\ Found(c) = Full \/ credit[k] + age[k] <= Found(c) + s
    BY <1>4, <1>6, <2>1 DEF Refill, Book, Smaller
  <2>5. Book(k) \in Int
    BY <1>6 DEF Book, Smaller
  <2> QED BY <1>3, <1>4, <1>6, <2>3, <2>4, <2>5 DEF k, s
<1>9. CASE k \notin kept
  <2>1. Found(c) = Full
    BY <1>9 DEF Found, k, s, kept
  <2>2. dated[k] = Full
    <3>1. CASE k \in Held
      <4>1. Full <= age[k]
        BY <1>5, <1>9, <3>1
      <4>2. Book(k) = Full
        BY <1>6, <4>1 DEF Book, Smaller
      <4> QED BY <1>6, <1>7, <3>1, <4>2 DEF BucketOK
    <3>2. CASE k \notin Held
      BY <1>7, <3>2 DEF BucketOK
    <3> QED BY <3>1, <3>2
  <2> QED BY <1>3, <1>4, <1>6, <2>1, <2>2 DEF k, s
<1> QED BY <1>8, <1>9

(* What Allow does, with the bucket it found named.                        *)
LEMMA AllowEffect ==
    ASSUME IInv, NEW c \in Callers, Allow(c),
           NEW k, k = wait[c].key, NEW s, s = wait[c].stale
    PROVE  /\ wait[c] # NoCall /\ wait' = [wait EXCEPT ![c] = NoCall]
           /\ lru' = Touch(Unexpired(s), k)
           /\ kind' = kind /\ cfg' = cfg
           /\ credit' = [x \in Keys |-> IF x = k THEN Spend(Found(c))
                                        ELSE IF x \in Range(lru') THEN credit[x] ELSE 0]
           /\ age' = [x \in Keys |-> IF x = k THEN s
                                     ELSE IF x \in Range(lru') THEN age[x] ELSE 0]
           /\ owed' = [x \in Keys |->
                 IF x \in Range(Unexpired(s)) \ Range(lru') THEN Full
                 ELSE IF x # k THEN owed[x]
                 ELSE IF ~(Found(c) >= TokenInterval) THEN owed[x]
                 ELSE owed[x] - Smaller(owed[x], TokenInterval)]
           /\ dated' = [x \in Keys |->
                 IF x \in Range(Unexpired(s)) \ Range(lru') THEN Full
                 ELSE IF x # k THEN dated[x]
                 ELSE IF ~(Found(c) >= TokenInterval) THEN Smaller(Full, dated[x] + s)
                 ELSE IF dated[x] < TokenInterval THEN dated[x] - TokenInterval
                 ELSE Smaller(Full, dated[x] - TokenInterval + s)]
           /\ promise' = [promise EXCEPT ![k] =
                 IF Found(c) >= TokenInterval THEN NoPromise
                 ELSE Smaller(promise[k], roundUpToSecond(TokenInterval - Found(c)) - s)]
<1>1. wait[c] # NoCall
  BY DEF Allow
<1>2. wait[c].owner = k
  BY <1>1, FoundIsRight
<1> QED BY <1>1, <1>2, Zenon DEF Allow, Found

(* A call moves its bucket to the front, and leaves behind it buckets in   *)
(* the order they had, none of them idle for the TTL and a wait.           *)
LEMMA OrderAfterAllow ==
    ASSUME IInv, NEW c \in Callers, Allow(c),
           NEW k, k = wait[c].key, NEW s, s = wait[c].stale
    PROVE  /\ lru' \in Seq(Keys) /\ Len(lru') >= 1 /\ lru'[1] = k
           /\ \A i \in 2 .. Len(lru') :
                 \E p \in DOMAIN lru :
                    /\ lru'[i] = lru[p] /\ lru[p] # k
                    /\ lru[p] \in Range(Unexpired(s))
                    /\ cfg.ttl > 0 => age[lru[p]] - s < cfg.ttl + MaxSkew
           /\ \A i, j \in 2 .. Len(lru') :
                 i < j => \E p, q \in DOMAIN lru :
                             p < q /\ lru'[i] = lru[p] /\ lru'[j] = lru[q]
<1> DEFINE n == Len(lru)
           u == Unexpired(s)
<1>1. wait[c] # NoCall /\ lru' = Touch(u, k)
  BY AllowEffect
<1>2. k \in Keys /\ s \in 0 .. MaxSkew /\ MaxSkew \in Nat
  BY <1>1, FoundIsRight, LimiterAssumption
<1>3. PolicyOK /\ BooksOK /\ UsedInOrder
  BY DEF IInv
<1>4. lru \in Seq(Keys) /\ n \in Nat /\ DOMAIN lru = 1 .. n
  BY <1>3 DEF BooksOK
<1>5. PICK m \in 0 .. n :
         /\ u \in Seq(Keys)
         /\ Len(u) = m
         /\ \A i \in 1 .. m : u[i] = lru[i]
         /\ cfg.ttl = 0 => m = n
         /\ cfg.ttl > 0 => /\ m > 0 => age[lru[m]] - s < cfg.ttl
                           /\ \A i \in 1 .. n : i > m => age[lru[i]] - s >= cfg.ttl
  <2>1. s \in Nat
    BY <1>2
  <2> QED BY <1>3, <2>1, UnexpiredShape
<1> HIDE DEF u, n
<1>6. DOMAIN u = 1 .. m /\ 1 .. m \subseteq 1 .. n
  BY <1>4, <1>5
<1>7. \A i, j \in DOMAIN u : u[i] = u[j] => i = j
  BY <1>3, <1>4, <1>5, <1>6 DEF UsedInOrder
<1>8. /\ lru' \in Seq(Keys) /\ Len(lru') >= 1 /\ lru'[1] = k
      /\ \A i \in 2 .. Len(lru') : \E p \in DOMAIN u : lru'[i] = u[p] /\ u[p] # k
      /\ \A i, j \in 2 .. Len(lru') :
            i < j => \E p, q \in DOMAIN u : p < q /\ lru'[i] = u[p] /\ lru'[j] = u[q]
  <2>1. Capacity \in Nat \ {0}
    BY <1>3 DEF PolicyOK
  <2>2. u \in Seq(Keys) /\ k \in Keys
    BY <1>2, <1>5
  <2> DEFINE t == Touch(u, k)
  <2>3. t \in Seq(Keys) /\ Len(t) >= 1 /\ t[1] = k
    BY <1>7, <2>1, <2>2, TouchShape
  <2>4. \A i \in 2 .. Len(t) : \E p \in DOMAIN u : t[i] = u[p] /\ u[p] # k
    BY <1>7, <2>1, <2>2, TouchShape
  <2>5. \A i, j \in 2 .. Len(t) :
           i < j => \E p, q \in DOMAIN u : p < q /\ t[i] = u[p] /\ t[j] = u[q]
    BY <1>7, <2>1, <2>2, TouchShape
  <2> HIDE DEF t
  <2>6. lru' = t
    BY <1>1 DEF t
  <2> QED BY <2>3, <2>4, <2>5, <2>6
<1>9. ASSUME NEW p \in DOMAIN u
      PROVE  /\ p \in DOMAIN lru /\ u[p] = lru[p] /\ u[p] \in Range(u)
             /\ cfg.ttl > 0 => age[lru[p]] - s < cfg.ttl + MaxSkew
  <2>1. p \in DOMAIN lru /\ u[p] = lru[p] /\ u[p] \in Range(u)
    BY <1>4, <1>5, <1>6 DEF Range
  <2>2. ASSUME cfg.ttl > 0 PROVE age[lru[p]] - s < cfg.ttl + MaxSkew
    <3>1. m \in DOMAIN lru /\ m > 0 /\ p <= m
      BY <1>4, <1>5, <1>6
    <3>2. age[lru[m]] - s < cfg.ttl
      BY <1>5, <2>2, <3>1
    <3>3. age[lru[m]] \in Int /\ age[lru[p]] \in Int
      <4>1. lru[m] \in Keys /\ lru[p] \in Keys
        BY <1>4, <2>1, <3>1
      <4> QED BY <1>3, <4>1 DEF BooksOK
    <3>4. age[lru[p]] <= age[lru[m]] + MaxSkew
      <4>1. CASE p = m
        BY <1>2, <3>3, <4>1
      <4>2. CASE p < m
        BY <1>3, <2>1, <3>1, <4>2 DEF UsedInOrder
      <4> QED BY <1>5, <1>6, <3>1, <4>1, <4>2
    <3>5. cfg.ttl \in Nat /\ s \in Int
      BY <1>2, <1>3 DEF PolicyOK
    <3> QED BY <1>2, <3>2, <3>3, <3>4, <3>5
  <2> QED BY <2>1, <2>2
<1> QED BY <1>8, <1>9 DEF u

(* The buckets a call does not use keep their books or are dropped full.   *)
LEMMA OthersAfterAllow ==
    ASSUME IInv, NEW c \in Callers, Allow(c), NEW x \in Keys, x # wait[c].key
    PROVE  /\ x \in Held' => /\ x \in Held
                             /\ credit'[x] = credit[x] /\ age'[x] = age[x]
                             /\ owed'[x] = owed[x] /\ dated'[x] = dated[x]
                             /\ promise'[x] = promise[x]
           /\ x \notin Held' => dated'[x] = Full
<1> DEFINE k == wait[c].key
           s == wait[c].stale
           u == Unexpired(s)
<1>1. /\ wait[c] # NoCall
      /\ credit'[x] = IF x \in Range(lru') THEN credit[x] ELSE 0
      /\ age'[x] = IF x \in Range(lru') THEN age[x] ELSE 0
      /\ owed'[x] = IF x \in Range(u) \ Range(lru') THEN Full ELSE owed[x]
      /\ dated'[x] = IF x \in Range(u) \ Range(lru') THEN Full ELSE dated[x]
      /\ promise'[x] = promise[x]
  <2>1. promise \in [Keys -> (-MaxSkew) .. NoPromise]
    BY DEF IInv, BooksOK
  <2> HIDE DEF u
  <2>2. /\ wait[c] # NoCall
        /\ credit' = [y \in Keys |-> IF y = k THEN Spend(Found(c))
                                     ELSE IF y \in Range(lru') THEN credit[y] ELSE 0]
        /\ age' = [y \in Keys |-> IF y = k THEN s
                                  ELSE IF y \in Range(lru') THEN age[y] ELSE 0]
    BY AllowEffect
  <2>3. owed'[x] = IF x \in Range(u) \ Range(lru') THEN Full ELSE owed[x]
    BY AllowEffect DEF u
  <2>4. dated' = [y \in Keys |->
                   IF y \in Range(u) \ Range(lru') THEN Full
                   ELSE IF y # k THEN dated[y]
                   ELSE IF ~(Found(c) >= TokenInterval) THEN Smaller(Full, dated[y] + s)
                   ELSE IF dated[y] < TokenInterval THEN dated[y] - TokenInterval
                   ELSE Smaller(Full, dated[y] - TokenInterval + s)]
    BY AllowEffect DEF u
  <2>5. promise' = [promise EXCEPT ![k] = promise'[k]]
    BY <2>1, AllowEffect
  <2> QED BY <2>1, <2>2, <2>3, <2>4, <2>5
<1>2. Held' = Range(lru')
  BY DEF Held, Range
<1>3. s \in Nat
  BY <1>1, FoundIsRight, LimiterAssumption
<1>4. Range(u) \subseteq Held /\ \A y \in Held : y \in Range(u) \/ Full <= age[y]
  BY <1>3, DroppedIsFull
<1>5. CASE x \in Held'
  <2>1. PICK i \in DOMAIN lru' : lru'[i] = x
    BY <1>5 DEF Held
  <2>2. lru' \in Seq(Keys) /\ lru'[1] = k
    BY OrderAfterAllow
  <2>3. i \in 2 .. Len(lru')
    BY <2>1, <2>2
  <2>4. x \in Range(u)
    BY <2>1, <2>3, OrderAfterAllow
  <2> QED BY <1>1, <1>2, <1>4, <1>5, <2>4
<1>6. ASSUME x \notin Held' PROVE dated'[x] = Full
  <2>1. CASE x \in Range(u)
    BY <1>1, <1>2, <1>6, <2>1
  <2>2. CASE x \in Held /\ x \notin Range(u)
    <3>1. Full <= age[x] /\ dated'[x] = dated[x]
      BY <1>1, <1>4, <2>2
    <3>2. Full \in Nat /\ credit[x] \in 0 .. Full /\ age[x] \in Int /\ dated[x] \in 0 .. Full
      BY DEF IInv, PolicyOK, BooksOK
    <3>3. Book(x) = Full
      BY <3>1, <3>2 DEF Book, Smaller
    <3>4. Book(x) <= dated[x]
      BY <2>2 DEF IInv, BucketOK
    <3> QED BY <3>1, <3>2, <3>3, <3>4
  <2>3. CASE x \notin Held
    <3>1. dated'[x] = dated[x]
      BY <1>1, <1>4, <2>3
    <3> QED BY <2>3, <3>1 DEF IInv, BucketOK
  <2> QED BY <1>6, <2>1, <2>2, <2>3
<1> QED BY <1>5, <1>6

-----------------------------------------------------------------------------
(* The invariant is inductive.                                             *)

(* A token's share of the interval, and what all of a burst's are worth.   *)
LEMMA SharesOfInterval ==
    ASSUME NEW b \in Nat \ {0}, NEW i \in Nat, i \div b > 0
    PROVE  /\ i \div b \in Nat \ {0}
           /\ b * (i \div b) \in Nat
           /\ b * (i \div b) <= i
           /\ i \div b <= b * (i \div b)
<1>1. i \div b \in Nat \ {0} /\ b * (i \div b) <= i
  OBVIOUS
<1>2. \A t \in Nat : b * t \in Nat /\ t <= b * t
  OBVIOUS
<1> QED BY <1>1, <1>2

(* Every accepted setting is a policy the limiter can keep.                *)
LEMMA PolicyAtStart == Init => PolicyOK
<1> SUFFICES ASSUME Init PROVE PolicyOK
  OBVIOUS
<1>1. kind \in Limiters /\ cfg \in Settings /\ LimitsAccepted(cfg)
  BY LimiterAssumption DEF Init
<1>2. /\ cfg.limits \in [Limiters -> [burst : Int, interval : Int]]
      /\ cfg.capacities \in [Limiters \ {"webhook"} -> Int]
      /\ cfg.ttl \in Int
  BY <1>1, LimiterAssumption
<1>3. Policy \in [burst : Int, interval : Int]
  BY <1>1, <1>2 DEF Policy
<1>4. Policy.burst \in Nat \ {0} /\ Policy.interval \in Nat
      /\ Policy.interval \div Policy.burst > 0
  BY <1>3 DEF Init, Validate
<1>5. /\ TokenInterval \in Nat \ {0} /\ Full \in Nat
      /\ Full <= Policy.interval /\ TokenInterval <= Full
  BY <1>4, SharesOfInterval DEF TokenInterval, Full
<1>6. Capacity \in Nat \ {0}
  BY <1>1, <1>2 DEF Init, Capacity
<1>7. cfg.ttl \in Nat
  BY <1>2 DEF Init
<1>8. cfg.ttl > 0 => Full <= cfg.ttl
  <2>1. cfg.ttl > 0 => cfg.ttl >= cfg.limits[kind].interval
    BY <1>1, <1>2 DEF LimitsAccepted
  <2> QED BY <1>4, <1>5, <1>7, <2>1 DEF Policy
<1> QED BY <1>1, <1>5, <1>6, <1>7, <1>8 DEF PolicyOK

(* The bounds are numbers.                                                 *)
LEMMA BoundsAreNumbers ==
    ASSUME PolicyOK
    PROVE  /\ MaxSkew \in Nat /\ MaxAge \in Nat /\ NoPromise \in Nat
           /\ Full <= MaxAge /\ MaxSkew <= MaxAge /\ MaxAge < NoPromise
           /\ MaxAge = Full + cfg.ttl + MaxSkew
  BY LimiterAssumption DEF PolicyOK, MaxAge, NoPromise

(* The limiter starts in the invariant.                                    *)
LEMMA StartsInInv == Init => IInv
<1> SUFFICES ASSUME Init PROVE IInv
  OBVIOUS
<1>1. PolicyOK
  BY PolicyAtStart
<1>2. MaxSkew \in Nat /\ MaxAge \in Nat /\ NoPromise \in Nat /\ Full \in Nat
  BY <1>1, BoundsAreNumbers DEF PolicyOK
<1>3. BooksOK
  BY <1>2 DEF Init, BooksOK
<1>4. Held = {} /\ UsedInOrder
  BY DEF Init, Held, UsedInOrder
<1>5. \A k \in Keys : BucketOK(k)
  BY <1>4 DEF Init, BucketOK
<1> QED BY <1>1, <1>3, <1>4, <1>5 DEF IInv

(* The policy and what depends on it alone never change.                   *)
LEMMA PolicyStays ==
    ASSUME kind' = kind, cfg' = cfg
    PROVE  /\ Keys' = Keys /\ TokenInterval' = TokenInterval /\ Full' = Full
           /\ MaxAge' = MaxAge /\ NoPromise' = NoPromise /\ Calls' = Calls
           /\ PolicyOK => PolicyOK'
<1>1. Keys' = Keys /\ TokenInterval' = TokenInterval /\ Full' = Full
  BY DEF Keys, TokenInterval, Full, Policy
<1>2. MaxAge' = MaxAge /\ NoPromise' = NoPromise
  BY <1>1 DEF MaxAge, NoPromise
<1>3. Calls' = Calls
  BY <1>1 DEF Calls
<1>4. PolicyOK => PolicyOK'
  BY <1>1 DEF PolicyOK, Capacity
<1> QED BY <1>1, <1>2, <1>3, <1>4

(* A request that reads the clock disturbs no bucket.                      *)
LEMMA ArriveKeepsInv ==
    ASSUME IInv, NEW c \in Callers, NEW r \in Requests, Arrive(c, r)
    PROVE  IInv'
<1>1. /\ Keys' = Keys /\ TokenInterval' = TokenInterval /\ Full' = Full
      /\ MaxAge' = MaxAge /\ NoPromise' = NoPromise /\ Calls' = Calls
      /\ PolicyOK'
  BY PolicyStays DEF IInv, Arrive
<1>2. r.key \in Keys /\ r.owner = r.key /\ r.key # NoKey
  BY CountedAsOwner DEF IInv, PolicyOK, Arrive
<1>3. [key |-> r.key, owner |-> r.owner, stale |-> 0] \in Calls
  BY <1>2, LimiterAssumption DEF Calls
<1>4. wait' \in [Callers -> Calls \cup {NoCall}]
  BY <1>3 DEF IInv, BooksOK, Arrive
<1>5. BooksOK'
  BY <1>1, <1>4 DEF IInv, BooksOK, Arrive, NoCall
<1>6. UsedInOrder' /\ Held' = Held
  BY DEF IInv, UsedInOrder, Arrive, Held
<1>7. \A k \in Keys' : BucketOK(k)'
  BY <1>1, <1>6 DEF IInv, BucketOK, Book, Arrive
<1> QED BY <1>1, <1>5, <1>6, <1>7 DEF IInv

(* Time passes for every book alike.                                       *)
LEMMA TickKeepsInv ==
    ASSUME IInv, Tick
    PROVE  IInv'
<1>1. /\ Keys' = Keys /\ TokenInterval' = TokenInterval /\ Full' = Full
      /\ MaxAge' = MaxAge /\ NoPromise' = NoPromise /\ Calls' = Calls
      /\ PolicyOK'
  BY PolicyStays DEF IInv, Tick
<1>2. /\ MaxSkew \in Nat /\ MaxAge \in Nat /\ NoPromise \in Nat
      /\ Full <= MaxAge /\ MaxSkew <= MaxAge /\ MaxAge < NoPromise
      /\ MaxAge = Full + cfg.ttl + MaxSkew
      /\ Full \in Nat /\ TokenInterval \in Nat \ {0} /\ TokenInterval <= Full
      /\ cfg.ttl \in Nat
  BY BoundsAreNumbers DEF IInv, PolicyOK
<1>3. BooksOK /\ UsedInOrder
  BY DEF IInv
<1>4. wait' \in [Callers -> Calls \cup {NoCall}]
  <2>1. ASSUME NEW c \in Callers, wait[c] # NoCall
        PROVE  [wait[c] EXCEPT !.stale = @ + 1] \in Calls
    <3>1. wait[c] \in Calls /\ wait[c].stale < MaxSkew
      BY <1>3, <2>1 DEF BooksOK, Tick
    <3> QED BY <1>2, <3>1 DEF Calls
  <2> QED BY <2>1 DEF Tick
<1>5. ASSUME NEW k \in Keys
      PROVE  /\ credit[k] \in 0 .. Full /\ age[k] \in 0 .. MaxAge
             /\ owed[k] \in 0 .. Full /\ dated[k] \in 0 .. Full
             /\ promise[k] \in (-MaxSkew) .. NoPromise
             /\ credit'[k] = credit[k]
             /\ age'[k] = IF k \in Held THEN Smaller(MaxAge, age[k] + 1) ELSE 0
             /\ owed'[k] = Smaller(Full, owed[k] + 1)
             /\ dated'[k] = Smaller(Full, dated[k] + 1)
             /\ promise'[k] = IF promise[k] = NoPromise THEN NoPromise
                              ELSE IF promise[k] <= -MaxSkew THEN promise[k]
                              ELSE promise[k] - 1
  BY <1>3 DEF BooksOK, Tick
<1>6. ASSUME NEW k \in Keys
      PROVE  /\ age'[k] \in 0 .. MaxAge /\ owed'[k] \in 0 .. Full
             /\ dated'[k] \in 0 .. Full /\ promise'[k] \in (-MaxSkew) .. NoPromise
  BY <1>2, <1>5 DEF Smaller
<1>7. BooksOK'
  <2>1. /\ age' \in [Keys -> 0 .. MaxAge] /\ owed' \in [Keys -> 0 .. Full]
        /\ dated' \in [Keys -> 0 .. Full]
        /\ promise' \in [Keys -> (-MaxSkew) .. NoPromise]
    BY <1>6 DEF Tick
  <2>2. lru' \in Seq(Keys) /\ credit' \in [Keys -> 0 .. Full]
    BY <1>3 DEF Tick, BooksOK
  <2> QED BY <1>1, <1>4, <2>1, <2>2 DEF BooksOK, NoCall
<1>8. Held' = Held
  BY DEF Held, Tick
<1>9. UsedInOrder'
  <2>1. lru' = lru /\ lru \in Seq(Keys)
    BY <1>3 DEF Tick, BooksOK
  <2>2. ASSUME NEW i \in DOMAIN lru, NEW j \in DOMAIN lru, i < j
        PROVE  age'[lru[i]] <= age'[lru[j]] + MaxSkew
    <3>1. lru[i] \in Keys /\ lru[j] \in Keys /\ lru[i] \in Held /\ lru[j] \in Held
      BY <2>1 DEF Held
    <3>2. age[lru[i]] <= age[lru[j]] + MaxSkew
      BY <1>3, <2>2 DEF UsedInOrder
    <3>3. /\ age'[lru[i]] = Smaller(MaxAge, age[lru[i]] + 1)
          /\ age'[lru[j]] = Smaller(MaxAge, age[lru[j]] + 1)
          /\ age[lru[i]] \in 0 .. MaxAge /\ age[lru[j]] \in 0 .. MaxAge
      BY <1>5, <3>1
    <3> QED BY <1>2, <3>2, <3>3 DEF Smaller
  <2> QED BY <1>3, <2>1, <2>2 DEF UsedInOrder
<1>10. ASSUME NEW k \in Keys PROVE BucketOK(k)'
  <2>1. BucketOK(k)
    BY DEF IInv
  <2>2. Book(k)' = Smaller(Full, credit'[k] + age'[k])
    BY <1>1 DEF Book
  <2>3. CASE k \in Held
    <3>1. /\ owed[k] <= Book(k) /\ Book(k) <= dated[k]
          /\ TokenInterval <= credit[k] + age[k] + promise[k]
      BY <2>1, <2>3 DEF BucketOK
    <3>2. age'[k] = Smaller(MaxAge, age[k] + 1) /\ credit'[k] = credit[k]
      BY <1>5, <2>3
    <3>3. owed'[k] <= Book(k)' /\ Book(k)' <= dated'[k]
      BY <1>2, <1>5, <2>2, <3>1, <3>2 DEF Book, Smaller
    <3>4. TokenInterval <= credit'[k] + age'[k] + promise'[k]
      BY <1>2, <1>5, <3>1, <3>2 DEF Smaller
    <3> QED BY <1>1, <1>8, <2>3, <3>3, <3>4 DEF BucketOK
  <2>4. CASE k \notin Held
    <3>1. dated[k] = Full
      BY <2>1, <2>4 DEF BucketOK
    <3>2. dated'[k] = Full
      BY <1>2, <1>5, <3>1 DEF Smaller
    <3> QED BY <1>1, <1>8, <2>4, <3>2 DEF BucketOK
  <2> QED BY <2>3, <2>4
<1> QED BY <1>1, <1>7, <1>9, <1>10 DEF IInv

(* A call leaves its own bucket and the others with right books.           *)
LEMMA AllowKeepsInv ==
    ASSUME IInv, NEW c \in Callers, Allow(c)
    PROVE  IInv'
<1>0. SUFFICES ASSUME NEW k, k = wait[c].key, NEW s, s = wait[c].stale,
                      NEW f, f = Found(c)
               PROVE  IInv'
  OBVIOUS
<1>1. /\ Keys' = Keys /\ TokenInterval' = TokenInterval /\ Full' = Full
      /\ MaxAge' = MaxAge /\ NoPromise' = NoPromise /\ Calls' = Calls
      /\ PolicyOK'
  BY PolicyStays DEF IInv, Allow
<1>2. /\ MaxSkew \in Nat /\ MaxAge \in Nat /\ NoPromise \in Nat
      /\ Full <= MaxAge /\ MaxSkew <= MaxAge /\ MaxAge < NoPromise
      /\ Full \in Nat /\ TokenInterval \in Nat \ {0} /\ TokenInterval <= Full
  BY BoundsAreNumbers DEF IInv, PolicyOK
<1>3. PolicyOK /\ BooksOK /\ UsedInOrder
  BY DEF IInv
<1>4. wait[c] # NoCall
  BY DEF Allow
<1>5. /\ k \in Keys /\ s \in 0 .. MaxSkew /\ f \in 0 .. Full
      /\ owed[k] <= f + s /\ f <= dated[k]
      /\ f >= TokenInterval \/ f + s + promise[k] >= TokenInterval
  BY <1>4, <1>0, FoundIsRight
<1>6. ASSUME NEW x \in Keys
      PROVE  /\ credit[x] \in 0 .. Full /\ age[x] \in 0 .. MaxAge
             /\ owed[x] \in 0 .. Full /\ dated[x] \in 0 .. Full
             /\ promise[x] \in (-MaxSkew) .. NoPromise
  BY <1>3 DEF BooksOK
<1>7. lru' \in Seq(Keys) /\ Len(lru') >= 1 /\ lru'[1] = k
  BY <1>0, OrderAfterAllow
<1>8. k \in Range(lru')
  BY <1>7 DEF Range
<1>9. /\ wait' = [wait EXCEPT ![c] = NoCall]
      /\ credit'[k] = Spend(f) /\ age'[k] = s
  BY <1>5, <1>0, AllowEffect
<1>10. owed'[k] = IF f >= TokenInterval THEN owed[k] - Smaller(owed[k], TokenInterval)
                  ELSE owed[k]
  BY <1>5, <1>8, <1>0, AllowEffect
<1>11. dated'[k] = IF ~(f >= TokenInterval) THEN Smaller(Full, dated[k] + s)
                   ELSE IF dated[k] < TokenInterval THEN dated[k] - TokenInterval
                   ELSE Smaller(Full, dated[k] - TokenInterval + s)
  BY <1>5, <1>8, <1>0, AllowEffect
<1>12. promise'[k] = IF f >= TokenInterval THEN NoPromise
                     ELSE Smaller(promise[k], roundUpToSecond(TokenInterval - f) - s)
  BY <1>3, <1>5, <1>0, AllowEffect DEF BooksOK
<1>13. /\ credit' = [x \in Keys |-> credit'[x]] /\ age' = [x \in Keys |-> age'[x]]
       /\ owed' = [x \in Keys |-> owed'[x]] /\ dated' = [x \in Keys |-> dated'[x]]
       /\ promise' = [x \in Keys |-> promise'[x]]
  BY <1>3 DEF Allow, BooksOK
<1>14. ~(f >= TokenInterval) =>
          /\ roundUpToSecond(TokenInterval - f) \in Nat \ {0}
          /\ roundUpToSecond(TokenInterval - f) >= TokenInterval - f
  <2>1. ~(f >= TokenInterval) => TokenInterval - f \in Nat \ {0}
    BY <1>2, <1>5
  <2> QED BY <2>1, RoundedUp
<1>15. /\ owed[k] \in 0 .. Full /\ dated[k] \in 0 .. Full
       /\ promise[k] \in (-MaxSkew) .. NoPromise
  BY <1>5, <1>6
<1>16. /\ credit'[k] \in 0 .. Full /\ age'[k] \in 0 .. MaxAge
       /\ owed'[k] \in 0 .. Full /\ dated'[k] \in 0 .. Full
       /\ promise'[k] \in (-MaxSkew) .. NoPromise
  <2>1. CASE f >= TokenInterval
    BY <1>2, <1>5, <1>9, <1>10, <1>11, <1>12, <1>15, <2>1 DEF Smaller, Spend
  <2>2. CASE ~(f >= TokenInterval)
    BY <1>2, <1>5, <1>9, <1>10, <1>11, <1>12, <1>14, <1>15, <2>2 DEF Smaller, Spend
  <2> QED BY <2>1, <2>2
<1>17. BucketOK(k)'
  <2>1. Book(k)' = Smaller(Full, credit'[k] + age'[k])
    BY <1>1, <1>5 DEF Book
  <2>2. k \in Held'
    BY <1>8 DEF Held, Range
  <2>3. CASE f >= TokenInterval
    <3>1. credit'[k] = f - TokenInterval
      BY <1>9, <2>3 DEF Spend
    <3>2. owed'[k] <= Book(k)'
      BY <1>2, <1>5, <1>9, <1>10, <1>15, <2>1, <2>3, <3>1 DEF Smaller
    <3>3. Book(k)' <= dated'[k]
      BY <1>2, <1>5, <1>9, <1>11, <1>15, <2>1, <2>3, <3>1 DEF Smaller
    <3>4. TokenInterval <= credit'[k] + age'[k] + promise'[k]
      BY <1>2, <1>5, <1>9, <1>12, <1>15, <2>3, <3>1
    <3> QED BY <1>1, <2>2, <3>2, <3>3, <3>4 DEF BucketOK
  <2>4. CASE ~(f >= TokenInterval)
    <3>1. credit'[k] = f
      BY <1>9, <2>4 DEF Spend
    <3>2. owed'[k] <= Book(k)'
      BY <1>2, <1>5, <1>9, <1>10, <1>15, <2>1, <2>4, <3>1 DEF Smaller
    <3>3. Book(k)' <= dated'[k]
      BY <1>2, <1>5, <1>9, <1>11, <1>15, <2>1, <2>4, <3>1 DEF Smaller
    <3>4. TokenInterval <= credit'[k] + age'[k] + promise'[k]
      BY <1>2, <1>5, <1>9, <1>12, <1>14, <1>15, <2>4, <3>1 DEF Smaller
    <3> QED BY <1>1, <2>2, <3>2, <3>3, <3>4 DEF BucketOK
  <2> QED BY <2>3, <2>4
<1>18. ASSUME NEW x \in Keys, x # k
       PROVE  /\ credit'[x] \in 0 .. Full /\ age'[x] \in 0 .. MaxAge
              /\ owed'[x] \in 0 .. Full /\ dated'[x] \in 0 .. Full
              /\ promise'[x] \in (-MaxSkew) .. NoPromise
              /\ BucketOK(x)'
  <2>1. /\ x \in Held' => /\ x \in Held
                          /\ credit'[x] = credit[x] /\ age'[x] = age[x]
                          /\ owed'[x] = owed[x] /\ dated'[x] = dated[x]
                          /\ promise'[x] = promise[x]
        /\ x \notin Held' => dated'[x] = Full
    BY <1>18, <1>0, OthersAfterAllow
  <2>2. BucketOK(x)
    BY DEF IInv
  <2>3. CASE x \in Held'
    <3>1. Book(x)' = Book(x)
      BY <1>1, <2>1, <2>3 DEF Book
    <3>2. BucketOK(x)'
      BY <1>1, <2>1, <2>2, <2>3, <3>1 DEF BucketOK
    <3> QED BY <1>6, <2>1, <2>3, <3>2
  <2>4. CASE x \notin Held'
    <3>1. dated'[x] = Full /\ BucketOK(x)'
      BY <1>1, <2>1, <2>4 DEF BucketOK
    <3>2. x \notin Range(lru')
      BY <2>4 DEF Held, Range
    <3>3. credit'[x] = 0 /\ age'[x] = 0
      BY <1>0, <1>18, <3>2, AllowEffect
    <3>4. owed'[x] = Full \/ owed'[x] = owed[x]
      BY <1>0, <1>18, AllowEffect
    <3>5. promise'[x] = promise[x]
      <4>1. promise' = [promise EXCEPT ![k] =
               IF f >= TokenInterval THEN NoPromise
               ELSE Smaller(promise[k], roundUpToSecond(TokenInterval - f) - s)]
        BY <1>0, AllowEffect
      <4> QED BY <1>3, <1>18, <4>1 DEF BooksOK
    <3> QED BY <1>2, <1>6, <3>1, <3>3, <3>4, <3>5
  <2> QED BY <2>3, <2>4
<1>19. BooksOK'
  <2>1. wait' \in [Callers -> Calls \cup {NoCall}]
    BY <1>3, <1>9 DEF BooksOK
  <2>2. /\ credit' \in [Keys -> 0 .. Full] /\ age' \in [Keys -> 0 .. MaxAge]
        /\ owed' \in [Keys -> 0 .. Full] /\ dated' \in [Keys -> 0 .. Full]
        /\ promise' \in [Keys -> (-MaxSkew) .. NoPromise]
    BY <1>13, <1>16, <1>18
  <2> QED BY <1>1, <1>7, <2>1, <2>2 DEF BooksOK, NoCall
<1>20. UsedInOrder'
  <2> DEFINE n == Len(lru')
  <2>1. n \in Nat /\ n >= 1 /\ DOMAIN lru' = 1 .. n
    BY <1>7
  <2>2. ASSUME NEW i \in 2 .. n
        PROVE  lru'[i] \in Keys /\ lru'[i] # k /\ age'[lru'[i]] = age[lru'[i]]
    <3>1. lru'[i] \in Keys /\ lru'[i] \in Held'
      BY <1>7, <2>1 DEF Held
    <3>2. lru'[i] # k
      BY <1>0, OrderAfterAllow
    <3> QED BY <3>1, <3>2, <1>0, OthersAfterAllow
  <2>3. ASSUME NEW i \in 2 .. n, NEW j \in 2 .. n, i < j
        PROVE  lru'[i] # lru'[j] /\ age[lru'[i]] <= age[lru'[j]] + MaxSkew
    <3>1. PICK p \in DOMAIN lru, q \in DOMAIN lru :
             p < q /\ lru'[i] = lru[p] /\ lru'[j] = lru[q]
      BY <1>0, <2>3, OrderAfterAllow
    <3>2. p # q
      BY <1>3, <3>1 DEF BooksOK
    <3> QED BY <1>3, <3>1, <3>2 DEF UsedInOrder
  <2> HIDE DEF n
  <2>4. ASSUME NEW i \in 1 .. n, NEW j \in 1 .. n, i < j
        PROVE  lru'[i] # lru'[j] /\ age'[lru'[i]] <= age'[lru'[j]] + MaxSkew
    <3>1. j \in 2 .. n
      BY <2>1, <2>4
    <3>2. CASE i = 1
      <4>1. lru'[i] = k
        BY <1>7, <3>2
      <4>2. age[lru'[j]] \in 0 .. MaxAge
        BY <1>6, <2>2, <3>1
      <4> QED BY <1>2, <1>5, <1>9, <2>2, <3>1, <4>1, <4>2
    <3>3. CASE i # 1
      <4>1. i \in 2 .. n
        BY <2>1, <3>3
      <4> QED BY <2>2, <2>3, <2>4, <3>1, <4>1
    <3> QED BY <3>2, <3>3
  <2>5. ASSUME NEW i \in DOMAIN lru', NEW j \in DOMAIN lru', lru'[i] = lru'[j]
        PROVE  i = j
    BY <2>1, <2>4, <2>5
  <2> QED BY <2>1, <2>4, <2>5 DEF UsedInOrder
<1>21. \A x \in Keys : BucketOK(x)'
  BY <1>17, <1>18
<1> QED BY <1>1, <1>19, <1>20, <1>21 DEF IInv

(* The invariant is one of the limiter, under every accepted setting.      *)
THEOREM LimiterInvariance == Spec => []IInv
<1>1. Init => IInv
  BY StartsInInv
<1>2. IInv /\ [Next]_vars => IInv'
  <2> SUFFICES ASSUME IInv, [Next]_vars PROVE IInv'
    OBVIOUS
  <2>1. CASE \E c \in Callers : \E r \in Requests : Arrive(c, r)
    BY <2>1, ArriveKeepsInv
  <2>2. CASE \E c \in Callers : Allow(c)
    BY <2>2, AllowKeepsInv
  <2>3. CASE Tick
    BY <2>3, TickKeepsInv
  <2>4. CASE UNCHANGED vars
    <3>1. /\ Keys' = Keys /\ TokenInterval' = TokenInterval /\ Full' = Full
          /\ MaxAge' = MaxAge /\ NoPromise' = NoPromise /\ Calls' = Calls
          /\ PolicyOK'
      BY <2>4, PolicyStays DEF IInv, vars
    <3>2. BooksOK' /\ UsedInOrder' /\ Held' = Held
      BY <2>4, <3>1 DEF IInv, BooksOK, UsedInOrder, Held, NoCall, vars
    <3>3. \A k \in Keys' : BucketOK(k)'
      BY <2>4, <3>1, <3>2 DEF IInv, BucketOK, Book, vars
    <3> QED BY <3>1, <3>2, <3>3 DEF IInv
  <2> QED BY <2>1, <2>2, <2>3, <2>4 DEF Next
<1> QED BY <1>1, <1>2, PTL DEF Spec

-----------------------------------------------------------------------------
(* What the limiter promises.                                              *)

(* Whatever a client sends and however its calls race, it is granted no    *)
(* more than its policy and the waits for the mutex are worth (Allow,      *)
(* take): expire drops only full buckets, so nothing is gained by idling.  *)
THEOREM RateHolds == Spec => []RateUpheld
<1>1. IInv => RateUpheld
  <2> SUFFICES ASSUME IInv, NEW k \in Keys PROVE dated[k] >= 0
    BY DEF RateUpheld
  <2>1. dated[k] \in 0 .. Full /\ Full \in Nat
    BY DEF IInv, PolicyOK, BooksOK
  <2> QED BY <2>1
<1> QED BY <1>1, LimiterInvariance, PTL

(* No caller finds less than it is owed: a clock reading older than the    *)
(* bucket's takes nothing away, and nobody else is counted against it.     *)
THEOREM NothingWithheld == Spec => []NeverDeniesWrongly
<1>1. IInv => NeverDeniesWrongly
  <2> SUFFICES ASSUME IInv, NEW k \in Held
               PROVE  Smaller(Full, credit[k] + age[k]) >= owed[k]
    BY DEF NeverDeniesWrongly
  <2>1. k \in Keys
    BY DEF Held, IInv, BooksOK
  <2>2. owed[k] <= Book(k)
    BY <2>1 DEF IInv, BucketOK
  <2>3. /\ Full \in Nat /\ credit[k] \in 0 .. Full /\ owed[k] \in 0 .. Full
        /\ age[k] \in Int
    BY <2>1 DEF IInv, PolicyOK, BooksOK
  <2> QED BY <2>2, <2>3 DEF Book, Smaller
<1> QED BY <1>1, LimiterInvariance, PTL

(* Only Allow ends a call.                                                 *)
LEMMA OnlyAllowAnswers ==
    ASSUME IInv, [Next]_vars, NEW c \in Callers, wait[c] # NoCall, wait'[c] = NoCall
    PROVE  Allow(c)
<1>1. wait \in [Callers -> Calls \cup {NoCall}]
  BY DEF IInv, BooksOK
<1>2. ASSUME NEW d \in Callers, NEW r \in Requests, Arrive(d, r) PROVE FALSE
  <2>1. /\ wait[d] = NoCall
        /\ wait' = [wait EXCEPT ![d] = [key |-> r.key, owner |-> r.owner, stale |-> 0]]
    BY <1>2 DEF Arrive
  <2> QED BY <1>1, <2>1
<1>3. ASSUME NEW d \in Callers, Allow(d), d # c PROVE FALSE
  <2>1. wait' = [wait EXCEPT ![d] = NoCall]
    BY <1>3 DEF Allow
  <2> QED BY <1>1, <1>3, <2>1
<1>4. ASSUME Tick PROVE FALSE
  <2>1. wait'[c] = [wait[c] EXCEPT !.stale = @ + 1]
    BY <1>4 DEF Tick
  <2>2. wait[c] \in Calls
    BY <1>1
  <2>3. wait'[c].key = wait[c].key /\ wait[c].key # NoKey
    BY <2>1, <2>2 DEF Calls
  <2> QED BY <2>3 DEF NoCall
<1>5. ASSUME UNCHANGED vars PROVE FALSE
  BY <1>5 DEF vars
<1> QED BY <1>2, <1>3, <1>4, <1>5 DEF Next

(* A client that comes back when Retry-After told it to is admitted        *)
(* (Allow, roundUpToSecond), however often it asked in between.            *)
THEOREM RetryHonoured == Spec => RetryIsAdmitted
<1> DEFINE P == \A c \in Callers :
                  LET k == wait[c].key IN
                  (wait[c] # NoCall /\ wait'[c] = NoCall /\ promise[k] + wait[c].stale <= 0)
                     => promise'[k] = NoPromise
<1>1. IInv /\ [Next]_vars => P
  <2> SUFFICES ASSUME IInv, [Next]_vars, NEW c \in Callers,
                      wait[c] # NoCall, wait'[c] = NoCall,
                      promise[wait[c].key] + wait[c].stale <= 0
               PROVE  promise'[wait[c].key] = NoPromise
    OBVIOUS
  <2> DEFINE k == wait[c].key
             s == wait[c].stale
             f == Found(c)
  <2>1. Allow(c)
    BY OnlyAllowAnswers
  <2>2. /\ k \in Keys /\ s \in 0 .. MaxSkew /\ f \in 0 .. Full
        /\ f >= TokenInterval \/ f + s + promise[k] >= TokenInterval
    BY FoundIsRight
  <2>3. /\ MaxSkew \in Nat /\ Full \in Nat /\ TokenInterval \in Nat
        /\ promise \in [Keys -> (-MaxSkew) .. NoPromise] /\ NoPromise \in Nat
    BY BoundsAreNumbers DEF IInv, PolicyOK, BooksOK
  <2>4. promise' = [promise EXCEPT ![k] =
           IF f >= TokenInterval THEN NoPromise
           ELSE Smaller(promise[k], roundUpToSecond(TokenInterval - f) - s)]
    BY <2>1, AllowEffect
  <2>5. promise[k] + s <= 0 /\ promise[k] \in Int
    BY <2>2, <2>3
  <2> HIDE DEF k, s, f
  <2>6. f >= TokenInterval
    BY <2>2, <2>3, <2>5
  <2>7. promise'[k] = NoPromise
    BY <2>2, <2>3, <2>4, <2>6
  <2> QED BY <2>7 DEF k
<1>2. [][P]_vars => RetryIsAdmitted
  BY PTL DEF RetryIsAdmitted
<1> QED BY <1>1, <1>2, LimiterInvariance, PTL DEF Spec

(* A call leaves no bucket idle for longer than the TTL and the longest    *)
(* wait for the mutex (expire), so what the map holds is in use.           *)
THEOREM IdleBucketsGo == Spec => IdleReclaimed
<1> DEFINE P == \A c \in Callers :
                  (cfg.ttl > 0 /\ wait[c] # NoCall /\ wait'[c] = NoCall)
                     => \A i \in DOMAIN lru' :
                           age'[lru'[i]] - wait[c].stale < cfg.ttl + MaxSkew
<1>1. IInv /\ [Next]_vars => P
  <2> SUFFICES ASSUME IInv, [Next]_vars, NEW c \in Callers, cfg.ttl > 0,
                      wait[c] # NoCall, wait'[c] = NoCall, NEW i \in DOMAIN lru'
               PROVE  age'[lru'[i]] - wait[c].stale < cfg.ttl + MaxSkew
    OBVIOUS
  <2> DEFINE k == wait[c].key
             s == wait[c].stale
  <2>1. Allow(c)
    BY OnlyAllowAnswers
  <2>2. k \in Keys /\ s \in 0 .. MaxSkew /\ MaxSkew \in Nat /\ cfg.ttl \in Nat
    BY FoundIsRight, BoundsAreNumbers DEF IInv, PolicyOK
  <2>3. lru' \in Seq(Keys) /\ lru'[1] = k
    BY <2>1, OrderAfterAllow
  <2>4. age'[k] = s
    BY <2>1, <2>2, AllowEffect
  <2>5. CASE i = 1
    BY <2>2, <2>3, <2>4, <2>5
  <2>6. CASE i # 1
    <3>1. i \in 2 .. Len(lru')
      BY <2>3, <2>6
    <3>2. PICK p \in DOMAIN lru :
             /\ lru'[i] = lru[p] /\ lru[p] # k
             /\ cfg.ttl > 0 => age[lru[p]] - s < cfg.ttl + MaxSkew
      BY <2>1, <3>1, OrderAfterAllow
    <3>3. lru'[i] \in Keys /\ lru'[i] \in Held'
      BY <2>3 DEF Held
    <3>4. age'[lru'[i]] = age[lru'[i]]
      BY <2>1, <3>2, <3>3, OthersAfterAllow
    <3> QED BY <3>2, <3>4
  <2> QED BY <2>5, <2>6
<1>2. [][P]_vars => IdleReclaimed
  BY PTL DEF IdleReclaimed
<1> QED BY <1>1, <1>2, LimiterInvariance, PTL DEF Spec
=============================================================================
