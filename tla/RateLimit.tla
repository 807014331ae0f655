----------------------------- MODULE RateLimit ------------------------------
(***************************************************************************)
(* The in-process rate limiter and the identity it counts.  One Limiter is *)
(* modelled, of any of the four kinds the transport builds; callers read   *)
(* the clock, wait for the mutex and then take from a bucket, so readings  *)
(* reach the buckets out of order.                                         *)
(*                                                                         *)
(* Time is relative: age[k] is the time since bucket k's updatedAt, and a  *)
(* caller's stale the time since it read the clock.  Credit is counted in  *)
(* ticks of refill, so a token is worth TokenInterval ticks of credit.     *)
(***************************************************************************)
EXTENDS Config, FiniteSets, SequencesExt

CONSTANTS
    Settings,   \* rate limiting settings tried; the refused ones never run
    Kinds,      \* which of the four limiters are tried
    V4, V6,     \* client hosts: one address, or a /64 of two addresses
    Entries,    \* the entries of TRUSTED_PROXY_CIDRS
    ApiKeys,    \* configured integration keys
    Callers,    \* requests served at the same time
    Second,     \* ticks in a second
    MaxSkew     \* bound: ticks a caller waits for the mutex

ASSUME LimiterAssumption ==
    /\ Second \in Nat \ {0} /\ MaxSkew \in Nat
    /\ ProxiesAccepted(Entries) /\ V4 \cap V6 = {} /\ Kinds \subseteq Limiters
    /\ \A s \in Settings :
          /\ s.limits \in [Limiters -> [burst : Int, interval : Int]]
          /\ s.capacities \in [Limiters \ {"webhook"} -> Int]
          /\ s.ttl \in Int

VARIABLES
    kind,       \* which of the four limiters this is
    cfg,        \* its settings
    lru,        \* keys held, most recently used first
    credit,     \* bucket.tokens of each key held, in ticks of refill
    age,        \* time since bucket.updatedAt, saturated at MaxAge
    wait,       \* callers between reading the clock and unlocking
    owed,       \* ghost: credit that is each caller's by the policy
    dated,      \* ghost: the same, and the time its callers waited for the mutex
    promise     \* ghost: time until the retry a denial announced is due

vars == <<kind, cfg, lru, credit, age, wait, owed, dated, promise>>

-----------------------------------------------------------------------------
(* Who is calling.                                                         *)

Trusted == ParseTrustedProxies(Entries)
Junk == <<"junk">>
NoKey == <<"none">>

Hosts == V4 \cup V6 \cup Trusted
Addresses(h) == {<<h, i>> : i \in IF h \in V6 THEN {1, 2} ELSE {0}}

(* A client is its address, or the /64 its address lies in.                *)
ClientBucket(a) == IF a[1] \in V6 THEN <<a[1], 0>> ELSE a

trustedProxy(a) == a[1] \in Trusted

(* Bug: the client is what the header says first.                          *)
resolveLeftmost(peer, hops) ==
    IF trustedProxy(peer) /\ hops # <<>> /\ hops[1] # Junk THEN hops[1]
    ELSE peer

(* Right to left past our own proxies: the first hop that is not one is    *)
(* the client, unless it cannot be parsed.                                 *)
Resolve(peer, hops) ==
    LET foreign == {i \in DOMAIN hops : hops[i] = Junk \/ ~trustedProxy(hops[i])}
        first == Max(foreign)
    IN  IF ~trustedProxy(peer) \/ hops = <<>> THEN peer
        ELSE IF foreign = {} THEN hops[1]
        ELSE IF hops[first] = Junk THEN peer
        ELSE hops[first]

(* What a sender may write into X-Forwarded-For by itself.                 *)
Forgeries ==
    {<<>>, <<Junk>>} \cup {<<a>> : a \in UNION {Addresses(h) : h \in Hosts}}

(* A proxy appends the peer it saw.                                        *)
Forwarded(hops, peer) == Append(hops, peer)

(* How a request of host h reaches the server.  A client's comes straight, *)
(* or through one or two of our proxies.  One of a proxy's own names the   *)
(* proxy, nobody, or nothing at all.                                       *)
Arrivals(h) ==
    IF h \in Trusted
    THEN {[peer |-> <<p, 0>>, hops |-> <<<<h, 0>>>>] : p \in Trusted}
         \cup {[peer |-> <<h, 0>>, hops |-> f] : f \in {<<>>, <<Junk>>}}
    ELSE {[peer |-> a, hops |-> f] : a \in Addresses(h), f \in Forgeries}
         \cup {[peer |-> <<p, 0>>, hops |-> Forwarded(f, a)] :
                 p \in Trusted, a \in Addresses(h), f \in Forgeries}
         \cup {[peer |-> <<p, 0>>, hops |-> Forwarded(Forwarded(f, a), <<q, 0>>)] :
                 p \in Trusted, q \in Trusted, a \in Addresses(h), f \in Forgeries}

(* The one key the webhook limiter holds, the fingerprint of a valid       *)
(* credential, or the client: the identity each limiter counts.  Nothing   *)
(* is counted for a credential that is not configured.                     *)
Fingerprint(credential) == IF credential \in ApiKeys THEN <<credential>> ELSE NoKey

ClientRequests ==
    UNION {{[owner |-> ClientBucket(CHOOSE a \in Addresses(h) : TRUE),
             key |-> ClientBucket(Resolve(r.peer, r.hops))] : r \in Arrivals(h)} :
             h \in Hosts}

Requests ==
    CASE kind \in {"client", "health"} -> ClientRequests
      [] kind = "credential" ->
            {[owner |-> <<k>>, key |-> Fingerprint(k)] : k \in ApiKeys \cup {"invented"}}
      [] kind = "webhook" -> {[owner |-> <<"webhook">>, key |-> <<"webhook">>]}

Keys ==
    CASE kind \in {"client", "health"} ->
            {ClientBucket(a) : a \in UNION {Addresses(h) : h \in Hosts}}
      [] kind = "credential" -> {<<k>> : k \in ApiKeys}
      [] kind = "webhook" -> {<<"webhook">>}

-----------------------------------------------------------------------------
(* The bucket.                                                             *)

Policy == cfg.limits[kind]
Capacity == IF kind = "webhook" THEN 1 ELSE cfg.capacities[kind]
TokenInterval == Policy.interval \div Policy.burst
Full == Policy.burst * TokenInterval
MaxAge == Full + cfg.ttl + MaxSkew

Validate(p) == p.burst >= 1 /\ p.interval > 0 /\ p.interval \div p.burst > 0

Smaller(a, b) == IF a < b THEN a ELSE b

(* Retry-After is told in whole seconds.                                   *)
roundUpToSecond(w) ==
    IF w <= Second THEN Second ELSE ((w + Second - 1) \div Second) * Second

(* Bug: a reading older than updatedAt takes credit away.                  *)
refillBackwards(c, elapsed) == Smaller(Full, c + elapsed)

(* Time that ran backwards refills nothing.                                *)
Refill(c, elapsed) == Smaller(Full, IF elapsed > 0 THEN c + elapsed ELSE c)

-----------------------------------------------------------------------------
(* The limiter.                                                            *)

NoCall == [key |-> NoKey, owner |-> NoKey, stale |-> 0]
NoPromise == MaxAge + Second

Held == {lru[i] : i \in DOMAIN lru}

Init ==
    /\ kind \in Kinds
    /\ cfg \in {c \in Settings : LimitsAccepted(c)}
    /\ Validate(Policy) /\ Capacity >= 1 /\ cfg.ttl >= 0
    /\ lru = <<>>
    /\ credit = [k \in Keys |-> 0]
    /\ age = [k \in Keys |-> 0]
    /\ wait = [c \in Callers |-> NoCall]
    /\ owed = [k \in Keys |-> Full]
    /\ dated = [k \in Keys |-> Full]
    /\ promise = [k \in Keys |-> NoPromise]

(* A request that is counted reads the clock and goes for the mutex.       *)
Arrive(c, r) ==
    /\ wait[c] = NoCall
    /\ r.key # NoKey
    /\ wait' = [wait EXCEPT ![c] = [key |-> r.key, owner |-> r.owner, stale |-> 0]]
    /\ UNCHANGED <<kind, cfg, lru, credit, age, owed, dated, promise>>

(* expire at reading clock - stale: the idle buckets at the back go, up to *)
(* the first one that is young enough.                                     *)
Unexpired(stale) ==
    IF cfg.ttl = 0 THEN lru
    ELSE SubSeq(lru, 1, Max({0} \cup {i \in DOMAIN lru : age[lru[i]] - stale < cfg.ttl}))

(* Bug: a bucket that is used keeps its place.                             *)
touchInPlace(held, k) ==
    IF k \in Range(held) THEN held
    ELSE <<k>> \o SubSeq(held, 1, Smaller(Len(held), Capacity - 1))

(* MoveToFront, or evictIfFull and PushFront.                              *)
Touch(held, k) ==
    IF k \in Range(held)
    THEN <<k>> \o RemoveAt(held, CHOOSE i \in DOMAIN held : held[i] = k)
    ELSE <<k>> \o SubSeq(held, 1, Smaller(Len(held), Capacity - 1))

(* What one token or a refusal leaves.                                     *)
Spend(filled) == IF filled >= TokenInterval THEN filled - TokenInterval ELSE filled

(* Allow under the mutex: expire, find or create the bucket, take.         *)
Allow(c) ==
    LET call == wait[c]
        k == call.key
        o == call.owner
        kept == Unexpired(call.stale)
        order == Touch(kept, k)
        evicted == Range(kept) \ Range(order)
        filled == IF k \in Range(kept)
                  THEN Refill(credit[k], age[k] - call.stale) ELSE Full
        granted == filled >= TokenInterval
        retryAt == roundUpToSecond(TokenInterval - filled) - call.stale
    IN
    /\ call # NoCall
    /\ wait' = [wait EXCEPT ![c] = NoCall]
    /\ lru' = order
    /\ credit' = [x \in Keys |-> IF x = k THEN Spend(filled)
                                 ELSE IF x \in Range(order) THEN credit[x] ELSE 0]
    /\ age' = [x \in Keys |-> IF x = k THEN call.stale
                              ELSE IF x \in Range(order) THEN age[x] ELSE 0]
    /\ owed' = [x \in Keys |->
                  IF x \in evicted THEN Full
                  ELSE IF x # o THEN owed[x]
                  ELSE IF ~granted THEN owed[x]
                  ELSE owed[x] - Smaller(owed[x], TokenInterval)]
    /\ dated' = [x \in Keys |->
                  IF x \in evicted THEN Full
                  ELSE IF x # o THEN dated[x]
                  ELSE IF ~granted THEN Smaller(Full, dated[x] + call.stale)
                  ELSE IF dated[x] < TokenInterval THEN dated[x] - TokenInterval
                  ELSE Smaller(Full, dated[x] - TokenInterval + call.stale)]
    /\ promise' = [promise EXCEPT ![k] =
                     IF granted THEN NoPromise ELSE Smaller(promise[k], retryAt)]
    /\ UNCHANGED <<kind, cfg>>

(* A tick passes; no caller waits for the mutex longer than MaxSkew.       *)
Tick ==
    /\ \A c \in Callers : wait[c] # NoCall => wait[c].stale < MaxSkew
    /\ wait' = [c \in Callers |->
                  IF wait[c] = NoCall THEN NoCall
                  ELSE [wait[c] EXCEPT !.stale = @ + 1]]
    /\ age' = [k \in Keys |-> IF k \in Held THEN Smaller(MaxAge, age[k] + 1) ELSE 0]
    /\ owed' = [k \in Keys |-> Smaller(Full, owed[k] + 1)]
    /\ dated' = [k \in Keys |-> Smaller(Full, dated[k] + 1)]
    /\ promise' = [k \in Keys |->
                     IF promise[k] = NoPromise THEN NoPromise
                     ELSE IF promise[k] <= -MaxSkew THEN promise[k] ELSE promise[k] - 1]
    /\ UNCHANGED <<kind, cfg, lru, credit>>

Next ==
    \/ \E c \in Callers : \E r \in Requests : Arrive(c, r)
    \/ \E c \in Callers : Allow(c)
    \/ Tick

Spec == Init /\ [][Next]_vars

-----------------------------------------------------------------------------
(* Properties.                                                             *)

(* "The sustained rate is Burst per Interval" for every client, whatever   *)
(* it writes into its headers and however its requests race: no token is   *)
(* granted beyond what the time that passed is worth, the time its         *)
(* requests waited for the mutex counted once more (a reading that comes   *)
(* late moves updatedAt back).  Reclaiming idle buckets changes nothing;   *)
(* one evicted at capacity starts afresh.                                  *)
RateUpheld == \A k \in Keys : dated[k] >= 0

(* "It never denies a caller that should have been allowed": the limiter's *)
(* book never holds less than the caller is owed, so neither a clock read  *)
(* before somebody else's lock nor another client's requests cost it       *)
(* credit.                                                                 *)
NeverDeniesWrongly ==
    \A k \in Held : Smaller(Full, credit[k] + age[k]) >= owed[k]

(* "A client hammering a spent bucket does not push its own Retry-After":  *)
(* a request that comes at or after the announced instant, with nothing    *)
(* granted to that key in between, is admitted.                            *)
RetryIsAdmitted ==
    [][\A c \in Callers :
          LET k == wait[c].key IN
          (wait[c] # NoCall /\ wait'[c] = NoCall /\ promise[k] + wait[c].stale <= 0)
             => promise'[k] = NoPromise]_vars

(* "A bucket nobody has touched for a while is reclaimed": no call leaves  *)
(* a bucket idle for the TTL and the longest wait for the mutex.  The wait *)
(* matters, because uses are not ordered by their clock readings.          *)
IdleReclaimed ==
    [][\A c \in Callers :
          (cfg.ttl > 0 /\ wait[c] # NoCall /\ wait'[c] = NoCall)
             => \A i \in DOMAIN lru' :
                   age'[lru'[i]] - wait[c].stale < cfg.ttl + MaxSkew]_vars
=============================================================================
