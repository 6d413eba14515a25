------------------------------ MODULE RateLimit -------------------------------
(***************************************************************************)
(* RateLimitMiddleware: one token bucket per client and limiter, made when *)
(* it is first needed and evicted when it has not been used for long.      *)
(*                                                                         *)
(* A request fetches its bucket under the mutex and spends a token later,  *)
(* without it, so that a bucket may be in use after its eviction, however  *)
(* much later that is.  Time goes in ticks; a bucket gains one unit per    *)
(* tick and a token is Period units, so that any rational rate is a choice *)
(* of the tick.  A bucket is known by the request it was made for.         *)
(***************************************************************************)
EXTENDS Integers, FiniteSets

CONSTANTS
  Requests,  \* what clients send
  Sent,      \* the route, token and address of each request
  Limiters,  \* "default" and "download"
  Burst,     \* tokens in a full bucket, for each limiter
  Period,    \* ticks until a bucket gains a token, for each limiter; 0 if it gains none
  MaxIdle,   \* API.RateLimit.MaxIdlePeriod
  MaxPause,  \* a request is slow that rests longer between getLimiter and Allow
  Second,    \* ticks per second
  Horizon,   \* the last tick
  NoToken,
  NoBucket

Routes == {"version", "events", "download", "event", "attributes", "config", "metrics"}

\* AddTo: which limiter wraps a route.
Limiter(route) ==
  CASE route \in {"events", "event", "attributes"} -> "default"
    [] route = "download" -> "download"
    [] route \in {"version", "config", "metrics"} -> "none"

\* A limiter without rate or burst is nil and wraps nothing.
Enabled == {l \in Limiters : Burst[l] > 0 /\ Period[l] > 0}

Limited == {r \in Requests : Limiter(Sent[r].route) \in Enabled}

Key(sent) == IF sent.token # NoToken THEN sent.token ELSE sent.address

Account(r) == <<Limiter(Sent[r].route), Key(Sent[r])>>

AccountOf == [r \in Limited |-> Account(r)]
Accounts == {Account(r) : r \in Limited}

Full(a) == Burst[a[1]] * Period[a[1]]
Price(a) == Period[a[1]]

ASSUME RequestAssumption ==
  /\ IsFiniteSet(Requests)
  /\ Sent \in [Requests -> [route : Routes, token : STRING, address : STRING]]
  /\ NoToken \in STRING
  /\ NoBucket \notin Requests

ASSUME RateAssumption ==
  /\ Limiters = {"default", "download"}
  /\ Burst \in [Limiters -> Nat]
  /\ Period \in [Limiters -> Nat]
  /\ {MaxIdle, MaxPause, Horizon} \subseteq Nat
  /\ Second \in Nat \ {0}

\* An idle bucket is full again before it is evicted, even if the last request
\* that is not slow used it as late as it can.  The code leaves this to the
\* operator, so it is no assumption here but a premise of what depends on it.
IdleIsLong == \A l \in Enabled : MaxPause + Burst[l] * Period[l] <= MaxIdle

VARIABLES
  now,
  table,   \* limiters: the bucket of each account
  seen,    \* lastSeen of each account
  bucket,  \* the bucket each request has fetched
  level,   \* the units in each bucket ...
  asof,    \* ... at this time
  when,    \* the time of each request's last step here
  verdict, \* whether Allow let it pass
  slow     \* the requests that have rested longer than MaxPause; only properties read it

limits == <<now, table, seen, bucket, level, asof, when, verdict, slow>>

LimitInit ==
  /\ now = 0
  /\ table = [a \in Accounts |-> NoBucket]
  /\ seen = [a \in Accounts |-> 0]
  /\ bucket = [r \in Requests |-> NoBucket]
  /\ level = [r \in Requests |-> 0]
  /\ asof = [r \in Requests |-> 0]
  /\ when = [r \in Requests |-> 0]
  /\ verdict = [r \in Requests |-> "none"]
  /\ slow = {}

\* What a bucket with that much at that time has gained until now.
Refilled(amount, since, full) ==
  IF amount + (now - since) < full THEN amount + (now - since) ELSE full

-----------------------------------------------------------------------------

\* lastSeen set only when the limiter is made.
SeenOnce(r) ==
  LET a == Account(r) IN IF table[a] = NoBucket THEN now ELSE seen[a]

LastSeen(r) == now

\* A request that has fetched its bucket and not yet asked it.
Waiting(r) == bucket[r] # NoBucket /\ verdict[r] = "none"

\* getLimiter.
GetLimiter(r) ==
  LET a == Account(r) IN
  /\ IF table[a] = NoBucket
     THEN /\ bucket' = [bucket EXCEPT ![r] = r]
          /\ table' = [table EXCEPT ![a] = r]
          /\ level' = [level EXCEPT ![r] = Full(a)]
          /\ asof' = [asof EXCEPT ![r] = now]
     ELSE /\ bucket' = [bucket EXCEPT ![r] = table[a]]
          /\ UNCHANGED <<table, level, asof>>
  /\ seen' = [seen EXCEPT ![a] = LastSeen(r)]
  /\ when' = [when EXCEPT ![r] = now]
  /\ UNCHANGED <<now, verdict, slow>>

\* A bucket that pays with units it does not have.
AnyUnit(available, price) == available > 0

Affordable(available, price) == available >= price

\* Allow, on the bucket that was fetched.
Allow(r) ==
  LET a == Account(r)
      b == bucket[r]
      available == Refilled(level[b], asof[b], Full(a))
  IN
  /\ \/ /\ Affordable(available, Price(a))
        /\ level' = [level EXCEPT ![b] = available - Price(a)]
        /\ asof' = [asof EXCEPT ![b] = now]
        /\ verdict' = [verdict EXCEPT ![r] = "pass"]
     \/ /\ ~Affordable(available, Price(a))
        /\ verdict' = [verdict EXCEPT ![r] = "reject"]
        /\ UNCHANGED <<level, asof>>
  /\ when' = [when EXCEPT ![r] = now]
  /\ UNCHANGED <<now, table, seen, bucket, slow>>

\* The advice without the second that makes up for rounding down.
RoundedAdvice(r) == Period[Limiter(Sent[r].route)] \div Second

\* Retry-After of a rejected request, in seconds.
RetryAfter(r) == Period[Limiter(Sent[r].route)] \div Second + 1

\* A bucket that was used in the meantime is no less stale.
StaleOrNot(a, started) == TRUE

Stale(a, started) == seen[a] + MaxIdle < started

\* evictStale of one limiter.  The cutoff is taken before the mutex.
EvictStale(l) ==
  \E started \in 0 .. now :
    LET evicted == {a \in Accounts : a[1] = l /\ table[a] # NoBucket /\ Stale(a, started)} IN
    /\ evicted # {}
    /\ table' = [a \in Accounts |-> IF a \in evicted THEN NoBucket ELSE table[a]]
    /\ seen' = [a \in Accounts |-> IF a \in evicted THEN 0 ELSE seen[a]]
    /\ UNCHANGED <<now, bucket, level, asof, when, verdict, slow>>

Tick ==
  /\ now < Horizon
  /\ now' = now + 1
  /\ slow' = slow \cup {r \in Requests : Waiting(r) /\ now' > when[r] + MaxPause}
  /\ UNCHANGED <<table, seen, bucket, level, asof, when, verdict>>
=============================================================================
