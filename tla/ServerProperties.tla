--------------------------- MODULE ServerProperties ---------------------------
(***************************************************************************)
(* What clients and operators may rely on while requests come in, limiters *)
(* are evicted and the process is told to stop.                            *)
(***************************************************************************)
EXTENDS Server

\* Every variable has its type.
LimitTypes ==
  /\ now \in Nat
  /\ table \in [Accounts -> Limited \cup {NoBucket}]
  /\ seen \in [Accounts -> Nat]
  /\ bucket \in [Requests -> Limited \cup {NoBucket}]
  /\ level \in [Requests -> Nat]
  /\ asof \in [Requests -> Nat]
  /\ when \in [Requests -> Nat]
  /\ verdict \in [Requests -> {"none", "pass", "reject"}]
  /\ slow \in SUBSET Requests

RequestTypes ==
  /\ phase \in [Requests -> {"unsent", "connected", "limiting", "fetched", "handling",
                             "ended", "cut"}]
  /\ slots \in Nat

LifeTypes ==
  /\ ctx \in {"live", "cancelled"}
  /\ listener \in {"starting", "open", "closed", "failed"}
  /\ drainer \in {"waiting", "draining", "done"}
  /\ expired \in BOOLEAN
  /\ main \in {"serving", "exiting", "returned"}
  /\ outcome \in {"none", "nil", "error"}

TypeOK == LimitTypes /\ RequestTypes /\ LifeTypes

-----------------------------------------------------------------------------
\* The semaphore.

InFlight == {r \in Requests : phase[r] \in Inside}

\* However requests end, no more of them are in flight than the operator allows.
InFlightBounded == MaxConcurrent > 0 => Cardinality(InFlight) <= MaxConcurrent

\* A server that is doing nothing takes every request: no slot is lost for good
\* by a handler that panics or a request that a limiter rejects.
IdleServerHasRoom == main # "returned" /\ InFlight = {} => slots = 0

-----------------------------------------------------------------------------
\* The rate limits.

Passed(a, from) ==
  {r \in Limited : Account(r) = a /\ verdict[r] = "pass" /\ when[r] >= from}

\* In whatever time, a client passes no more requests than its burst and what
\* the rate adds in that time, although its bucket is evicted and made anew, and
\* although slow requests still hold, and spend from, the one that was evicted:
\* each of those passes at most itself.  As long as IdleIsLong.
RateIsKept ==
  \A a \in Accounts : \A from \in 0 .. now :
    Cardinality(Passed(a, from) \ slow) * Price(a) <= Full(a) + (now - from)

\* A client that waits as long as Retry-After says and has sent nothing else
\* through in between is not rejected again.
AdviceSuffices ==
  \A r, s \in Limited :
    /\ Account(r) = Account(s) /\ verdict[r] = "reject" /\ verdict[s] = "reject"
    /\ when[s] >= when[r] + RetryAfter(r) * Second
    => \E q \in Passed(Account(r), when[r]) : when[q] <= when[s]

\* What is left of an account's credit: eviction must not show.
Credit(a) ==
  IF table[a] = NoBucket THEN Full(a)
  ELSE Refilled(level[table[a]], asof[table[a]], Full(a))

Ideal == INSTANCE TokenBucket WITH
  Requests <- Limited, AccountOf <- AccountOf,
  Most <- [a \in Accounts |-> Full(a)], Cost <- [a \in Accounts |-> Price(a)],
  credit <- [a \in Accounts |-> Credit(a)],
  verdict <- [r \in Limited |-> verdict[r]]

\* As long as no request has been slow, and if IdleIsLong, buckets that are made
\* when needed, shared, and evicted by a cutoff that may be old behave like one
\* bucket per client that lasts for ever.
ImplementsTokenBucket == Ideal!Init /\ [][slow' = {} => Ideal!Next]_(Ideal!vars)

-----------------------------------------------------------------------------
\* The end of the process.

\* When Server returns nil it was told to stop, and it cuts off a request only
\* if the shutdown's deadline has passed.
OrderlyExit ==
  outcome = "nil" => ctx = "cancelled" /\ \A r \in Requests : phase[r] = "cut" => expired

\* Once it is told to stop, or its listener has failed, Server returns, even if
\* handlers do not.
ServerReturns == ctx = "cancelled" \/ listener = "failed" ~> main = "returned"
=============================================================================
