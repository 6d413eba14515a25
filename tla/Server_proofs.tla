---------------------------- MODULE Server_proofs -----------------------------
(***************************************************************************)
(* Theorems on the server: types, the semaphore, the exit of the process,  *)
(* and that the rate limit implements one bucket per client.               *)
(***************************************************************************)
EXTENDS ServerProperties, FiniteSetTheorems, TLAPS

-----------------------------------------------------------------------------
\* Accounts and their buckets.

LEMMA AccountFacts ==
  ASSUME NEW r \in Limited
  PROVE  /\ r \in Requests
         /\ Account(r) \in Accounts
         /\ Account(r)[1] \in Enabled
BY DEF Limited, Account, Accounts

LEMMA AccountLimiter ==
  ASSUME NEW a \in Accounts
  PROVE  a[1] \in Enabled
BY DEF Accounts, Account, Limited

\* A full bucket is worth at least one token, and one token something.
LEMMA BucketSizes ==
  ASSUME NEW a \in Accounts
  PROVE  /\ Full(a) \in Nat /\ Price(a) \in Nat
         /\ Price(a) > 0 /\ Price(a) <= Full(a)
<1>1. a[1] \in Limiters /\ Burst[a[1]] > 0 /\ Period[a[1]] > 0
  BY AccountLimiter DEF Enabled
<1>2. Burst[a[1]] \in Nat /\ Period[a[1]] \in Nat
  BY <1>1, RateAssumption
<1>3. \A x, y \in Nat : x > 0 /\ y > 0 => x * y \in Nat /\ y <= x * y
  OBVIOUS
<1> QED
  BY <1>1, <1>2, <1>3 DEF Full, Price

LEMMA LongIdle ==
  ASSUME IdleIsLong, NEW a \in Accounts
  PROVE  MaxPause + Full(a) <= MaxIdle
BY AccountLimiter DEF IdleIsLong, Full

LEMMA MaxTypes == MaxIdle \in Nat /\ MaxPause \in Nat /\ Horizon \in Nat
BY RateAssumption

-----------------------------------------------------------------------------
\* Type correctness.  Only requests with a limit get to the limiter.

LimitedOnly ==
  \A r \in Requests : phase[r] \in {"limiting", "fetched"} => r \in Limited

TypeInv == TypeOK /\ LimitedOnly

LEMMA InitTypes == Init => TypeInv
<1> SUFFICES ASSUME Init PROVE TypeInv
  OBVIOUS
<1>1. LimitTypes
  BY DEF Init, LimitInit, LimitTypes
<1>2. RequestTypes /\ LimitedOnly
  BY DEF Init, RequestTypes, LimitedOnly
<1>3. LifeTypes
  BY DEF Init, LifeTypes
<1> QED
  BY <1>1, <1>2, <1>3 DEF TypeInv, TypeOK

LEMMA GetLimiterTypes ==
  ASSUME LimitTypes, NEW r \in Limited, GetLimiter(r)
  PROVE  LimitTypes'
<1>1. Account(r) \in Accounts /\ Full(Account(r)) \in Nat /\ r \in Requests
  BY AccountFacts, BucketSizes
<1>2. table[Account(r)] \in Limited \cup {NoBucket}
  BY <1>1 DEF LimitTypes
<1>3. /\ now' \in Nat /\ verdict' \in [Requests -> {"none", "pass", "reject"}]
      /\ slow' \in SUBSET Requests
  BY DEF GetLimiter, LimitTypes
<1>4. seen' \in [Accounts -> Nat] /\ when' \in [Requests -> Nat]
  BY <1>1 DEF GetLimiter, LimitTypes, LastSeen
<1>5. bucket' \in [Requests -> Limited \cup {NoBucket}]
  BY <1>1, <1>2 DEF GetLimiter, LimitTypes
<1>6. table' \in [Accounts -> Limited \cup {NoBucket}]
  BY <1>1 DEF GetLimiter, LimitTypes
<1>7. level' \in [Requests -> Nat] /\ asof' \in [Requests -> Nat]
  BY <1>1 DEF GetLimiter, LimitTypes
<1> QED
  BY <1>3, <1>4, <1>5, <1>6, <1>7 DEF LimitTypes

LEMMA RefilledType ==
  ASSUME now \in Nat, NEW amount \in Nat, NEW since \in Nat, NEW full \in Nat
  PROVE  /\ Refilled(amount, since, full) \in Int
         /\ Refilled(amount, since, full) <= full
BY DEF Refilled

LEMMA AllowTypes ==
  ASSUME LimitTypes, NEW r \in Limited, Allow(r), bucket[r] \in Requests
  PROVE  LimitTypes'
<1> DEFINE a == Account(r)
           available == Refilled(level[bucket[r]], asof[bucket[r]], Full(a))
<1>1. a \in Accounts /\ Full(a) \in Nat /\ Price(a) \in Nat /\ r \in Requests
  BY AccountFacts, BucketSizes
<1>2. available \in Int
  BY <1>1, RefilledType DEF LimitTypes
<1>3. /\ now' \in Nat
      /\ table' \in [Accounts -> Limited \cup {NoBucket}]
      /\ seen' \in [Accounts -> Nat]
      /\ bucket' \in [Requests -> Limited \cup {NoBucket}]
      /\ when' \in [Requests -> Nat]
      /\ slow' \in SUBSET Requests
  BY DEF Allow, LimitTypes
<1>4. level' \in [Requests -> Nat]
  BY <1>1, <1>2 DEF Allow, LimitTypes, Affordable
<1>5. asof' \in [Requests -> Nat] /\ verdict' \in [Requests -> {"none", "pass", "reject"}]
  BY DEF Allow, LimitTypes
<1> QED
  BY <1>3, <1>4, <1>5 DEF LimitTypes

-----------------------------------------------------------------------------
\* The inductive invariant of the requests and of the process.

\* A request that has fetched a bucket has one, and has not asked it.
FetchedInv ==
  \A r \in Requests : phase[r] = "fetched" => bucket[r] \in Limited /\ verdict[r] = "none"

\* One that has not got there has no bucket yet.
FreshInv ==
  \A r \in Requests :
    phase[r] \in {"unsent", "connected", "limiting"} => bucket[r] = NoBucket /\ verdict[r] = "none"

\* The semaphore counts the requests in flight, until the process ends.
SlotInv ==
  /\ MaxConcurrent = 0 => slots = 0
  /\ MaxConcurrent > 0 /\ main # "returned" => slots = Cardinality(InFlight)
  /\ MaxConcurrent > 0 => slots <= MaxConcurrent

\* The listener is closed by a shutdown only, and nothing connects after it.
ListenerInv ==
  /\ listener = "starting" => main = "serving" /\ \A r \in Requests : phase[r] = "unsent"
  /\ listener = "open" => main = "serving" /\ drainer = "waiting"
  /\ listener = "closed" => drainer # "waiting" /\ ctx = "cancelled"
  /\ drainer # "waiting" /\ main = "serving" => ctx = "cancelled"

\* The shutdown ends when nothing is active or its deadline has passed.
DrainInv ==
  /\ drainer = "done" /\ listener # "failed" => expired \/ Active = {}
  /\ main = "returned" => Active = {} /\ drainer = "done"

\* Requests are cut off by the end of the process only.
CutInv ==
  /\ \A r \in Requests : phase[r] = "cut" => main = "returned"
  /\ outcome = "nil" => main = "returned" /\ listener = "closed"
  /\ outcome = "nil" => \A r \in Requests : phase[r] = "cut" => expired

Inv == TypeInv /\ FetchedInv /\ FreshInv /\ SlotInv /\ ListenerInv /\ DrainInv /\ CutInv

LEMMA InFlightFinite == IsFiniteSet(InFlight) /\ Cardinality(InFlight) \in Nat
<1>1. InFlight \subseteq Requests
  BY DEF InFlight
<1> QED
  BY <1>1, RequestAssumption, FS_Subset, FS_CardinalityType

LEMMA InitInv == Init => Inv
<1> SUFFICES ASSUME Init PROVE Inv
  OBVIOUS
<1>1. InFlight = {} /\ Cardinality(InFlight) = 0
  BY FS_EmptySet DEF Init, InFlight, Inside
<1>2. SlotInv
  BY <1>1, CapacityAssumption DEF Init, SlotInv
<1>3. FetchedInv /\ FreshInv /\ ListenerInv /\ DrainInv /\ CutInv
  BY DEF Init, LimitInit, FetchedInv, FreshInv, ListenerInv, DrainInv, CutInv
<1> QED
  BY <1>2, <1>3, InitTypes DEF Inv

\* One request moves.
Moves(r, to) == phase' = [phase EXCEPT ![r] = to]

LEMMA InFlightMoves ==
  ASSUME RequestTypes, NEW r \in Requests, NEW to, Moves(r, to)
  PROVE  /\ to \in Inside => InFlight' = InFlight \cup {r}
         /\ to \notin Inside => InFlight' = InFlight \ {r}
BY DEF RequestTypes, Moves, InFlight

\* The three ways in which a request changes the number of slots.
LEMMA SlotsKept ==
  ASSUME Inv, NEW r \in Requests, NEW to, Moves(r, to),
         phase[r] \in Inside <=> to \in Inside, slots' = slots, main' = main
  PROVE  SlotInv' /\ slots' \in Nat
<1>1. InFlight' = InFlight
  BY InFlightMoves DEF Inv, TypeInv, TypeOK, InFlight
<1> QED
  BY <1>1 DEF Inv, SlotInv, TypeInv, TypeOK, RequestTypes

LEMMA SlotsTaken ==
  ASSUME Inv, NEW r \in Requests, NEW to \in Inside, Moves(r, to),
         phase[r] \notin Inside, ~AtCapacity, Acquire, main' = main, main # "returned"
  PROVE  SlotInv' /\ slots' \in Nat
<1>1. InFlight' = InFlight \cup {r} /\ r \notin InFlight
  BY InFlightMoves DEF Inv, TypeInv, TypeOK, InFlight
<1>2. Cardinality(InFlight') = Cardinality(InFlight) + 1
  BY <1>1, InFlightFinite, FS_AddElement
<1> QED
  BY <1>2, InFlightFinite, CapacityAssumption
  DEF Inv, SlotInv, TypeInv, TypeOK, RequestTypes, AtCapacity, Acquire

LEMMA SlotsGiven ==
  ASSUME Inv, NEW r \in Requests, NEW to, to \notin Inside, Moves(r, to), NEW how,
         phase[r] \in Inside, Release(how), main' = main, main # "returned"
  PROVE  SlotInv' /\ slots' \in Nat
<1>1. InFlight' = InFlight \ {r} /\ r \in InFlight
  BY InFlightMoves DEF Inv, TypeInv, TypeOK, InFlight
<1>2. Cardinality(InFlight') = Cardinality(InFlight) - 1
  BY <1>1, InFlightFinite, FS_RemoveElement
<1>3. Cardinality(InFlight) # 0
  BY <1>1, InFlightFinite, FS_EmptySet
<1> QED
  BY <1>2, <1>3, InFlightFinite, CapacityAssumption
  DEF Inv, SlotInv, TypeInv, TypeOK, RequestTypes, Release

\* What does not concern the slots when a request that is active moves on.
LEMMA ActiveMoves ==
  ASSUME Inv, NEW r \in Active, NEW to \in Inside \cup {"ended"}, Moves(r, to), UNCHANGED life
  PROVE  ListenerInv' /\ DrainInv' /\ CutInv' /\ LifeTypes' /\ main # "returned"
<1>1. r \in Requests /\ phase[r] \in Inside \cup {"connected"}
  BY DEF Active
<1>2. Active' \subseteq Active
  BY <1>1 DEF Active, Moves, Inv, TypeInv, TypeOK, RequestTypes, Inside
<1>3. main # "returned" /\ listener # "starting"
  BY <1>1 DEF Inv, DrainInv, ListenerInv, Inside
<1>4. ListenerInv' /\ LifeTypes'
  BY <1>3 DEF Inv, ListenerInv, TypeInv, TypeOK, LifeTypes, life
<1>5. DrainInv'
  BY <1>2, <1>3 DEF Inv, DrainInv, life
<1>6. CutInv'
  BY <1>1, <1>3 DEF Inv, CutInv, life, Moves, Inside, TypeInv, TypeOK, RequestTypes
<1> QED
  BY <1>3, <1>4, <1>5, <1>6

LEMMA MovedTypes ==
  ASSUME Inv, NEW r \in Requests, NEW to \in Inside \cup {"connected", "ended"}, Moves(r, to),
         to \in {"limiting", "fetched"} => r \in Limited
  PROVE  /\ phase' \in [Requests -> {"unsent", "connected", "limiting", "fetched", "handling",
                                    "ended", "cut"}]
         /\ LimitedOnly'
BY DEF Inv, TypeInv, TypeOK, RequestTypes, LimitedOnly, Moves, Inside

LEMMA ConnectInv ==
  ASSUME Inv, NEW r \in Requests, Connect(r)
  PROVE  Inv'
<1>1. Moves(r, "connected") /\ UNCHANGED <<limits, slots, life>>
  BY DEF Connect, Moves
<1>2. phase[r] = "unsent" /\ listener = "open" /\ main = "serving" /\ drainer = "waiting"
  BY DEF Connect, Inv, ListenerInv
<1>3. SlotInv' /\ slots' \in Nat
  BY <1>1, <1>2, SlotsKept DEF Inside, life
<1>4. TypeInv'
  BY <1>1, <1>3, MovedTypes DEF Inv, TypeInv, TypeOK, LimitTypes, RequestTypes, LifeTypes,
     limits, life, Inside
<1>5. FetchedInv' /\ FreshInv'
  BY <1>1, <1>2 DEF Inv, FetchedInv, FreshInv, TypeInv, TypeOK, RequestTypes, limits, Moves
<1>6. ListenerInv' /\ DrainInv'
  BY <1>1, <1>2 DEF Inv, ListenerInv, DrainInv, life
<1>7. CutInv'
  BY <1>1, <1>2 DEF Inv, CutInv, life, Moves, TypeInv, TypeOK, RequestTypes
<1> QED
  BY <1>3, <1>4, <1>5, <1>6, <1>7 DEF Inv

\* Drop, Admit and Finish leave the limiter alone.
LEMMA PlainMoveInv ==
  ASSUME Inv, NEW r \in Active, NEW to \in {"limiting", "handling", "ended"}, Moves(r, to),
         to = "limiting" => r \in Limited /\ phase[r] = "connected", UNCHANGED <<limits, life>>,
         SlotInv', slots' \in Nat
  PROVE  Inv'
<1>1. r \in Requests /\ to \in Inside \cup {"connected", "ended"}
  BY DEF Active, Inside
<1>2. ListenerInv' /\ DrainInv' /\ CutInv' /\ LifeTypes'
  BY <1>1, ActiveMoves DEF Inside
<1>3. TypeInv'
  BY <1>1, <1>2, MovedTypes DEF Inv, TypeInv, TypeOK, LimitTypes, RequestTypes, limits
<1>4. FetchedInv' /\ FreshInv'
  BY <1>1 DEF Inv, FetchedInv, FreshInv, Active, Inside, TypeInv, TypeOK, RequestTypes, limits, Moves
<1> QED
  BY <1>2, <1>3, <1>4 DEF Inv

LEMMA DropInv ==
  ASSUME Inv, NEW r \in Requests, Drop(r)
  PROVE  Inv'
<1>1. Moves(r, "ended") /\ r \in Active /\ phase[r] \notin Inside
      /\ UNCHANGED <<limits, slots, life>>
  BY DEF Drop, Moves, Active, Inside
<1>2. SlotInv' /\ slots' \in Nat
  BY <1>1, SlotsKept DEF Inside, life
<1> QED
  BY <1>1, <1>2, PlainMoveInv

LEMMA AdmitInv ==
  ASSUME Inv, NEW r \in Requests, Admit(r)
  PROVE  Inv'
<1>1. r \in Active /\ phase[r] \notin Inside /\ UNCHANGED <<limits, life>>
  BY DEF Admit, Active, Inside
<1>2. main # "returned"
  BY <1>1 DEF Inv, DrainInv
<1>3. CASE AtCapacity
  <2>1. Moves(r, "ended") /\ slots' = slots
    BY <1>3 DEF Admit, Moves
  <2>2. SlotInv' /\ slots' \in Nat
    BY <1>1, <2>1, SlotsKept DEF Inside, life
  <2> QED
    BY <1>1, <2>1, <2>2, PlainMoveInv
<1>4. CASE ~AtCapacity
  <2> DEFINE to == IF r \in Limited THEN "limiting" ELSE "handling"
  <2>1. Moves(r, to) /\ Acquire /\ to \in Inside
    BY <1>4 DEF Admit, Moves, Inside
  <2>2. SlotInv' /\ slots' \in Nat
    BY <1>1, <1>2, <1>4, <2>1, SlotsTaken DEF life
  <2>3. /\ to \in {"limiting", "handling", "ended"}
        /\ to = "limiting" => r \in Limited /\ phase[r] = "connected"
    BY DEF Admit
  <2> HIDE DEF to
  <2> QED
    BY <1>1, <2>1, <2>2, <2>3, PlainMoveInv
<1> QED
  BY <1>3, <1>4

LEMMA FinishInv ==
  ASSUME Inv, NEW r \in Requests, Finish(r)
  PROVE  Inv'
<1>1. PICK how : Release(how)
  BY DEF Finish
<1>2. Moves(r, "ended") /\ r \in Active /\ phase[r] \in Inside /\ UNCHANGED <<limits, life>>
  BY DEF Finish, Moves, Active, Inside
<1>3. main # "returned"
  BY <1>2 DEF Inv, DrainInv
<1>4. SlotInv' /\ slots' \in Nat
  BY <1>1, <1>2, <1>3, SlotsGiven DEF Inside, life
<1> QED
  BY <1>2, <1>4, PlainMoveInv

LEMMA FetchInv ==
  ASSUME Inv, NEW r \in Requests, Fetch(r)
  PROVE  Inv'
<1>1. /\ Moves(r, "fetched") /\ r \in Active /\ phase[r] \in Inside
      /\ GetLimiter(r) /\ UNCHANGED <<slots, life>>
  BY DEF Fetch, Moves, Active, Inside
<1>2. r \in Limited
  BY DEF Fetch, Inv, TypeInv, LimitedOnly
<1>3. SlotInv' /\ slots' \in Nat
  BY <1>1, SlotsKept DEF Inside, life
<1>4. ListenerInv' /\ DrainInv' /\ CutInv' /\ LifeTypes'
  BY <1>1, ActiveMoves DEF Inside
<1>5. LimitTypes'
  BY <1>1, <1>2, GetLimiterTypes DEF Inv, TypeInv, TypeOK
<1>6. TypeInv'
  BY <1>1, <1>2, <1>3, <1>4, <1>5, MovedTypes DEF Inv, TypeInv, TypeOK, RequestTypes, Inside
<1>7. FetchedInv'
  <2> SUFFICES ASSUME NEW q \in Requests, phase'[q] = "fetched"
               PROVE  bucket'[q] \in Limited /\ verdict'[q] = "none"
    BY DEF FetchedInv
  <2>1. verdict' = verdict
    BY <1>1 DEF GetLimiter
  <2>2. CASE q = r
    <3>1. Account(r) \in Accounts /\ table[Account(r)] \in Limited \cup {NoBucket}
      BY <1>2, AccountFacts DEF Inv, TypeInv, TypeOK, LimitTypes
    <3>2. bucket'[r] \in Limited
      BY <1>1, <1>2, <3>1 DEF GetLimiter, Inv, TypeInv, TypeOK, LimitTypes
    <3> QED
      BY <2>1, <2>2, <3>2, <1>1 DEF Fetch, Inv, FreshInv
  <2>3. CASE q # r
    BY <1>1, <2>1, <2>3 DEF Inv, FetchedInv, GetLimiter, Moves, TypeInv, TypeOK, LimitTypes,
       RequestTypes
  <2> QED
    BY <2>2, <2>3
<1>8. FreshInv'
  BY <1>1 DEF Inv, FreshInv, GetLimiter, Moves, TypeInv, TypeOK, LimitTypes, RequestTypes
<1> QED
  BY <1>3, <1>4, <1>6, <1>7, <1>8 DEF Inv

LEMMA SpendInv ==
  ASSUME Inv, NEW r \in Requests, Spend(r)
  PROVE  Inv'
<1>1. /\ r \in Active /\ phase[r] = "fetched" /\ phase[r] \in Inside
      /\ Allow(r) /\ UNCHANGED life
  BY DEF Spend, Active, Inside
<1>2. r \in Limited /\ bucket[r] \in Requests
  BY <1>1, AccountFacts DEF Inv, TypeInv, LimitedOnly, FetchedInv
<1>3. LimitTypes'
  BY <1>1, <1>2, AllowTypes DEF Inv, TypeInv, TypeOK
<1>4. main # "returned"
  BY <1>1 DEF Inv, DrainInv
<1>5. PICK to \in {"handling", "ended"} :
        /\ Moves(r, to)
        /\ to = "handling" => slots' = slots
        /\ to = "ended" => Release("rejected")
  BY DEF Spend, Moves
<1>6. SlotInv' /\ slots' \in Nat
  <2>1. CASE to = "handling"
    BY <1>1, <1>5, <2>1, SlotsKept DEF Inside, life
  <2>2. CASE to = "ended"
    BY <1>1, <1>4, <1>5, <2>2, SlotsGiven DEF Inside, life
  <2> QED
    BY <2>1, <2>2
<1>7. ListenerInv' /\ DrainInv' /\ CutInv' /\ LifeTypes'
  BY <1>1, <1>5, ActiveMoves DEF Inside
<1>8. TypeInv'
  BY <1>3, <1>5, <1>6, <1>7, MovedTypes DEF Inv, TypeInv, TypeOK, RequestTypes, Inside
<1>9. FetchedInv' /\ FreshInv'
  <2>1. bucket' = bucket /\ \A q \in Requests : q # r => verdict'[q] = verdict[q]
    BY <1>1 DEF Allow, Inv, TypeInv, TypeOK, LimitTypes
  <2>2. \A q \in Requests : q # r => phase'[q] = phase[q]
    BY <1>5 DEF Moves, Inv, TypeInv, TypeOK, RequestTypes
  <2>3. phase'[r] \in {"handling", "ended"}
    BY <1>5 DEF Moves, Inv, TypeInv, TypeOK, RequestTypes
  <2> QED
    BY <2>1, <2>2, <2>3 DEF Inv, FetchedInv, FreshInv
<1> QED
  BY <1>6, <1>7, <1>8, <1>9 DEF Inv

\* Steps of the process leave requests and limiters alone, except for Return.
LEMMA LifeStepInv ==
  ASSUME Inv, UNCHANGED <<limits, requests, expired, outcome>>, LifeTypes',
         main' # "returned" /\ main # "returned"
  PROVE  /\ TypeInv' /\ FetchedInv' /\ FreshInv' /\ SlotInv' /\ CutInv'
         /\ Active' = Active
<1>1. TypeInv' /\ FetchedInv' /\ FreshInv'
  BY DEF Inv, TypeInv, TypeOK, LimitTypes, RequestTypes, LimitedOnly, FetchedInv, FreshInv,
     limits, requests
<1>2. SlotInv'
  BY DEF Inv, SlotInv, InFlight, requests
<1>3. CutInv' /\ Active' = Active
  BY DEF Inv, CutInv, Active, requests
<1> QED
  BY <1>1, <1>2, <1>3

LEMMA ListenInv ==
  ASSUME Inv, Listen
  PROVE  Inv'
<1>1. /\ UNCHANGED <<limits, requests, expired, outcome, main, ctx, drainer>>
      /\ main = "serving" /\ listener = "starting"
      /\ listener' \in {"open", "failed", "closed"}
      /\ listener' # "closed" => drainer = "waiting"
      /\ listener' = "closed" => drainer # "waiting"
  BY DEF Listen, Inv, TypeInv, TypeOK, LifeTypes
<1>2. LifeTypes'
  BY <1>1 DEF Inv, TypeInv, TypeOK, LifeTypes
<1>3. Active = {}
  BY <1>1 DEF Inv, ListenerInv, Active, Inside
<1>4. ListenerInv' /\ DrainInv'
  BY <1>1, <1>2, <1>3, LifeStepInv DEF Inv, ListenerInv, DrainInv
<1> QED
  BY <1>1, <1>2, <1>4, LifeStepInv DEF Inv

LEMMA ListenerFailsInv ==
  ASSUME Inv, ListenerFails
  PROVE  Inv'
<1>1. /\ UNCHANGED <<limits, requests, expired, outcome, main, ctx, drainer>>
      /\ main = "serving" /\ listener = "open" /\ listener' = "failed"
  BY DEF ListenerFails, Inv, ListenerInv
<1>2. LifeTypes'
  BY <1>1 DEF Inv, TypeInv, TypeOK, LifeTypes
<1>3. ListenerInv' /\ DrainInv'
  BY <1>1, <1>2, LifeStepInv DEF Inv, ListenerInv, DrainInv
<1> QED
  BY <1>1, <1>2, <1>3, LifeStepInv DEF Inv

LEMMA StopServingInv ==
  ASSUME Inv, StopServing
  PROVE  Inv'
<1>1. /\ UNCHANGED <<limits, requests, expired, outcome, listener, ctx, drainer>>
      /\ main = "serving" /\ main' = "exiting" /\ listener \in {"closed", "failed"}
  BY DEF StopServing
<1>2. LifeTypes'
  BY <1>1 DEF Inv, TypeInv, TypeOK, LifeTypes
<1>3. ListenerInv' /\ DrainInv'
  BY <1>1, <1>2, LifeStepInv DEF Inv, ListenerInv, DrainInv
<1> QED
  BY <1>1, <1>2, <1>3, LifeStepInv DEF Inv

LEMMA CancelInv ==
  ASSUME Inv, Cancel
  PROVE  Inv'
<1>1. /\ UNCHANGED <<limits, requests, expired, outcome, listener, main, drainer>>
      /\ main # "returned" /\ ctx' = "cancelled"
  BY DEF Cancel
<1>2. LifeTypes'
  BY <1>1 DEF Inv, TypeInv, TypeOK, LifeTypes
<1>3. ListenerInv' /\ DrainInv'
  BY <1>1, <1>2, LifeStepInv DEF Inv, ListenerInv, DrainInv, requests
<1> QED
  BY <1>1, <1>2, <1>3, LifeStepInv DEF Inv

LEMMA BeginShutdownInv ==
  ASSUME Inv, BeginShutdown
  PROVE  Inv'
<1>1. /\ UNCHANGED <<limits, requests, expired, outcome, main, ctx>>
      /\ drainer = "waiting" /\ drainer' \in {"draining", "done"}
  BY DEF BeginShutdown
<1>2. main # "returned"
  BY <1>1 DEF Inv, ListenerInv, DrainInv
<1>3. LifeTypes'
  BY <1>1 DEF BeginShutdown, Inv, TypeInv, TypeOK, LifeTypes
<1>4. ListenerInv' /\ DrainInv'
  <2>1. CASE drainer' = "draining"
    <3>1. ctx = "cancelled" /\ listener' = IF listener = "open" THEN "closed" ELSE listener
      BY <2>1 DEF BeginShutdown
    <3> QED
      BY <1>1, <1>2, <1>3, <2>1, <3>1, LifeStepInv DEF Inv, ListenerInv, DrainInv, requests
  <2>2. CASE drainer' = "done"
    <3>1. main # "serving" /\ listener' = listener
      BY <2>2 DEF BeginShutdown, ServerExited
    <3>2. listener = "failed"
      BY <1>1, <3>1 DEF Inv, ListenerInv, TypeInv, TypeOK, LifeTypes
    <3> QED
      BY <1>1, <1>2, <1>3, <2>2, <3>1, <3>2, LifeStepInv
      DEF Inv, ListenerInv, DrainInv
  <2> QED
    BY <1>1, <2>1, <2>2
<1> QED
  BY <1>1, <1>2, <1>3, <1>4, LifeStepInv DEF Inv

LEMMA EndShutdownInv ==
  ASSUME Inv, EndShutdown
  PROVE  Inv'
<1>1. /\ UNCHANGED <<limits, requests, outcome, main, ctx, listener>>
      /\ drainer = "draining" /\ drainer' = "done"
      /\ (Active = {} /\ expired' = expired) \/ expired' = TRUE
  BY DEF EndShutdown
<1>2. main # "returned"
  BY <1>1 DEF Inv, DrainInv
<1>3. TypeInv' /\ FetchedInv' /\ FreshInv'
  BY <1>1 DEF Inv, TypeInv, TypeOK, LimitTypes, RequestTypes, LifeTypes, LimitedOnly,
     FetchedInv, FreshInv, limits, requests
<1>4. SlotInv' /\ Active' = Active
  BY <1>1 DEF Inv, SlotInv, InFlight, Active, requests
<1>5. ListenerInv'
  BY <1>1 DEF Inv, ListenerInv, requests
<1>6. DrainInv'
  BY <1>1, <1>2, <1>4 DEF DrainInv
<1>7. CutInv'
  BY <1>1, <1>2 DEF Inv, CutInv, requests
<1> QED
  BY <1>3, <1>4, <1>5, <1>6, <1>7 DEF Inv

LEMMA ReturnInv ==
  ASSUME Inv, Return
  PROVE  Inv'
<1>1. /\ UNCHANGED <<limits, slots, ctx, listener, drainer, expired>>
      /\ main = "exiting" /\ main' = "returned" /\ drainer = "done"
      /\ outcome' = IF listener = "closed" THEN "nil" ELSE "error"
  BY DEF Return, ShutdownDone
<1>2. /\ phase' \in [Requests -> {"unsent", "ended", "cut"}]
      /\ \A r \in Requests : phase'[r] = "cut" => phase[r] \in Inside \cup {"cut"}
      /\ \A r \in Requests : phase'[r] = "unsent" => phase[r] = "unsent"
  BY DEF Return, Inv, TypeInv, TypeOK, RequestTypes, Inside
<1>3. TypeInv' /\ FetchedInv'
  BY <1>1, <1>2 DEF Inv, TypeInv, TypeOK, LimitTypes, RequestTypes, LifeTypes, LimitedOnly,
     FetchedInv, limits
<1>4. FreshInv'
  BY <1>1, <1>2 DEF Inv, FreshInv, limits
<1>5. SlotInv'
  BY <1>1 DEF Inv, SlotInv
<1>6. Active' = {}
  BY <1>2 DEF Active, Inside
<1>7. ListenerInv' /\ DrainInv'
  BY <1>1, <1>6 DEF Inv, ListenerInv, DrainInv
<1>8. CutInv'
  <2> SUFFICES ASSUME outcome' = "nil", NEW r \in Requests, phase'[r] = "cut"
               PROVE  expired
    BY <1>1 DEF CutInv
  <2>1. listener = "closed"
    BY <1>1
  <2>2. phase[r] \in Inside
    BY <1>1, <1>2 DEF Inv, CutInv
  <2> QED
    BY <1>1, <2>1, <2>2 DEF Inv, DrainInv, Active
<1> QED
  BY <1>3, <1>4, <1>5, <1>7, <1>8 DEF Inv

\* Eviction and time.
LEMMA BackgroundInv ==
  ASSUME Inv, UNCHANGED <<requests, life, bucket, level, asof, when, verdict>>,
         now' \in Nat, table' \in [Accounts -> Limited \cup {NoBucket}],
         seen' \in [Accounts -> Nat], slow' \in SUBSET Requests
  PROVE  Inv'
<1>1. TypeInv' /\ FetchedInv' /\ FreshInv'
  BY DEF Inv, TypeInv, TypeOK, LimitTypes, RequestTypes, LifeTypes, LimitedOnly, FetchedInv,
     FreshInv, requests, life
<1>2. SlotInv' /\ ListenerInv' /\ DrainInv' /\ CutInv'
  BY DEF Inv, SlotInv, ListenerInv, DrainInv, CutInv, InFlight, Active, requests, life
<1> QED
  BY <1>1, <1>2 DEF Inv

LEMMA EvictInv ==
  ASSUME Inv, NEW l \in Enabled, Evict(l)
  PROVE  Inv'
<1>1. PICK evicted \in SUBSET Accounts :
        /\ table' = [a \in Accounts |-> IF a \in evicted THEN NoBucket ELSE table[a]]
        /\ seen' = [a \in Accounts |-> IF a \in evicted THEN 0 ELSE seen[a]]
  BY DEF Evict, EvictStale
<1>2. UNCHANGED <<requests, life, now, bucket, level, asof, when, verdict, slow>>
  BY DEF Evict, EvictStale
<1> QED
  BY <1>1, <1>2, BackgroundInv DEF Inv, TypeInv, TypeOK, LimitTypes

LEMMA PassInv ==
  ASSUME Inv, Pass
  PROVE  Inv'
BY BackgroundInv DEF Pass, Tick, Inv, TypeInv, TypeOK, LimitTypes

LEMMA NextInv ==
  ASSUME Inv, [Next]_vars
  PROVE  Inv'
<1>1. ASSUME NEW r \in Requests, RequestStep(r) PROVE Inv'
  BY <1>1, ConnectInv, DropInv, AdmitInv, FetchInv, SpendInv, FinishInv DEF RequestStep
<1>2. CASE MainStep
  BY <1>2, ListenInv, StopServingInv, ReturnInv DEF MainStep
<1>3. CASE DrainerStep
  BY <1>3, BeginShutdownInv, EndShutdownInv DEF DrainerStep
<1>4. CASE UNCHANGED vars
  BY <1>4, BackgroundInv DEF vars, limits, Inv, TypeInv, TypeOK, LimitTypes
<1> QED
  BY <1>1, <1>2, <1>3, <1>4, ListenerFailsInv, CancelInv, EvictInv, PassInv DEF Next

THEOREM Invariance == Spec => []Inv
<1>1. Init => Inv
  BY InitInv
<1>2. Inv /\ [Next]_vars => Inv'
  BY NextInv
<1> QED
  BY <1>1, <1>2, PTL DEF Spec

\* Every variable keeps its type, however requests, evictions and the shutdown
\* interleave.
THEOREM ServerTypeCorrect == Spec => []TypeOK
<1>1. Inv => TypeOK
  BY DEF Inv, TypeInv
<1> QED
  BY <1>1, Invariance, PTL

\* rejectOverCapacityMiddleware: no more requests are in flight than the operator
\* allows, for any number of clients and any limit.
THEOREM CapacityKept == Spec => []InFlightBounded
<1>1. Inv => InFlightBounded
  <2> SUFFICES ASSUME Inv, MaxConcurrent > 0 PROVE Cardinality(InFlight) <= MaxConcurrent
    BY DEF InFlightBounded
  <2>1. CASE main # "returned"
    BY <2>1 DEF Inv, SlotInv
  <2>2. CASE main = "returned"
    <3>1. InFlight = {}
      BY <2>2 DEF Inv, DrainInv, InFlight, Active
    <3> QED
      BY <3>1, FS_EmptySet, CapacityAssumption
  <2> QED
    BY <2>1, <2>2
<1> QED
  BY <1>1, Invariance, PTL

\* No slot is lost for good, whichever way requests end.
THEOREM SlotsComeBack == Spec => []IdleServerHasRoom
<1>1. Inv => IdleServerHasRoom
  BY FS_EmptySet, CapacityAssumption DEF Inv, SlotInv, IdleServerHasRoom
<1> QED
  BY <1>1, Invariance, PTL

\* Server: a process that was told to stop cuts off requests only after the
\* deadline of its shutdown.
THEOREM ExitIsOrderly == Spec => []OrderlyExit
<1>1. Inv => OrderlyExit
  BY DEF Inv, CutInv, ListenerInv, OrderlyExit
<1> QED
  BY <1>1, Invariance, PTL

-----------------------------------------------------------------------------
\* Buckets, whatever requests hold and however long.

\* A bucket is used by one account only, known by the request it was made for.
OwnerInv ==
  /\ \A r \in Requests : bucket[r] # NoBucket =>
       /\ r \in Limited /\ bucket[r] \in Limited
       /\ Account(bucket[r]) = Account(r)
       /\ bucket[bucket[r]] = bucket[r]
  /\ \A a \in Accounts : table[a] # NoBucket =>
       Account(table[a]) = a /\ bucket[table[a]] = table[a]

\* It holds no more than it may.
LevelInv ==
  /\ \A b \in Limited : bucket[b] = b => level[b] <= Full(Account(b)) /\ asof[b] <= now
  /\ \A a \in Accounts : seen[a] <= now

BucketInv == Inv /\ OwnerInv /\ LevelInv

LEMMA BucketTypes ==
  ASSUME BucketInv
  PROVE  /\ LimitTypes /\ RequestTypes /\ now \in Nat /\ MaxPause \in Nat /\ MaxIdle \in Nat
         /\ \A b \in Limited : b \in Requests /\ b # NoBucket
BY MaxTypes, AccountFacts, RequestAssumption DEF BucketInv, Inv, TypeInv, TypeOK, LimitTypes

\* What the steps of Allow work on.
LEMMA FetchedBucket ==
  ASSUME BucketInv, NEW r \in Requests, phase[r] = "fetched"
  PROVE  /\ r \in Limited /\ Account(r) \in Accounts /\ verdict[r] = "none"
         /\ bucket[r] \in Limited /\ bucket[r] \in Requests /\ bucket[r] # NoBucket
         /\ Account(bucket[r]) = Account(r) /\ bucket[bucket[r]] = bucket[r]
         /\ level[bucket[r]] <= Full(Account(r)) /\ asof[bucket[r]] <= now
<1>1. r \in Limited /\ bucket[r] \in Limited /\ verdict[r] = "none"
  BY DEF BucketInv, Inv, TypeInv, LimitedOnly, FetchedInv
<1>2. bucket[r] \in Requests /\ bucket[r] # NoBucket
  BY <1>1, BucketTypes
<1> QED
  BY <1>1, <1>2, AccountFacts DEF BucketInv, OwnerInv, LevelInv

\* And what is left of them in the table.
LEMMA TableBucket ==
  ASSUME BucketInv, NEW a \in Accounts, table[a] # NoBucket
  PROVE  /\ table[a] \in Limited /\ table[a] \in Requests
         /\ Account(table[a]) = a /\ bucket[table[a]] = table[a]
         /\ level[table[a]] <= Full(a) /\ asof[table[a]] <= now
<1>1. table[a] \in Limited
  BY BucketTypes DEF LimitTypes
<1> QED
  BY <1>1, BucketTypes DEF BucketInv, OwnerInv, LevelInv

LEMMA CreditBounds ==
  ASSUME BucketInv, NEW a \in Accounts
  PROVE  Credit(a) \in Nat /\ Credit(a) <= Full(a)
<1>1. Full(a) \in Nat
  BY BucketSizes
<1>2. CASE table[a] = NoBucket
  BY <1>1, <1>2 DEF Credit
<1>3. CASE table[a] # NoBucket
  <2>1. /\ level[table[a]] \in Nat /\ asof[table[a]] \in Nat /\ asof[table[a]] <= now
        /\ now \in Nat
    BY <1>3, TableBucket, BucketTypes DEF LimitTypes
  <2> QED
    BY <1>1, <1>3, <2>1 DEF Credit, Refilled
<1> QED
  BY <1>2, <1>3

LEMMA InitBuckets == Init => OwnerInv /\ LevelInv
BY AccountFacts, RequestAssumption DEF Init, LimitInit, OwnerInv, LevelInv

\* A bucket that is fetched is the one in the table, or is made and full.
LEMMA FetchCases ==
  ASSUME BucketInv, NEW r \in Requests, Fetch(r)
  PROVE  /\ r \in Limited /\ Account(r) \in Accounts /\ r # NoBucket
         /\ bucket[r] = NoBucket /\ verdict[r] = "none"
         /\ UNCHANGED <<now, verdict, slow>>
         /\ seen' = [seen EXCEPT ![Account(r)] = now] /\ when' = [when EXCEPT ![r] = now]
         /\ phase' = [phase EXCEPT ![r] = "fetched"]
         /\ \A c \in Accounts : table[c] # r
         /\ \A q \in Requests : bucket[q] # r
         /\ \/ /\ table[Account(r)] = NoBucket
               /\ bucket' = [bucket EXCEPT ![r] = r]
               /\ table' = [table EXCEPT ![Account(r)] = r]
               /\ level' = [level EXCEPT ![r] = Full(Account(r))]
               /\ asof' = [asof EXCEPT ![r] = now]
            \/ /\ table[Account(r)] # NoBucket
               /\ bucket' = [bucket EXCEPT ![r] = table[Account(r)]]
               /\ UNCHANGED <<table, level, asof>>
<1>1. /\ phase[r] = "limiting" /\ GetLimiter(r)
      /\ phase' = [phase EXCEPT ![r] = "fetched"]
  BY DEF Fetch
<1>2. /\ r \in Limited /\ Account(r) \in Accounts /\ r # NoBucket
      /\ bucket[r] = NoBucket /\ verdict[r] = "none"
  BY <1>1, AccountFacts, RequestAssumption DEF BucketInv, Inv, TypeInv, LimitedOnly, FreshInv
<1>3. (\A c \in Accounts : table[c] # r) /\ (\A q \in Requests : bucket[q] # r)
  BY <1>2 DEF BucketInv, OwnerInv
<1> QED
  BY <1>1, <1>2, <1>3 DEF GetLimiter, LastSeen

LEMMA FetchBuckets ==
  ASSUME BucketInv, NEW r \in Requests, Fetch(r)
  PROVE  OwnerInv' /\ LevelInv'
<1> DEFINE a == Account(r)
<1>1. /\ r \in Limited /\ a \in Accounts /\ Full(a) \in Nat /\ r # NoBucket /\ now' = now
      /\ bucket[r] = NoBucket /\ \A q \in Requests : bucket[q] # r
  BY FetchCases, BucketSizes
<1>2. LimitTypes /\ now \in Nat /\ \A b \in Limited : b \in Requests /\ b # NoBucket
  BY BucketTypes
<1>3. \A c \in Accounts : seen'[c] \in {now, seen[c]}
  BY <1>1, <1>2, FetchCases DEF LimitTypes
<1>4. \A c \in Accounts : seen'[c] <= now'
  BY <1>1, <1>2, <1>3 DEF BucketInv, LevelInv
<1>5. CASE /\ table[a] = NoBucket
           /\ bucket' = [bucket EXCEPT ![r] = r] /\ table' = [table EXCEPT ![a] = r]
           /\ level' = [level EXCEPT ![r] = Full(a)] /\ asof' = [asof EXCEPT ![r] = now]
  <2>1. /\ bucket'[r] = r /\ level'[r] = Full(a) /\ asof'[r] = now /\ table'[a] = r
        /\ \A q \in Requests : q # r =>
             bucket'[q] = bucket[q] /\ level'[q] = level[q] /\ asof'[q] = asof[q]
        /\ \A c \in Accounts : c # a => table'[c] = table[c]
    BY <1>1, <1>2, <1>5 DEF LimitTypes
  <2>2. ASSUME NEW q \in Requests, bucket'[q] # NoBucket
        PROVE  /\ q \in Limited /\ bucket'[q] \in Limited
               /\ Account(bucket'[q]) = Account(q) /\ bucket'[bucket'[q]] = bucket'[q]
    <3>1. CASE q = r
      BY <1>1, <2>1, <3>1
    <3>2. CASE q # r
      <4>1. bucket'[q] = bucket[q] /\ bucket[q] # r
        BY <1>1, <2>1, <3>2
      <4>2. bucket[q] \in Requests
        BY <1>2, <2>2, <4>1 DEF LimitTypes
      <4> QED
        BY <2>1, <2>2, <4>1, <4>2 DEF BucketInv, OwnerInv
    <3> QED
      BY <3>1, <3>2
  <2>3. ASSUME NEW c \in Accounts, table'[c] # NoBucket
        PROVE  Account(table'[c]) = c /\ bucket'[table'[c]] = table'[c]
    <3>1. CASE c = a
      BY <2>1, <3>1
    <3>2. CASE c # a
      <4>1. /\ table'[c] = table[c] /\ table[c] \in Requests /\ Account(table[c]) = c
            /\ bucket[table[c]] = table[c]
        BY <2>1, <2>3, <3>2, TableBucket
      <4> QED
        BY <1>1, <2>1, <4>1
    <3> QED
      BY <3>1, <3>2
  <2>4. OwnerInv'
    BY <2>2, <2>3 DEF OwnerInv, Account
  <2>5. ASSUME NEW b \in Limited, bucket'[b] = b
        PROVE  level'[b] <= Full(Account(b)) /\ asof'[b] <= now'
    <3>1. CASE b = r
      <4> HIDE DEF a
      <4> QED
        BY <1>1, <1>2, <2>1, <3>1 DEF a
    <3>2. CASE b # r
      BY <1>1, <1>2, <2>1, <2>5, <3>2 DEF BucketInv, LevelInv
    <3> QED
      BY <3>1, <3>2
  <2> QED
    BY <1>4, <2>4, <2>5 DEF LevelInv, Full, Account
<1>6. CASE /\ table[a] # NoBucket
           /\ bucket' = [bucket EXCEPT ![r] = table[a]] /\ UNCHANGED <<table, level, asof>>
  <2>1. /\ table[a] \in Limited /\ table[a] \in Requests /\ table[a] # r
        /\ Account(table[a]) = a /\ bucket[table[a]] = table[a]
    BY <1>1, <1>6, TableBucket, FetchCases
  <2>2. /\ bucket'[r] = table[a]
        /\ \A q \in Requests : q # r => bucket'[q] = bucket[q]
    BY <1>1, <1>2, <1>6 DEF LimitTypes
  <2>3. ASSUME NEW q \in Requests, bucket'[q] # NoBucket
        PROVE  /\ q \in Limited /\ bucket'[q] \in Limited
               /\ Account(bucket'[q]) = Account(q) /\ bucket'[bucket'[q]] = bucket'[q]
    <3>1. CASE q = r
      BY <1>1, <2>1, <2>2, <3>1
    <3>2. CASE q # r
      <4>1. bucket'[q] = bucket[q] /\ bucket[q] # r
        BY <1>1, <2>2, <3>2
      <4>2. bucket[q] \in Requests
        BY <1>2, <2>3, <4>1 DEF LimitTypes
      <4> QED
        BY <2>2, <2>3, <4>1, <4>2 DEF BucketInv, OwnerInv
    <3> QED
      BY <3>1, <3>2
  <2>4. ASSUME NEW c \in Accounts, table[c] # NoBucket
        PROVE  Account(table[c]) = c /\ bucket'[table[c]] = table[c]
    BY <2>2, <2>4, TableBucket, FetchCases
  <2>5. OwnerInv'
    BY <1>6, <2>3, <2>4 DEF OwnerInv, Account
  <2>6. ASSUME NEW b \in Limited, bucket'[b] = b
        PROVE  level[b] <= Full(Account(b)) /\ asof[b] <= now
    BY <1>2, <2>1, <2>2, <2>6 DEF BucketInv, LevelInv
  <2> QED
    BY <1>1, <1>4, <1>6, <2>5, <2>6 DEF LevelInv, Full, Account
<1> QED
  BY <1>5, <1>6, FetchCases

\* The request that asks a bucket leaves it with what is left, or as it is.
LEMMA SpendCases ==
  ASSUME BucketInv, NEW r \in Requests, Spend(r)
  PROVE  LET available == Refilled(level[bucket[r]], asof[bucket[r]], Full(Account(r))) IN
         /\ phase[r] = "fetched"
         /\ \A q \in Requests : phase'[q] = "fetched" => phase[q] = "fetched" /\ q # r
         /\ UNCHANGED <<now, table, seen, bucket, slow>> /\ when' = [when EXCEPT ![r] = now]
         /\ available \in Nat /\ available <= Full(Account(r))
         /\ \/ /\ available >= Price(Account(r))
               /\ verdict' = [verdict EXCEPT ![r] = "pass"]
               /\ level' = [level EXCEPT ![bucket[r]] = available - Price(Account(r))]
               /\ asof' = [asof EXCEPT ![bucket[r]] = now]
            \/ /\ available < Price(Account(r))
               /\ verdict' = [verdict EXCEPT ![r] = "reject"]
               /\ UNCHANGED <<level, asof>>
<1> DEFINE available == Refilled(level[bucket[r]], asof[bucket[r]], Full(Account(r)))
<1>1. phase[r] = "fetched" /\ Allow(r)
  BY DEF Spend
<1>2. \A q \in Requests : phase'[q] = "fetched" => phase[q] = "fetched" /\ q # r
  BY DEF Spend, BucketInv, Inv, TypeInv, TypeOK, RequestTypes
<1>3. Full(Account(r)) \in Nat /\ Price(Account(r)) \in Nat
  BY <1>1, FetchedBucket, BucketSizes
<1>4. /\ level[bucket[r]] \in Nat /\ asof[bucket[r]] \in Nat /\ asof[bucket[r]] <= now
      /\ now \in Nat
  BY <1>1, FetchedBucket, BucketTypes DEF LimitTypes
<1>5. available \in Nat /\ available <= Full(Account(r))
  BY <1>3, <1>4 DEF Refilled
<1> HIDE DEF available
<1>6. ~Affordable(available, Price(Account(r))) => available < Price(Account(r))
  BY <1>3, <1>5 DEF Affordable
<1> QED
  BY <1>1, <1>2, <1>5, <1>6 DEF Allow, Affordable, available

LEMMA SpendBuckets ==
  ASSUME BucketInv, NEW r \in Requests, Spend(r)
  PROVE  OwnerInv' /\ LevelInv'
<1> DEFINE a == Account(r)
           b == bucket[r]
           available == Refilled(level[b], asof[b], Full(a))
<1>1. /\ phase[r] = "fetched" /\ UNCHANGED <<now, table, seen, bucket>>
      /\ available \in Nat /\ available <= Full(a)
  BY SpendCases
<1>2. /\ a \in Accounts /\ b \in Requests /\ Account(b) = a
      /\ Full(a) \in Nat /\ Price(a) \in Nat
  BY <1>1, FetchedBucket, BucketSizes
<1>3. LimitTypes /\ now \in Nat /\ \A c \in Limited : c \in Requests
  BY BucketTypes
<1>4. OwnerInv'
  BY <1>1 DEF BucketInv, OwnerInv, Account
<1>5. CASE UNCHANGED <<level, asof>>
  BY <1>1, <1>4, <1>5 DEF BucketInv, LevelInv, Full, Account
<1>6. CASE /\ level' = [level EXCEPT ![b] = available - Price(a)]
           /\ asof' = [asof EXCEPT ![b] = now]
  <2>1. /\ level'[b] = available - Price(a) /\ asof'[b] = now
        /\ \A c \in Requests : c # b => level'[c] = level[c] /\ asof'[c] = asof[c]
    BY <1>2, <1>3, <1>6 DEF LimitTypes
  <2>2. available - Price(a) <= Full(a)
    BY <1>1, <1>2
  <2>3. ASSUME NEW c \in Limited, bucket[c] = c
        PROVE  level'[c] <= Full(Account(c)) /\ asof'[c] <= now
    <3>1. CASE c = b
      <4> HIDE DEF a, available, b
      <4> QED
        BY <1>2, <1>3, <2>1, <2>2, <3>1
    <3>2. CASE c # b
      BY <1>3, <2>1, <2>3, <3>2 DEF BucketInv, LevelInv
    <3> QED
      BY <3>1, <3>2
  <2> QED
    BY <1>1, <1>4, <2>3 DEF BucketInv, LevelInv, Full, Account
<1> QED
  BY <1>5, <1>6, SpendCases

\* Eviction: the accounts that lose their bucket have not used it for MaxIdle.
LEMMA EvictCases ==
  ASSUME BucketInv, NEW l \in Enabled, Evict(l)
  PROVE  /\ UNCHANGED <<now, bucket, level, asof, when, verdict, slow, phase>>
         /\ \E evicted \in SUBSET Accounts :
              /\ \A a \in evicted : table[a] # NoBucket /\ seen[a] + MaxIdle < now
              /\ \A a \in evicted : table'[a] = NoBucket /\ seen'[a] = 0
              /\ \A a \in Accounts \ evicted : table'[a] = table[a] /\ seen'[a] = seen[a]
<1>1. PICK started \in 0 .. now, evicted \in SUBSET Accounts :
        /\ \A a \in evicted : table[a] # NoBucket /\ Stale(a, started)
        /\ table' = [a \in Accounts |-> IF a \in evicted THEN NoBucket ELSE table[a]]
        /\ seen' = [a \in Accounts |-> IF a \in evicted THEN 0 ELSE seen[a]]
  BY DEF Evict, EvictStale
<1>2. UNCHANGED <<now, bucket, level, asof, when, verdict, slow, phase>>
  BY DEF Evict, EvictStale, requests
<1>3. ASSUME NEW a \in evicted PROVE seen[a] + MaxIdle < now
  <2>1. seen[a] \in Nat /\ now \in Nat /\ MaxIdle \in Nat
    BY BucketTypes DEF LimitTypes
  <2> QED
    BY <1>1, <2>1 DEF Stale
<1> QED
  BY <1>1, <1>2, <1>3

LEMMA EvictBuckets ==
  ASSUME BucketInv, NEW l \in Enabled, Evict(l)
  PROVE  OwnerInv' /\ LevelInv'
<1>1. UNCHANGED <<now, bucket, level, asof>>
  BY EvictCases
<1>2. \A a \in Accounts : \/ table'[a] = NoBucket /\ seen'[a] = 0
                          \/ table'[a] = table[a] /\ seen'[a] = seen[a]
  BY EvictCases
<1>3. now \in Nat
  BY BucketTypes
<1>4. OwnerInv'
  BY <1>1, <1>2 DEF BucketInv, OwnerInv, Account
<1>5. LevelInv'
  BY <1>1, <1>2, <1>3 DEF BucketInv, LevelInv, Full, Account
<1> QED
  BY <1>4, <1>5

LEMMA PassBuckets ==
  ASSUME BucketInv, Pass
  PROVE  OwnerInv' /\ LevelInv'
<1>1. now' = now + 1 /\ UNCHANGED <<table, seen, bucket, level, asof>>
  BY DEF Pass, Tick
<1>2. LimitTypes /\ now \in Nat /\ \A b \in Limited : b \in Requests
  BY BucketTypes
<1>3. OwnerInv'
  BY <1>1 DEF BucketInv, OwnerInv, Account
<1>4. ASSUME NEW b \in Limited, bucket[b] = b
      PROVE  level[b] <= Full(Account(b)) /\ asof[b] <= now + 1
  BY <1>2, <1>4 DEF BucketInv, LevelInv, LimitTypes
<1>5. \A a \in Accounts : seen[a] <= now + 1
  BY <1>2 DEF BucketInv, LevelInv, LimitTypes
<1>6. LevelInv'
  BY <1>1, <1>4, <1>5 DEF LevelInv, Full, Account
<1> QED
  BY <1>3, <1>6

\* Steps that do not touch the limiters.
LEMMA OtherSteps ==
  ASSUME BucketInv, UNCHANGED limits
  PROVE  OwnerInv' /\ LevelInv'
BY DEF BucketInv, OwnerInv, LevelInv, limits, Account, Full

\* The steps that no account notices.
Elsewhere ==
  \/ \E r \in Requests : Connect(r) \/ Drop(r) \/ Admit(r) \/ Finish(r)
  \/ MainStep \/ ListenerFails \/ Cancel \/ DrainerStep

LEMMA ElsewhereSteps ==
  ASSUME BucketInv, Elsewhere
  PROVE  /\ UNCHANGED limits
         /\ \A r \in Requests : phase'[r] = "fetched" => phase[r] = "fetched"
<1>1. ASSUME NEW q \in Requests, Connect(q) \/ Drop(q) \/ Admit(q) \/ Finish(q)
      PROVE  /\ UNCHANGED limits
             /\ \A r \in Requests : phase'[r] = "fetched" => phase[r] = "fetched"
  BY <1>1 DEF Connect, Drop, Admit, Finish, BucketInv, Inv, TypeInv, TypeOK, RequestTypes
<1>2. CASE Return
  BY <1>2 DEF Return
<1>3. CASE Listen \/ StopServing \/ ListenerFails \/ Cancel \/ DrainerStep
  BY <1>3 DEF Listen, StopServing, ListenerFails, Cancel, DrainerStep, BeginShutdown,
     EndShutdown, requests
<1> QED
  BY <1>1, <1>2, <1>3 DEF Elsewhere, MainStep

LEMMA NextSteps ==
  ASSUME Next
  PROVE  \/ Elsewhere
         \/ \E r \in Requests : Fetch(r) \/ Spend(r)
         \/ \E l \in Enabled : Evict(l)
         \/ Pass
BY DEF Next, RequestStep, Elsewhere

LEMMA NextBuckets ==
  ASSUME BucketInv, [Next]_vars
  PROVE  BucketInv'
<1>1. Inv'
  BY NextInv DEF BucketInv
<1>2. CASE Elsewhere
  BY <1>1, <1>2, ElsewhereSteps, OtherSteps DEF BucketInv
<1>3. ASSUME NEW r \in Requests, Fetch(r) \/ Spend(r) PROVE BucketInv'
  BY <1>1, <1>3, FetchBuckets, SpendBuckets DEF BucketInv
<1>4. ASSUME NEW l \in Enabled, Evict(l) PROVE BucketInv'
  BY <1>1, <1>4, EvictBuckets DEF BucketInv
<1>5. CASE Pass
  BY <1>1, <1>5, PassBuckets DEF BucketInv
<1>6. CASE UNCHANGED vars
  BY <1>1, <1>6, OtherSteps DEF BucketInv, vars
<1> QED
  BY <1>2, <1>3, <1>4, <1>5, <1>6, NextSteps

-----------------------------------------------------------------------------
\* Requests that are not slow, when an idle bucket lasts longer than they rest.

\* The bucket that such a request has fetched is still in the table.
HeldInv ==
  \A r \in Requests \ slow : phase[r] = "fetched" =>
    /\ bucket[r] = table[Account(r)]
    /\ when[r] <= seen[Account(r)]
    /\ now <= when[r] + MaxPause

\* As long as there are no others, none is used long after it was fetched.
UsedInv ==
  slow = {} => \A a \in Accounts : table[a] # NoBucket => asof[table[a]] <= seen[a] + MaxPause

PromptInv == BucketInv /\ HeldInv /\ UsedInv

LEMMA InitPrompt == Init => HeldInv /\ UsedInv
BY DEF Init, LimitInit, HeldInv, UsedInv

LEMMA PromptBucket ==
  ASSUME PromptInv, NEW r \in Requests \ slow, phase[r] = "fetched"
  PROVE  bucket[r] = table[Account(r)] /\ now <= seen[Account(r)] + MaxPause
<1>1. /\ bucket[r] = table[Account(r)] /\ when[r] <= seen[Account(r)]
      /\ now <= when[r] + MaxPause
  BY DEF PromptInv, HeldInv
<1>2. Account(r) \in Accounts
  BY FetchedBucket DEF PromptInv
<1>3. when[r] \in Nat /\ seen[Account(r)] \in Nat /\ now \in Nat /\ MaxPause \in Nat
  BY <1>2, BucketTypes DEF PromptInv, LimitTypes
<1> QED
  BY <1>1, <1>3

LEMMA FetchPrompt ==
  ASSUME PromptInv, NEW r \in Requests, Fetch(r)
  PROVE  HeldInv' /\ UsedInv'
<1> DEFINE a == Account(r)
<1>1. /\ BucketInv /\ LimitTypes /\ RequestTypes /\ now \in Nat /\ MaxPause \in Nat
      /\ \A b \in Limited : b \in Requests /\ b # NoBucket
  BY BucketTypes DEF PromptInv
<1>2. /\ r \in Limited /\ a \in Accounts /\ r # NoBucket
      /\ UNCHANGED <<now, slow>>
      /\ seen' = [seen EXCEPT ![a] = now] /\ when' = [when EXCEPT ![r] = now]
      /\ phase' = [phase EXCEPT ![r] = "fetched"]
      /\ \A c \in Accounts : table[c] # r
  BY <1>1, FetchCases
<1>3. /\ \A q \in Requests : q # r =>
           bucket'[q] = bucket[q] /\ when'[q] = when[q] /\ phase'[q] = phase[q]
           /\ level'[q] = level[q] /\ asof'[q] = asof[q]
      /\ \A c \in Accounts : c # a => table'[c] = table[c] /\ seen'[c] = seen[c]
      /\ bucket'[r] = table'[a] /\ when'[r] = now /\ seen'[a] = now /\ seen[a] <= now
      /\ table[a] # NoBucket => table'[a] = table[a] /\ asof' = asof
      /\ table[a] = NoBucket => table'[a] = r /\ asof'[r] = now
  <2>1. /\ \A q \in Requests : q # r => when'[q] = when[q] /\ phase'[q] = phase[q]
        /\ \A c \in Accounts : c # a => seen'[c] = seen[c]
        /\ when'[r] = now /\ seen'[a] = now /\ seen[a] <= now
    BY <1>1, <1>2 DEF LimitTypes, RequestTypes, BucketInv, LevelInv
  <2>2. CASE /\ table[a] = NoBucket
             /\ bucket' = [bucket EXCEPT ![r] = r] /\ table' = [table EXCEPT ![a] = r]
             /\ level' = [level EXCEPT ![r] = Full(a)] /\ asof' = [asof EXCEPT ![r] = now]
    <3> HIDE DEF a
    <3> QED
      BY <1>1, <1>2, <2>1, <2>2 DEF LimitTypes
  <2>3. CASE /\ table[a] # NoBucket
             /\ bucket' = [bucket EXCEPT ![r] = table[a]] /\ UNCHANGED <<table, level, asof>>
    <3> HIDE DEF a
    <3> QED
      BY <1>1, <1>2, <2>1, <2>3 DEF LimitTypes
  <2> QED
    BY <1>1, <2>2, <2>3, FetchCases
<1>4. HeldInv'
  <2> SUFFICES ASSUME NEW q \in Requests \ slow, phase'[q] = "fetched"
               PROVE  /\ bucket'[q] = table'[Account(q)]
                      /\ when'[q] <= seen'[Account(q)]
                      /\ now <= when'[q] + MaxPause
    BY <1>2 DEF HeldInv, Account
  <2>1. CASE q = r
    BY <1>1, <1>3, <2>1
  <2>2. CASE q # r
    <3>1. /\ phase[q] = "fetched" /\ Account(q) \in Accounts /\ bucket[q] # NoBucket
          /\ bucket[q] = table[Account(q)] /\ when[q] <= seen[Account(q)]
          /\ now <= when[q] + MaxPause
      BY <1>1, <1>3, <2>2, FetchedBucket DEF PromptInv, HeldInv
    <3>2. table'[Account(q)] = table[Account(q)]
      BY <1>3, <3>1
    <3>3. when[q] <= seen'[Account(q)]
      <4>1. when[q] \in Nat /\ seen[Account(q)] \in Nat
        BY <1>1, <3>1 DEF LimitTypes
      <4> QED
        BY <1>1, <1>3, <3>1, <4>1
    <3> QED
      BY <1>3, <2>2, <3>1, <3>2, <3>3
  <2> QED
    BY <2>1, <2>2
<1>5. UsedInv'
  <2> SUFFICES ASSUME slow = {}, NEW c \in Accounts, table'[c] # NoBucket
               PROVE  asof'[table'[c]] <= seen'[c] + MaxPause
    BY <1>2 DEF UsedInv
  <2>1. CASE c = a /\ table[a] = NoBucket
    BY <1>1, <1>3, <2>1
  <2>2. CASE c # a \/ table[a] # NoBucket
    <3>1. /\ table'[c] = table[c] /\ table[c] # NoBucket /\ table[c] \in Requests
          /\ table[c] # r /\ asof[table[c]] <= now
          /\ asof[table[c]] <= seen[c] + MaxPause
      BY <1>1, <1>2, <1>3, <2>2, TableBucket DEF PromptInv, UsedInv
    <3>2. asof'[table[c]] = asof[table[c]] /\ seen'[c] \in {now, seen[c]}
      BY <1>3, <3>1
    <3>3. asof[table[c]] \in Nat
      BY <1>1, <3>1 DEF LimitTypes
    <3> QED
      BY <1>1, <3>1, <3>2, <3>3
  <2> QED
    BY <2>1, <2>2
<1> QED
  BY <1>4, <1>5

LEMMA SpendPrompt ==
  ASSUME PromptInv, NEW r \in Requests, Spend(r)
  PROVE  HeldInv' /\ UsedInv'
<1>1. /\ BucketInv /\ LimitTypes /\ now \in Nat /\ MaxPause \in Nat
  BY BucketTypes DEF PromptInv
<1>2. /\ phase[r] = "fetched" /\ UNCHANGED <<now, table, seen, bucket, slow>>
      /\ when' = [when EXCEPT ![r] = now]
      /\ \A q \in Requests : phase'[q] = "fetched" => phase[q] = "fetched" /\ q # r
      /\ asof' = asof \/ asof' = [asof EXCEPT ![bucket[r]] = now]
  BY <1>1, SpendCases
<1>3. HeldInv'
  BY <1>1, <1>2 DEF PromptInv, HeldInv, LimitTypes, Account
<1>4. UsedInv'
  <2> SUFFICES ASSUME slow = {}, NEW a \in Accounts, table[a] # NoBucket
               PROVE  asof'[table[a]] <= seen[a] + MaxPause
    BY <1>2 DEF UsedInv
  <2>1. asof[table[a]] <= seen[a] + MaxPause /\ table[a] \in Requests /\ Account(table[a]) = a
    BY <1>1, TableBucket DEF PromptInv, UsedInv
  <2>2. CASE table[a] = bucket[r]
    <3>1. Account(r) = a
      BY <1>1, <1>2, <2>1, <2>2, FetchedBucket
    <3>2. now <= seen[a] + MaxPause
      BY <1>2, <3>1, PromptBucket
    <3>3. asof'[table[a]] \in {now, asof[table[a]]}
      BY <1>1, <1>2, <2>1, <2>2 DEF LimitTypes
    <3> QED
      BY <2>1, <3>2, <3>3
  <2>3. CASE table[a] # bucket[r]
    BY <1>1, <1>2, <2>1, <2>3 DEF LimitTypes
  <2> QED
    BY <2>2, <2>3
<1> QED
  BY <1>3, <1>4

\* A bucket that such a request holds has not been idle.
LEMMA EvictPrompt ==
  ASSUME PromptInv, IdleIsLong, NEW l \in Enabled, Evict(l)
  PROVE  HeldInv' /\ UsedInv'
<1>1. PICK evicted \in SUBSET Accounts :
        /\ \A a \in evicted : table[a] # NoBucket /\ seen[a] + MaxIdle < now
        /\ \A a \in evicted : table'[a] = NoBucket /\ seen'[a] = 0
        /\ \A a \in Accounts \ evicted : table'[a] = table[a] /\ seen'[a] = seen[a]
  BY EvictCases DEF PromptInv
<1>2. UNCHANGED <<now, bucket, asof, when, slow, phase>>
  BY EvictCases DEF PromptInv
<1>3. /\ BucketInv /\ LimitTypes /\ now \in Nat /\ MaxPause \in Nat /\ MaxIdle \in Nat
  BY BucketTypes DEF PromptInv
<1>4. HeldInv'
  <2> SUFFICES ASSUME NEW r \in Requests \ slow, phase[r] = "fetched"
               PROVE  Account(r) \in Accounts \ evicted
    BY <1>1, <1>2 DEF PromptInv, HeldInv, Account
  <2>1. Account(r) \in Accounts /\ now <= seen[Account(r)] + MaxPause
    BY <1>3, FetchedBucket, PromptBucket
  <2>2. MaxPause <= MaxIdle
    <3>1. MaxPause + Full(Account(r)) <= MaxIdle /\ Full(Account(r)) \in Nat
      BY <2>1, LongIdle, BucketSizes
    <3> QED
      BY <1>3, <3>1
  <2>3. seen[Account(r)] \in Nat
    BY <1>3, <2>1 DEF LimitTypes
  <2> QED
    BY <1>1, <1>3, <2>1, <2>2, <2>3
<1>5. UsedInv'
  BY <1>1, <1>2 DEF PromptInv, UsedInv
<1> QED
  BY <1>4, <1>5

LEMMA PassPrompt ==
  ASSUME PromptInv, Pass
  PROVE  HeldInv' /\ UsedInv'
<1>1. /\ now' = now + 1 /\ UNCHANGED <<table, seen, bucket, asof, when, phase>>
      /\ slow' = slow \cup {r \in Requests : Waiting(r) /\ now + 1 > when[r] + MaxPause}
  BY DEF Pass, Tick, requests
<1>2. BucketInv /\ LimitTypes /\ MaxPause \in Nat
  BY BucketTypes DEF PromptInv
<1>3. HeldInv'
  <2> SUFFICES ASSUME NEW r \in Requests \ slow', phase[r] = "fetched"
               PROVE  now + 1 <= when[r] + MaxPause
    BY <1>1 DEF PromptInv, HeldInv, Account
  <2>1. Waiting(r)
    BY <1>2, FetchedBucket DEF Waiting
  <2>2. when[r] \in Nat /\ now \in Nat
    BY <1>2 DEF LimitTypes
  <2> QED
    BY <1>1, <1>2, <2>1, <2>2
<1>4. UsedInv'
  BY <1>1 DEF PromptInv, UsedInv
<1> QED
  BY <1>3, <1>4

LEMMA OtherPrompt ==
  ASSUME PromptInv, UNCHANGED limits,
         \A r \in Requests : phase'[r] = "fetched" => phase[r] = "fetched"
  PROVE  HeldInv' /\ UsedInv'
BY DEF PromptInv, HeldInv, UsedInv, limits, Account

LEMMA NextPrompt ==
  ASSUME PromptInv, IdleIsLong, [Next]_vars
  PROVE  PromptInv'
<1>1. BucketInv'
  BY NextBuckets DEF PromptInv
<1>2. CASE Elsewhere
  BY <1>1, <1>2, ElsewhereSteps, OtherPrompt DEF PromptInv
<1>3. ASSUME NEW r \in Requests, Fetch(r) \/ Spend(r) PROVE PromptInv'
  BY <1>1, <1>3, FetchPrompt, SpendPrompt DEF PromptInv
<1>4. ASSUME NEW l \in Enabled, Evict(l) PROVE PromptInv'
  BY <1>1, <1>4, EvictPrompt DEF PromptInv
<1>5. CASE Pass
  BY <1>1, <1>5, PassPrompt DEF PromptInv
<1>6. CASE UNCHANGED vars
  BY <1>1, <1>6, OtherPrompt DEF PromptInv, vars, requests
<1> QED
  BY <1>2, <1>3, <1>4, <1>5, <1>6, NextSteps

-----------------------------------------------------------------------------
\* The step of the abstract bucket that each step stands for.

LEMMA IdealAccounts == Ideal!Accounts = Accounts
BY DEF Ideal!Accounts, AccountOf, Accounts

LEMMA IdealInit == Init => Ideal!Init
BY IdealAccounts DEF Init, LimitInit, Credit, Ideal!Init, Limited

LEMMA SameCredit ==
  ASSUME \A a \in Accounts : Credit(a)' = Credit(a), verdict' = verdict
  PROVE  UNCHANGED Ideal!vars
BY DEF Ideal!vars

\* A bucket that is made is as full as none.
LEMMA FetchKeepsCredit ==
  ASSUME BucketInv, NEW r \in Requests, Fetch(r), NEW c \in Accounts
  PROVE  Credit(c)' = Credit(c)
<1>1. /\ r \in Limited /\ Account(r) \in Accounts /\ r # NoBucket /\ now' = now
      /\ table[c] # r
  BY FetchCases
<1>2. LimitTypes /\ now \in Nat
  BY BucketTypes
<1>3. CASE UNCHANGED <<table, level, asof>>
  BY <1>1, <1>3 DEF Credit, Refilled, Full
<1>4. CASE /\ table[Account(r)] = NoBucket
           /\ table' = [table EXCEPT ![Account(r)] = r]
           /\ level' = [level EXCEPT ![r] = Full(Account(r))] /\ asof' = [asof EXCEPT ![r] = now]
  <2>1. CASE c = Account(r)
    <3>1. table'[c] = r /\ level'[r] = Full(c) /\ asof'[r] = now
      BY <1>1, <1>2, <1>4, <2>1, BucketTypes DEF LimitTypes
    <3>2. Full(c) \in Nat
      BY BucketSizes
    <3>3. Credit(c)' = Full(c)
      BY <1>1, <1>2, <3>1, <3>2 DEF Credit, Refilled, Full
    <3> QED
      BY <1>4, <2>1, <3>3 DEF Credit
  <2>2. CASE c # Account(r)
    <3>1. table'[c] = table[c]
      BY <1>1, <1>2, <1>4, <2>2 DEF LimitTypes
    <3>2. CASE table[c] = NoBucket
      BY <3>1, <3>2 DEF Credit, Full
    <3>3. CASE table[c] # NoBucket
      <4>1. level'[table[c]] = level[table[c]] /\ asof'[table[c]] = asof[table[c]]
        BY <1>1, <1>2, <1>4, <3>3, TableBucket DEF LimitTypes
      <4> QED
        BY <1>1, <3>1, <4>1 DEF Credit, Refilled, Full
    <3> QED
      BY <3>2, <3>3
  <2> QED
    BY <2>1, <2>2
<1> QED
  BY <1>3, <1>4, FetchCases

\* An account whose bucket is not the one that was asked keeps its credit.
LEMMA SpendElsewhere ==
  ASSUME BucketInv, NEW r \in Requests, Spend(r), NEW c \in Accounts, table[c] # bucket[r]
  PROVE  Credit(c)' = Credit(c)
<1>1. UNCHANGED <<now, table>> /\ phase[r] = "fetched"
  BY SpendCases
<1>2. CASE table[c] = NoBucket
  BY <1>1, <1>2 DEF Credit, Full
<1>3. CASE table[c] # NoBucket
  <2>1. table[c] \in Requests /\ LimitTypes
    BY <1>3, TableBucket, BucketTypes
  <2>2. level'[table[c]] = level[table[c]] /\ asof'[table[c]] = asof[table[c]]
    BY <2>1, SpendCases DEF LimitTypes
  <2> QED
    BY <1>1, <2>2 DEF Credit, Refilled, Full
<1> QED
  BY <1>2, <1>3

\* The account whose bucket it is pays, or has not enough.
LEMMA SpendPays ==
  ASSUME BucketInv, NEW r \in Requests, Spend(r), bucket[r] = table[Account(r)]
  PROVE  LET a == Account(r) IN
         \/ /\ Credit(a) >= Price(a) /\ Credit(a)' = Credit(a) - Price(a)
            /\ verdict' = [verdict EXCEPT ![r] = "pass"]
         \/ /\ Credit(a) < Price(a) /\ Credit(a)' = Credit(a)
            /\ verdict' = [verdict EXCEPT ![r] = "reject"]
<1> DEFINE a == Account(r)
           b == bucket[r]
           available == Refilled(level[b], asof[b], Full(a))
<1>1. /\ phase[r] = "fetched" /\ UNCHANGED <<now, table>>
      /\ available \in Nat /\ available <= Full(a)
  BY SpendCases
<1>2. /\ a \in Accounts /\ b \in Requests /\ b # NoBucket /\ LimitTypes /\ now \in Nat
      /\ Full(a) \in Nat /\ Price(a) \in Nat
  BY <1>1, FetchedBucket, BucketTypes, BucketSizes
<1>3. Credit(a) = available
  BY <1>2 DEF Credit
<1>4. CASE /\ available >= Price(a)
           /\ verdict' = [verdict EXCEPT ![r] = "pass"]
           /\ level' = [level EXCEPT ![b] = available - Price(a)]
           /\ asof' = [asof EXCEPT ![b] = now]
  <2>1. level'[b] = available - Price(a) /\ asof'[b] = now
    BY <1>2, <1>4 DEF LimitTypes
  <2>2. Credit(a)' = available - Price(a)
    BY <1>1, <1>2, <1>4, <2>1 DEF Credit, Refilled, Full
  <2> QED
    BY <1>3, <1>4, <2>2
<1>5. CASE /\ available < Price(a)
           /\ verdict' = [verdict EXCEPT ![r] = "reject"]
           /\ UNCHANGED <<level, asof>>
  <2>1. Credit(a)' = Credit(a)
    BY <1>1, <1>5 DEF Credit, Refilled, Full
  <2> QED
    BY <1>3, <1>5, <2>1
<1> QED
  BY <1>4, <1>5, SpendCases

LEMMA SpendDecides ==
  ASSUME PromptInv, NEW r \in Requests \ slow, Spend(r)
  PROVE  Ideal!Decide(r)
<1> DEFINE a == Account(r)
           credit == [c \in Accounts |-> Credit(c)]
           judged == [q \in Limited |-> verdict[q]]
<1>1. /\ BucketInv /\ LimitTypes /\ r \in Limited /\ a \in Accounts
      /\ verdict[r] = "none" /\ bucket[r] = table[a] /\ phase[r] = "fetched"
      /\ \A q \in Limited : q \in Requests
  BY BucketTypes, SpendCases, FetchedBucket, PromptBucket DEF PromptInv
<1>2. ASSUME NEW c \in Accounts, c # a PROVE Credit(c)' = Credit(c)
  <2>1. table[c] # bucket[r]
    <3>1. bucket[r] # NoBucket /\ Account(bucket[r]) = a
      BY <1>1, FetchedBucket
    <3> QED
      BY <1>1, <1>2, <3>1, TableBucket
  <2> QED
    BY <1>1, <2>1, SpendElsewhere
<1>3. ASSUME NEW x, Credit(a)' = x PROVE credit' = [credit EXCEPT ![a] = x]
  BY <1>1, <1>2, <1>3
<1>4. ASSUME NEW answer, verdict' = [verdict EXCEPT ![r] = answer]
      PROVE  judged' = [judged EXCEPT ![r] = answer]
  BY <1>1, <1>4 DEF LimitTypes
<1>5. /\ AccountOf[r] = a /\ credit[a] = Credit(a) /\ judged[r] = "none"
      /\ [c \in Accounts |-> Price(c)][a] = Price(a)
  BY <1>1 DEF AccountOf
<1>6. CASE /\ Credit(a) >= Price(a) /\ Credit(a)' = Credit(a) - Price(a)
           /\ verdict' = [verdict EXCEPT ![r] = "pass"]
  <2>1. credit' = [credit EXCEPT ![a] = Credit(a) - Price(a)] /\ judged' = [judged EXCEPT ![r] = "pass"]
    BY <1>3, <1>4, <1>6
  <2> QED
    BY <1>5, <1>6, <2>1 DEF Ideal!Decide
<1>7. CASE /\ Credit(a) < Price(a) /\ Credit(a)' = Credit(a)
           /\ verdict' = [verdict EXCEPT ![r] = "reject"]
  <2>1. credit' = credit /\ judged' = [judged EXCEPT ![r] = "reject"]
    BY <1>2, <1>4, <1>7
  <2> QED
    BY <1>5, <1>7, <2>1 DEF Ideal!Decide
<1> QED
  BY <1>1, <1>6, <1>7, SpendPays

LEMMA PassRefills ==
  ASSUME BucketInv, Pass
  PROVE  Ideal!Refill
<1>1. now' = now + 1 /\ UNCHANGED <<table, level, asof, verdict>>
  BY DEF Pass, Tick
<1>2. LimitTypes
  BY DEF BucketInv, Inv, TypeInv, TypeOK
<1>3. ASSUME NEW a \in Accounts
      PROVE  Credit(a)' = IF Credit(a) < Full(a) THEN Credit(a) + 1 ELSE Full(a)
  <2>1. Full(a) \in Nat
    BY BucketSizes
  <2>2. CASE table[a] = NoBucket
    BY <1>1, <2>1, <2>2 DEF Credit, Full
  <2>3. CASE table[a] # NoBucket
    <3>1. now \in Nat /\ level[table[a]] \in Nat /\ asof[table[a]] \in Nat
      BY <1>2, <2>3, AccountFacts DEF LimitTypes
    <3>2. Credit(a) = Refilled(level[table[a]], asof[table[a]], Full(a))
      BY <2>3 DEF Credit
    <3>3. /\ now' = now + 1 /\ table'[a] = table[a]
          /\ level'[table[a]] = level[table[a]] /\ asof'[table[a]] = asof[table[a]]
      BY <1>1
    <3>4. Credit(a)' = IF level[table[a]] + (now + 1 - asof[table[a]]) < Full(a)
                       THEN level[table[a]] + (now + 1 - asof[table[a]]) ELSE Full(a)
      <4>1. Full(a)' = Full(a)
        BY DEF Full
      <4>2. Credit(a)' = IF table'[a] = NoBucket THEN Full(a)'
                         ELSE IF level'[table'[a]] + (now' - asof'[table'[a]]) < Full(a)'
                              THEN level'[table'[a]] + (now' - asof'[table'[a]]) ELSE Full(a)'
        BY Zenon DEF Credit, Refilled
      <4>3. /\ table'[a] # NoBucket /\ now' = now + 1
            /\ level'[table'[a]] = level[table[a]] /\ asof'[table'[a]] = asof[table[a]]
        BY <2>3, <3>3
      <4>4. Credit(a)' = IF level'[table'[a]] + (now' - asof'[table'[a]]) < Full(a)
                         THEN level'[table'[a]] + (now' - asof'[table'[a]]) ELSE Full(a)
        BY <4>1, <4>2, <4>3
      <4> QED
        BY <2>1, <3>1, <4>3, <4>4
    <3> DEFINE x == level[table[a]] + (now - asof[table[a]])
    <3>5. /\ x \in Int /\ level[table[a]] + (now + 1 - asof[table[a]]) = x + 1
          /\ Credit(a) = IF x < Full(a) THEN x ELSE Full(a)
      BY <3>1, <3>2 DEF Refilled
    <3>6. Credit(a)' = IF x + 1 < Full(a) THEN x + 1 ELSE Full(a)
      BY <3>4, <3>5
    <3> HIDE DEF x
    <3> QED
      BY <2>1, <3>5, <3>6
  <2> QED
    BY <2>2, <2>3
<1>4. [a \in Accounts |-> Credit(a)]'
        = [a \in Accounts |-> IF Credit(a) < Full(a) THEN Credit(a) + 1 ELSE Full(a)]
  BY <1>3
<1>5. [r \in Limited |-> verdict[r]]' = [r \in Limited |-> verdict[r]]
  BY <1>1
<1> QED
  BY <1>4, <1>5, IdealAccounts DEF Ideal!Refill

\* As long as no request is slow, what is evicted is full.
LEMMA EvictKeepsCredit ==
  ASSUME PromptInv, IdleIsLong, slow = {}, NEW l \in Enabled, Evict(l), NEW a \in Accounts
  PROVE  Credit(a)' = Credit(a)
<1>1. PICK evicted \in SUBSET Accounts :
        /\ \A c \in evicted : table[c] # NoBucket /\ seen[c] + MaxIdle < now
        /\ \A c \in evicted : table'[c] = NoBucket
        /\ \A c \in Accounts \ evicted : table'[c] = table[c]
  BY EvictCases DEF PromptInv
<1>2. UNCHANGED <<now, level, asof>>
  BY EvictCases DEF PromptInv
<1>3. CASE a \notin evicted
  BY <1>1, <1>2, <1>3 DEF Credit, Refilled, Full
<1>4. CASE a \in evicted
  <2>1. asof[table[a]] <= seen[a] + MaxPause
    BY <1>1, <1>4 DEF PromptInv, UsedInv
  <2>2. /\ level[table[a]] \in Nat /\ asof[table[a]] \in Nat /\ seen[a] \in Nat /\ now \in Nat
        /\ MaxPause \in Nat /\ MaxIdle \in Nat /\ Full(a) \in Nat
        /\ MaxPause + Full(a) <= MaxIdle
    BY <1>1, <1>4, TableBucket, BucketTypes, BucketSizes, LongIdle DEF PromptInv, LimitTypes
  <2>3. now - asof[table[a]] >= Full(a)
    BY <1>1, <1>4, <2>1, <2>2
  <2>4. Refilled(level[table[a]], asof[table[a]], Full(a)) = Full(a)
    BY <2>2, <2>3 DEF Refilled
  <2> QED
    BY <1>1, <1>4, <2>4 DEF Credit, Full
<1> QED
  BY <1>3, <1>4

\* A request that has been slow has been slow.
LEMMA SlowStays ==
  ASSUME BucketInv, [Next]_vars
  PROVE  slow \subseteq slow'
<1>1. CASE UNCHANGED limits
  BY <1>1 DEF limits
<1>2. ASSUME NEW r \in Requests, Fetch(r) \/ Spend(r) PROVE slow' = slow
  BY <1>2, FetchCases, SpendCases
<1>3. ASSUME NEW l \in Enabled, Evict(l) PROVE slow' = slow
  BY <1>3, EvictCases
<1>4. CASE Pass
  BY <1>4 DEF Pass, Tick
<1> QED
  BY <1>1, <1>2, <1>3, <1>4, NextSteps, ElsewhereSteps DEF vars

LEMMA StepsMap ==
  ASSUME PromptInv, IdleIsLong, [Next]_vars, slow' = {}
  PROVE  [Ideal!Next]_(Ideal!vars)
<1> USE DEF PromptInv
<1>1. slow = {}
  BY SlowStays
<1>2. CASE UNCHANGED limits
  BY <1>2, SameCredit DEF limits, Credit, Refilled, Full
<1>3. ASSUME NEW r \in Requests, Fetch(r) PROVE UNCHANGED Ideal!vars
  BY <1>3, FetchCases, FetchKeepsCredit, SameCredit
<1>4. ASSUME NEW r \in Requests, Spend(r) PROVE Ideal!Next
  <2>1. r \in Limited
    BY <1>4, SpendCases, FetchedBucket
  <2> QED
    BY <1>1, <1>4, <2>1, SpendDecides DEF Ideal!Next
<1>5. ASSUME NEW l \in Enabled, Evict(l) PROVE UNCHANGED Ideal!vars
  BY <1>1, <1>5, EvictCases, EvictKeepsCredit, SameCredit
<1>6. CASE Pass
  BY <1>6, PassRefills DEF Ideal!Next
<1> QED
  BY <1>2, <1>3, <1>4, <1>5, <1>6, NextSteps, ElsewhereSteps DEF vars

\* RateLimitMiddleware: if an idle bucket lasts longer than it takes to fill up,
\* then as long as no request has been slow between fetching its bucket and asking
\* it, clients are treated as if each had one bucket that lasts for ever, for any
\* number of them, any rate and burst and any order of requests, evictions and ticks.
THEOREM RateLimitImplementsTokenBucket ==
  ASSUME IdleIsLong
  PROVE  Spec => ImplementsTokenBucket
<1>1. Init => PromptInv /\ Ideal!Init
  BY InitInv, InitBuckets, InitPrompt, IdealInit DEF PromptInv, BucketInv
<1>2. PromptInv /\ [Next]_vars => PromptInv'
  BY NextPrompt
<1>3. PromptInv /\ [Next]_vars => [slow' = {} => Ideal!Next]_(Ideal!vars)
  BY StepsMap
<1> QED
  BY <1>1, <1>2, <1>3, PTL DEF Spec, ImplementsTokenBucket
=============================================================================
