------------------------------ MODULE Rate_proofs ------------------------------
(***************************************************************************)
(* Theorems on what a rate limit lets pass, from the credit that each      *)
(* account has left, and on its Retry-After, from each bucket's last use.  *)
(***************************************************************************)
EXTENDS Server_proofs

-----------------------------------------------------------------------------
\* Arithmetic, with products as a whole.

LEMMA OneTokenMore ==
  ASSUME NEW n \in Nat, NEW p \in Nat
  PROVE  (n + 1) * p = n * p + p /\ n * p \in Nat
OBVIOUS

\* Retry-After is longer than a token takes.
LEMMA AdviceIsLonger ==
  ASSUME NEW p \in Nat, NEW s \in Nat \ {0}
  PROVE  /\ (p \div s + 1) * s > p
         /\ (p \div s + 1) * s \in Nat
OBVIOUS

-----------------------------------------------------------------------------
\* Verdicts and their times.

LEMMA SameAccount ==
  ASSUME NEW r \in Limited
  PROVE  /\ Account(r)' = Account(r) /\ RetryAfter(r)' = RetryAfter(r)
         /\ r \in Requests /\ Account(r) \in Accounts
BY AccountFacts DEF Account, RetryAfter

LEMMA SameSizes ==
  ASSUME NEW a \in Accounts
  PROVE  Full(a)' = Full(a) /\ Price(a)' = Price(a)
BY DEF Full, Price

\* Everything was decided at some time until now.
TimeInv == \A r \in Requests : verdict[r] # "none" => when[r] <= now

\* A verdict stands, with its time, and who was not slow then never is.
LEMMA VerdictStands ==
  ASSUME BucketInv, [Next]_vars, NEW r \in Requests, verdict[r] # "none"
  PROVE  verdict'[r] = verdict[r] /\ when'[r] = when[r] /\ (r \in slow' <=> r \in slow)
<1>1. LimitTypes
  BY BucketTypes
<1>2. CASE UNCHANGED limits
  BY <1>2 DEF limits
<1>3. ASSUME NEW q \in Requests, Fetch(q)
      PROVE  verdict'[r] = verdict[r] /\ when'[r] = when[r] /\ slow' = slow
  <2>1. /\ verdict[q] = "none" /\ verdict' = verdict /\ slow' = slow
        /\ when' = [when EXCEPT ![q] = now]
    BY <1>3, FetchCases
  <2> QED
    BY <1>1, <2>1 DEF LimitTypes
<1>4. ASSUME NEW q \in Requests, Spend(q)
      PROVE  verdict'[r] = verdict[r] /\ when'[r] = when[r] /\ slow' = slow
  <2>1. phase[q] = "fetched" /\ slow' = slow /\ when' = [when EXCEPT ![q] = now]
    BY <1>4, SpendCases
  <2>2. PICK answer : verdict' = [verdict EXCEPT ![q] = answer]
    BY <1>4, SpendCases
  <2>3. verdict[q] = "none"
    BY <2>1, FetchedBucket
  <2> QED
    BY <1>1, <2>1, <2>2, <2>3 DEF LimitTypes
<1>5. ASSUME NEW l \in Enabled, Evict(l)
      PROVE  verdict' = verdict /\ when' = when /\ slow' = slow
  BY <1>5, EvictCases
<1>6. CASE Pass
  BY <1>6 DEF Pass, Tick, Waiting
<1> QED
  BY <1>2, <1>3, <1>4, <1>5, <1>6, NextSteps, ElsewhereSteps DEF vars

\* Only asking a bucket brings a verdict, now.
LEMMA VerdictIsNew ==
  ASSUME BucketInv, [Next]_vars, NEW r \in Requests, verdict[r] = "none", verdict'[r] # "none"
  PROVE  Spend(r) /\ when'[r] = now /\ now' = now /\ slow' = slow
<1>1. LimitTypes
  BY BucketTypes
<1>2. verdict' # verdict
  OBVIOUS
<1>3. PICK q \in Requests : Spend(q)
  BY <1>2, NextSteps, ElsewhereSteps, FetchCases, EvictCases DEF Pass, Tick, vars, limits
<1>4. PICK answer : verdict' = [verdict EXCEPT ![q] = answer]
  BY <1>3, SpendCases
<1>5. q = r
  BY <1>1, <1>4 DEF LimitTypes
<1>6. when' = [when EXCEPT ![r] = now] /\ now' = now /\ slow' = slow
  BY <1>3, <1>5, SpendCases
<1> QED
  BY <1>1, <1>3, <1>5, <1>6 DEF LimitTypes

LEMMA TimeGoesOn ==
  ASSUME BucketInv, [Next]_vars
  PROVE  now' = now \/ now' = now + 1
BY NextSteps, ElsewhereSteps, FetchCases, SpendCases, EvictCases DEF Pass, Tick, vars, limits

LEMMA TimeStep ==
  ASSUME BucketInv, TimeInv, [Next]_vars
  PROVE  TimeInv'
<1> SUFFICES ASSUME NEW r \in Requests, verdict'[r] # "none" PROVE when'[r] <= now'
  BY DEF TimeInv
<1>1. now \in Nat /\ LimitTypes
  BY BucketTypes
<1>2. CASE verdict[r] = "none"
  BY <1>1, <1>2, VerdictIsNew
<1>3. CASE verdict[r] # "none"
  <2>1. when'[r] = when[r] /\ when[r] <= now /\ when[r] \in Nat
    BY <1>1, <1>3, VerdictStands DEF TimeInv, LimitTypes
  <2> QED
    BY <1>1, <2>1, TimeGoesOn
<1> QED
  BY <1>2, <1>3

-----------------------------------------------------------------------------
\* What each step does to the credit of an account.

\* Nobody who is not slow passes on the account's credit.
Quiet(a) ==
  /\ now' = now /\ Credit(a)' <= Credit(a)
  /\ \A r \in Limited \ slow' :
       Account(r) = a /\ verdict[r] = "none" => verdict'[r] # "pass"

Grows(a) == now' = now + 1 /\ verdict' = verdict /\ Credit(a)' <= Credit(a) + 1

Pays(a) ==
  /\ now' = now /\ Credit(a)' = Credit(a) - Price(a)
  /\ \E r \in Limited \ slow :
       /\ Account(r) = a /\ verdict[r] = "none" /\ slow' = slow
       /\ verdict' = [verdict EXCEPT ![r] = "pass"] /\ when' = [when EXCEPT ![r] = now]

Forgets(a) ==
  now' = now /\ verdict' = verdict /\ table[a] # NoBucket /\ seen[a] + MaxIdle < now

LEMMA SpendEffect ==
  ASSUME PromptInv, NEW r \in Requests, Spend(r), NEW a \in Accounts
  PROVE  Quiet(a) \/ Pays(a)
<1>1. /\ BucketInv /\ LimitTypes /\ phase[r] = "fetched" /\ now' = now /\ slow' = slow
      /\ when' = [when EXCEPT ![r] = now]
  BY BucketTypes, SpendCases DEF PromptInv
<1>2. PICK answer : verdict' = [verdict EXCEPT ![r] = answer]
  BY <1>1, SpendCases
<1>3. /\ r \in Limited /\ verdict[r] = "none" /\ Account(bucket[r]) = Account(r)
      /\ bucket[r] # NoBucket
  BY <1>1, FetchedBucket
<1>4. \A q \in Limited : q # r => verdict'[q] = verdict[q]
  BY <1>1, <1>2, SameAccount DEF LimitTypes
<1>5. Credit(a) \in Nat /\ Price(a) \in Nat
  BY <1>1, CreditBounds, BucketSizes
<1>6. CASE table[a] # bucket[r]
  <2>1. Credit(a)' = Credit(a)
    BY <1>1, <1>6, SpendElsewhere
  <2>2. Account(r) = a => r \in slow
    BY <1>1, <1>6, PromptBucket
  <2> QED
    BY <1>1, <1>4, <1>5, <2>1, <2>2 DEF Quiet
<1>7. CASE table[a] = bucket[r]
  <2>1. Account(r) = a
    BY <1>1, <1>3, <1>7, TableBucket
  <2>2. \/ Credit(a)' = Credit(a) - Price(a) /\ verdict' = [verdict EXCEPT ![r] = "pass"]
        \/ Credit(a)' = Credit(a) /\ verdict' = [verdict EXCEPT ![r] = "reject"]
    BY <1>1, <1>7, <2>1, SpendPays
  <2>3. CASE r \in slow \/ verdict' = [verdict EXCEPT ![r] = "reject"]
    <3>1. Credit(a)' <= Credit(a)
      BY <1>5, <2>2
    <3>2. verdict' = [verdict EXCEPT ![r] = "reject"] => verdict'[r] = "reject"
      BY <1>1 DEF LimitTypes
    <3> QED
      BY <1>1, <1>4, <2>3, <3>1, <3>2 DEF Quiet
  <2>4. CASE r \notin slow /\ verdict' # [verdict EXCEPT ![r] = "reject"]
    BY <1>1, <1>3, <2>1, <2>2, <2>4 DEF Pays
  <2> QED
    BY <2>3, <2>4
<1> QED
  BY <1>6, <1>7

LEMMA CreditGrows ==
  ASSUME BucketInv, Pass, NEW a \in Accounts
  PROVE  Grows(a)
<1>1. now' = now + 1 /\ verdict' = verdict
  BY DEF Pass, Tick
<1>2. [c \in Accounts |-> Credit(c)]'
        = [c \in Accounts |-> IF Credit(c) < Full(c) THEN Credit(c) + 1 ELSE Full(c)]
  BY PassRefills, IdealAccounts DEF Ideal!Refill
<1>3. [c \in Accounts |-> Credit(c)]'[a] = Credit(a)'
  OBVIOUS
<1>4. Credit(a)' = IF Credit(a) < Full(a) THEN Credit(a) + 1 ELSE Full(a)
  BY <1>2, <1>3
<1>5. Credit(a) \in Nat /\ Credit(a) <= Full(a) /\ Full(a) \in Nat
  BY CreditBounds, BucketSizes
<1> QED
  BY <1>1, <1>4, <1>5 DEF Grows

LEMMA StepEffects ==
  ASSUME PromptInv, [Next]_vars, NEW a \in Accounts
  PROVE  Quiet(a) \/ Grows(a) \/ Pays(a) \/ Forgets(a)
<1>1. BucketInv /\ Credit(a) \in Nat
  BY CreditBounds DEF PromptInv
<1>2. CASE UNCHANGED limits
  <2>1. Credit(a)' = Credit(a) /\ now' = now /\ verdict' = verdict
    BY <1>2 DEF limits, Credit, Refilled, Full
  <2> QED
    BY <1>1, <2>1 DEF Quiet
<1>3. ASSUME NEW r \in Requests, Fetch(r) PROVE Quiet(a)
  <2>1. Credit(a)' = Credit(a) /\ now' = now /\ verdict' = verdict
    BY <1>1, <1>3, FetchCases, FetchKeepsCredit
  <2> QED
    BY <1>1, <2>1 DEF Quiet
<1>4. ASSUME NEW l \in Enabled, Evict(l) PROVE Quiet(a) \/ Forgets(a)
  <2>1. UNCHANGED <<now, verdict, level, asof>>
    BY <1>1, <1>4, EvictCases
  <2>2. CASE table'[a] = table[a]
    <3>1. Credit(a)' = Credit(a)
      BY <2>1, <2>2 DEF Credit, Refilled, Full
    <3> QED
      BY <1>1, <2>1, <3>1 DEF Quiet
  <2>3. CASE table'[a] # table[a]
    BY <1>1, <1>4, <2>1, <2>3, EvictCases DEF Forgets
  <2> QED
    BY <2>2, <2>3
<1>5. CASE Pass
  BY <1>1, <1>5, CreditGrows
<1> QED
  BY <1>1, <1>2, <1>3, <1>4, <1>5, SpendEffect, NextSteps, ElsewhereSteps DEF vars

-----------------------------------------------------------------------------
\* What has passed and what is left.

\* What an account has passed in some time, slow requests aside.
Prompted(a, from, upto) == {r \in Passed(a, from) \ slow : when[r] <= upto}

\* Nobody can spend what was left in the past.
Left(a, upto) == IF upto = now THEN Credit(a) ELSE 0

\* What passed in a time, and what is left, was there before or has been added.
SpentInv ==
  \A a \in Accounts : \A upto \in 0 .. now : \A from \in 0 .. upto :
    Cardinality(Prompted(a, from, upto)) * Price(a) + Left(a, upto) <= Full(a) + (upto - from)

\* A bucket that is in the table has been seen since it last let one pass.
LastInv ==
  \A r \in Limited \ slow :
    verdict[r] = "pass" /\ table[Account(r)] # NoBucket =>
      when[r] <= seen[Account(r)] + MaxPause

LEMMA PromptedFinite ==
  ASSUME NEW a, NEW from, NEW upto
  PROVE  /\ IsFiniteSet(Prompted(a, from, upto))
         /\ Cardinality(Prompted(a, from, upto)) \in Nat
<1>1. Prompted(a, from, upto) \subseteq Requests
  BY AccountFacts DEF Prompted, Passed
<1> QED
  BY <1>1, RequestAssumption, FS_Subset, FS_CardinalityType

\* It stays as it was unless one more passes in that time.
LEMMA PromptedKept ==
  ASSUME BucketInv, [Next]_vars, NEW a, NEW from, NEW upto,
         \A r \in Limited \ slow' :
           Account(r) = a /\ verdict[r] = "none" /\ verdict'[r] = "pass" => ~(when'[r] <= upto)
  PROVE  Prompted(a, from, upto)' = Prompted(a, from, upto)
<1>1. ASSUME NEW r \in Limited
      PROVE  r \in Prompted(a, from, upto)' <=> r \in Prompted(a, from, upto)
  <2>1. r \in Requests /\ Account(r)' = Account(r)
    BY SameAccount
  <2>2. /\ r \in Prompted(a, from, upto) <=>
             (/\ Account(r) = a /\ verdict[r] = "pass" /\ r \notin slow
              /\ when[r] >= from /\ when[r] <= upto)
        /\ r \in Prompted(a, from, upto)' <=>
             (/\ Account(r) = a /\ verdict'[r] = "pass" /\ r \notin slow'
              /\ when'[r] >= from /\ when'[r] <= upto)
    BY <2>1 DEF Prompted, Passed
  <2>3. CASE verdict[r] = "none"
    BY <2>2, <2>3
  <2>4. CASE verdict[r] # "none"
    BY <2>1, <2>2, <2>4, VerdictStands
  <2> QED
    BY <2>3, <2>4
<1>2. Prompted(a, from, upto) \subseteq Limited /\ Prompted(a, from, upto)' \subseteq Limited
  BY DEF Prompted, Passed
<1> QED
  BY <1>1, <1>2

LEMMA InitSpent == Init => TimeInv /\ SpentInv /\ LastInv
<1> SUFFICES ASSUME Init PROVE TimeInv /\ SpentInv /\ LastInv
  OBVIOUS
<1>1. TimeInv /\ LastInv
  BY AccountFacts DEF Init, LimitInit, TimeInv, LastInv
<1>2. ASSUME NEW a \in Accounts, NEW upto \in 0 .. now, NEW from \in 0 .. upto
      PROVE  Cardinality(Prompted(a, from, upto)) * Price(a) + Left(a, upto)
               <= Full(a) + (upto - from)
  <2>1. Prompted(a, from, upto) = {}
    BY AccountFacts DEF Init, LimitInit, Prompted, Passed
  <2>2. Cardinality(Prompted(a, from, upto)) = 0
    BY <2>1, FS_EmptySet
  <2>3. now = 0 /\ upto = 0 /\ from = 0 /\ Left(a, upto) = Full(a)
    BY DEF Init, LimitInit, Left, Credit
  <2>4. Full(a) \in Nat /\ Price(a) \in Nat
    BY BucketSizes
  <2> QED
    BY <2>2, <2>3, <2>4
<1> QED
  BY <1>1, <1>2 DEF SpentInv

LEMMA LastStep ==
  ASSUME PromptInv, TimeInv, LastInv, [Next]_vars
  PROVE  LastInv'
<1>1. BucketInv /\ LimitTypes /\ now \in Nat /\ MaxPause \in Nat
  BY BucketTypes DEF PromptInv
<1> SUFFICES ASSUME NEW r \in Limited \ slow', verdict'[r] = "pass",
                    table'[Account(r)] # NoBucket
             PROVE  when'[r] <= seen'[Account(r)] + MaxPause
  BY SameAccount DEF LastInv
<1> DEFINE a == Account(r)
<1>2. r \in Requests /\ a \in Accounts /\ r \notin slow
  BY <1>1, SameAccount, SlowStays
<1>3. CASE verdict[r] = "none"
  <2>1. Spend(r) /\ when'[r] = now
    BY <1>1, <1>2, <1>3, VerdictIsNew
  <2>2. phase[r] = "fetched" /\ seen' = seen
    BY <1>1, <1>2, <2>1, SpendCases
  <2> QED
    BY <1>2, <2>1, <2>2, PromptBucket
<1>4. CASE verdict[r] # "none"
  <2>1. /\ verdict[r] = "pass" /\ when'[r] = when[r] /\ when[r] <= now /\ when[r] \in Nat
        /\ seen[a] \in Nat
    BY <1>1, <1>2, <1>4, VerdictStands DEF TimeInv, LimitTypes
  <2>2. CASE seen'[a] = now
    BY <1>1, <2>1, <2>2
  <2>3. CASE seen'[a] = seen[a] /\ table'[a] = table[a]
    BY <1>2, <2>1, <2>3 DEF LastInv
  <2>4. ASSUME NEW q \in Requests, Fetch(q)
        PROVE  seen'[a] = now \/ (seen'[a] = seen[a] /\ table'[a] = table[a])
    <3>1. seen' = [seen EXCEPT ![Account(q)] = now] /\ Account(q) \in Accounts
      BY <1>1, <2>4, FetchCases
    <3>2. table' = table \/ \E x : table' = [table EXCEPT ![Account(q)] = x]
      BY <1>1, <2>4, FetchCases
    <3> QED
      BY <1>1, <1>2, <3>1, <3>2 DEF LimitTypes
  <2>5. ASSUME NEW l \in Enabled, Evict(l) PROVE seen'[a] = seen[a] /\ table'[a] = table[a]
    BY <1>1, <1>2, <2>5, EvictCases
  <2>6. ASSUME NEW q \in Requests, Spend(q) PROVE seen'[a] = seen[a] /\ table'[a] = table[a]
    BY <1>1, <2>6, SpendCases
  <2>7. CASE Pass
    BY <2>3, <2>7 DEF Pass, Tick
  <2>8. CASE UNCHANGED limits
    BY <2>3, <2>8 DEF limits
  <2> QED
    BY <1>1, <2>2, <2>3, <2>4, <2>5, <2>6, <2>7, <2>8, NextSteps, ElsewhereSteps DEF vars
<1> QED
  BY <1>3, <1>4

\* With products as a whole.
Spent(a, from, upto) == Cardinality(Prompted(a, from, upto)) * Price(a)

LEMMA SpentTypes ==
  ASSUME BucketInv, NEW a \in Accounts, NEW from, NEW upto
  PROVE  /\ Spent(a, from, upto) \in Nat /\ Left(a, upto) \in Nat
         /\ Full(a) \in Nat /\ Price(a) \in Nat /\ Credit(a) \in Nat /\ Credit(a) <= Full(a)
         /\ Prompted(a, from, upto) = {} => Spent(a, from, upto) = 0
<1>1. Full(a) \in Nat /\ Price(a) \in Nat /\ Credit(a) \in Nat /\ Credit(a) <= Full(a)
  BY BucketSizes, CreditBounds
<1>2. Spent(a, from, upto) \in Nat
  BY <1>1, PromptedFinite, OneTokenMore DEF Spent
<1>3. Prompted(a, from, upto) = {} => Cardinality(Prompted(a, from, upto)) = 0
  BY FS_EmptySet
<1> QED
  BY <1>1, <1>2, <1>3 DEF Left, Spent

LEMMA SpentBefore ==
  ASSUME SpentInv, NEW a \in Accounts, NEW upto \in 0 .. now, NEW from \in 0 .. upto
  PROVE  Spent(a, from, upto) + Left(a, upto) <= Full(a) + (upto - from)
BY DEF SpentInv, Spent

\* What passed until now was prompt: a bucket that is evicted has been idle since.
LEMMA ForgottenIsOld ==
  ASSUME PromptInv, IdleIsLong, SpentInv, LastInv, NEW a \in Accounts, Forgets(a),
         NEW from \in 0 .. now
  PROVE  Spent(a, from, now) <= now - from
<1> DEFINE u == seen[a] + MaxPause
<1>1. BucketInv /\ now \in Nat /\ MaxPause \in Nat /\ MaxIdle \in Nat /\ seen[a] \in Nat
  BY BucketTypes DEF PromptInv, LimitTypes
<1>2. Full(a) \in Nat /\ MaxPause + Full(a) <= MaxIdle
  BY BucketSizes, LongIdle
<1>3. u \in Nat /\ u + Full(a) < now /\ u <= now
  BY <1>1, <1>2 DEF Forgets
<1>4. \A r \in Prompted(a, from, now) : when[r] <= u /\ when[r] >= from /\ when[r] \in Nat
  BY AccountFacts, <1>1, BucketTypes DEF Prompted, Passed, LastInv, Forgets, LimitTypes
<1> HIDE DEF u
<1>5. CASE from <= u
  <2>1. Prompted(a, from, now) = Prompted(a, from, u)
    <3>1. \A r \in Prompted(a, from, u) : when[r] <= now
      <4>1. \A r \in Prompted(a, from, u) : when[r] <= u /\ when[r] \in Nat
        BY AccountFacts, <1>1, BucketTypes DEF Prompted, Passed, LimitTypes
      <4> QED
        BY <1>1, <1>3, <4>1
    <3> QED
      BY <1>4, <3>1 DEF Prompted
  <2>2. Spent(a, from, u) + Left(a, u) <= Full(a) + (u - from)
    BY <1>1, <1>3, <1>5, SpentBefore
  <2>3. Spent(a, from, now) = Spent(a, from, u)
    BY <2>1 DEF Spent
  <2>4. Spent(a, from, u) \in Nat /\ Left(a, u) \in Nat
    BY <1>1, SpentTypes
  <2> QED
    BY <1>1, <1>2, <1>3, <2>2, <2>3, <2>4
<1>6. CASE ~(from <= u)
  <2>1. Prompted(a, from, now) = {}
    BY <1>1, <1>3, <1>4, <1>6
  <2> QED
    BY <1>1, <2>1, SpentTypes
<1> QED
  BY <1>5, <1>6

\* The bounds of credits, to be carried over a step.
CreditInv == \A a \in Accounts : Credit(a) \in Nat /\ Credit(a) <= Full(a)

LEMMA CreditInvAfter == BucketInv' => CreditInv'
<1>1. BucketInv => CreditInv
  BY CreditBounds DEF CreditInv
<1> QED
  BY <1>1, PTL

LEMMA SpentStep ==
  ASSUME PromptInv, PromptInv', IdleIsLong, TimeInv, SpentInv, LastInv, [Next]_vars
  PROVE  SpentInv'
<1> SUFFICES ASSUME NEW a \in Accounts, NEW upto \in 0 .. now', NEW from \in 0 .. upto
             PROVE  Spent(a, from, upto)' + Left(a, upto)' <= Full(a) + (upto - from)
  BY SameSizes DEF SpentInv, Spent
<1>1. BucketInv /\ BucketInv' /\ now \in Nat /\ now' \in Nat
  BY BucketTypes DEF PromptInv, BucketInv, Inv, TypeInv, TypeOK, LimitTypes
<1>2. /\ Full(a) \in Nat /\ Price(a) \in Nat /\ Credit(a) \in Nat /\ Left(a, upto) \in Nat
      /\ Spent(a, from, upto) \in Nat
  BY <1>1, SpentTypes
<1>3. Credit(a)' \in Nat /\ Credit(a)' <= Full(a)
  BY <1>1, CreditInvAfter, SameSizes DEF CreditInv
<1>4. Prompted(a, from, upto)' = Prompted(a, from, upto)
        => Spent(a, from, upto)' = Spent(a, from, upto)
  BY SameSizes DEF Spent
<1>5. CASE upto # now'
  <2>1. upto < now' /\ upto \in 0 .. now /\ Left(a, upto)' = 0
    BY <1>1, <1>5, TimeGoesOn DEF Left
  <2>2. Prompted(a, from, upto)' = Prompted(a, from, upto)
    <3>1. ASSUME NEW r \in Limited, verdict[r] = "none", verdict'[r] = "pass"
          PROVE  ~(when'[r] <= upto)
      BY <1>1, <2>1, <3>1, SameAccount, VerdictIsNew
    <3> QED
      BY <1>1, <3>1, PromptedKept
  <2> QED
    BY <1>2, <1>4, <2>1, <2>2, SpentBefore
<1>6. CASE upto = now'
  <2>1. Left(a, upto)' = Credit(a)'
    BY <1>6 DEF Left
  <2>2. ASSUME now' = now
        PROVE  Left(a, upto) = Credit(a) /\ Spent(a, from, upto) + Credit(a) <= Full(a) + (upto - from)
    BY <1>6, <2>2, SpentBefore DEF Left
  <2>3. CASE Quiet(a)
    <3>1. Prompted(a, from, upto)' = Prompted(a, from, upto)
      BY <1>1, <2>3, PromptedKept DEF Quiet
    <3> QED
      BY <1>2, <1>3, <1>4, <2>1, <2>2, <2>3, <3>1 DEF Quiet
  <2>4. CASE Grows(a)
    <3>1. now' = now + 1 /\ Credit(a)' <= Credit(a) + 1
      BY <2>4 DEF Grows
    <3>2. Spent(a, from, upto)' = Spent(a, from, upto)
      BY <1>1, <1>4, <2>4, PromptedKept DEF Grows
    <3>3. \A r \in Prompted(a, from, upto) : when[r] <= now /\ when[r] >= from /\ when[r] \in Nat
      BY AccountFacts, <1>1, BucketTypes DEF Prompted, Passed, TimeInv, LimitTypes
    <3>4. CASE from = upto
      <4>1. Prompted(a, from, upto) = {}
        BY <1>1, <1>6, <3>1, <3>3, <3>4
      <4> QED
        BY <1>1, <1>2, <1>3, <2>1, <3>2, <3>4, <4>1, SpentTypes
    <3>5. CASE from # upto
      <4>1. Prompted(a, from, upto) = Prompted(a, from, now)
        <5>1. \A r \in Prompted(a, from, now) : when[r] <= upto
          <6>1. \A r \in Prompted(a, from, now) : when[r] <= now /\ when[r] \in Nat
            BY AccountFacts, <1>1, BucketTypes DEF Prompted, Passed, LimitTypes
          <6> QED
            BY <1>1, <1>6, <3>1, <6>1
        <5> QED
          BY <3>3, <5>1 DEF Prompted
      <4>2. Spent(a, from, upto) = Spent(a, from, now)
        BY <4>1 DEF Spent
      <4>3. Spent(a, from, now) + Left(a, now) <= Full(a) + (now - from) /\ Left(a, now) = Credit(a)
        BY <1>1, <1>6, <3>1, <3>5, SpentBefore DEF Left
      <4> QED
        BY <1>1, <1>2, <1>3, <1>6, <2>1, <3>1, <3>2, <4>2, <4>3
    <3> QED
      BY <3>4, <3>5
  <2>5. CASE Pays(a)
    <3>1. PICK r \in Limited \ slow :
            /\ Account(r) = a /\ verdict[r] = "none" /\ slow' = slow
            /\ verdict' = [verdict EXCEPT ![r] = "pass"] /\ when' = [when EXCEPT ![r] = now]
      BY <2>5 DEF Pays
    <3>2. now' = now /\ Credit(a)' = Credit(a) - Price(a)
      BY <2>5 DEF Pays
    <3>3. /\ r \in Requests /\ verdict'[r] = "pass" /\ when'[r] = now
          /\ \A q \in Limited : q # r => verdict'[q] = verdict[q] /\ when'[q] = when[q]
      BY <1>1, <3>1, SameAccount, BucketTypes DEF LimitTypes
    <3>4. Prompted(a, from, upto)' = Prompted(a, from, upto) \cup {r}
      <4>1. ASSUME NEW q \in Limited
            PROVE  q \in Prompted(a, from, upto)' <=> q \in Prompted(a, from, upto) \cup {r}
        <5>1. Account(q)' = Account(q)
          BY SameAccount
        <5>2. CASE q = r
          BY <1>1, <1>6, <3>1, <3>2, <3>3, <5>1, <5>2 DEF Prompted, Passed
        <5>3. CASE q # r
          BY <3>1, <3>3, <5>1, <5>3 DEF Prompted, Passed
        <5> QED
          BY <5>2, <5>3
      <4>2. Prompted(a, from, upto) \subseteq Limited /\ Prompted(a, from, upto)' \subseteq Limited
        BY DEF Prompted, Passed
      <4> QED
        BY <3>1, <4>1, <4>2
    <3>5. r \notin Prompted(a, from, upto)
      BY <3>1 DEF Prompted, Passed
    <3>6. Cardinality(Prompted(a, from, upto)') = Cardinality(Prompted(a, from, upto)) + 1
      BY <3>4, <3>5, PromptedFinite, FS_AddElement
    <3>7. Spent(a, from, upto)' = Spent(a, from, upto) + Price(a)
      BY <1>2, <3>6, PromptedFinite, OneTokenMore, SameSizes DEF Spent
    <3> QED
      BY <1>1, <1>2, <1>6, <2>1, <2>2, <3>2, <3>7
  <2>6. CASE Forgets(a)
    <3>1. now' = now
      BY <2>6 DEF Forgets
    <3>2. Spent(a, from, upto)' = Spent(a, from, upto)
      BY <1>1, <1>4, <2>6, PromptedKept DEF Forgets
    <3>3. Spent(a, from, upto) <= now - from
      BY <1>6, <2>6, <3>1, ForgottenIsOld
    <3> QED
      BY <1>1, <1>2, <1>3, <1>6, <2>1, <3>1, <3>2, <3>3
  <2> QED
    BY <2>3, <2>4, <2>5, <2>6, StepEffects
<1> QED
  BY <1>5, <1>6

RateInv == PromptInv /\ TimeInv /\ SpentInv /\ LastInv

\* RateLimitMiddleware: since any time, no account has passed more than its burst
\* and what the rate has added, however its bucket is evicted and made anew, for any
\* number of clients, rate and burst: if an idle bucket lasts longer than it takes to
\* fill up, and except for requests that were slow, each of which passes itself.
THEOREM RateIsNeverExceeded ==
  ASSUME IdleIsLong
  PROVE  Spec => []RateIsKept
<1>1. Init => RateInv
  BY InitInv, InitBuckets, InitPrompt, InitSpent DEF RateInv, PromptInv, BucketInv
<1>2. RateInv /\ [Next]_vars => RateInv'
  <2> SUFFICES ASSUME RateInv, [Next]_vars PROVE RateInv'
    OBVIOUS
  <2>1. PromptInv'
    BY NextPrompt DEF RateInv
  <2>2. TimeInv' /\ LastInv'
    BY TimeStep, LastStep DEF RateInv, PromptInv
  <2> QED
    BY <2>1, <2>2, SpentStep DEF RateInv
<1>3. RateInv => RateIsKept
  <2> SUFFICES ASSUME RateInv, NEW a \in Accounts, NEW from \in 0 .. now
               PROVE  Cardinality(Passed(a, from) \ slow) * Price(a) <= Full(a) + (now - from)
    BY DEF RateIsKept
  <2>1. BucketInv /\ now \in Nat
    BY BucketTypes DEF RateInv, PromptInv
  <2>2. Passed(a, from) \ slow = Prompted(a, from, now)
    BY AccountFacts DEF RateInv, TimeInv, Prompted, Passed
  <2>3. Spent(a, from, now) + Left(a, now) <= Full(a) + (now - from)
    BY <2>1, SpentBefore DEF RateInv
  <2>4. Spent(a, from, now) <= Full(a) + (now - from)
    BY <2>1, <2>3, SpentTypes
  <2> QED
    BY <2>2, <2>4 DEF Spent
<1> QED
  BY <1>1, <1>2, <1>3, PTL DEF Spec

-----------------------------------------------------------------------------
\* The wait that Retry-After asks for, on whatever bucket a request holds.

\* A bucket is full, or was last used by a request that passed.
UseInv ==
  \A b \in Limited : bucket[b] = b =>
    \/ level[b] = Full(Account(b))
    \/ \E q \in Limited : Account(q) = Account(b) /\ verdict[q] = "pass" /\ when[q] = asof[b]

LEMMA InitAdvice == Init => TimeInv /\ UseInv /\ AdviceSuffices
BY SameAccount, BucketTypes, RequestAssumption
DEF Init, LimitInit, TimeInv, UseInv, AdviceSuffices, Limited

LEMMA UseStep ==
  ASSUME BucketInv, UseInv, [Next]_vars
  PROVE  UseInv'
<1>1. LimitTypes /\ \A b \in Limited : b \in Requests /\ b # NoBucket
  BY BucketTypes
<1>2. ASSUME NEW b \in Limited, bucket[b] = b, level'[b] = level[b], asof'[b] = asof[b]
      PROVE  \/ level'[b] = Full(Account(b))
             \/ \E q \in Limited :
                  Account(q) = Account(b) /\ verdict'[q] = "pass" /\ when'[q] = asof'[b]
  <2>1. CASE level[b] = Full(Account(b))
    BY <1>2, <2>1
  <2>2. ASSUME NEW q \in Limited, verdict[q] = "pass"
        PROVE  verdict'[q] = "pass" /\ when'[q] = when[q]
    BY <1>1, <2>2, VerdictStands
  <2> QED
    BY <1>2, <2>1, <2>2 DEF UseInv
<1> SUFFICES ASSUME NEW b \in Limited, bucket'[b] = b
             PROVE  \/ level'[b] = Full(Account(b))
                    \/ \E q \in Limited :
                         Account(q) = Account(b) /\ verdict'[q] = "pass" /\ when'[q] = asof'[b]
  BY SameAccount, SameSizes DEF UseInv
<1>3. CASE UNCHANGED <<bucket, level, asof>>
  BY <1>2, <1>3
<1>4. ASSUME NEW r \in Requests, Fetch(r)
      PROVE  \/ level'[b] = Full(Account(b))
             \/ bucket[b] = b /\ level'[b] = level[b] /\ asof'[b] = asof[b]
  <2>1. r \in Limited /\ \A c \in Accounts : table[c] # r
    BY <1>4, FetchCases
  <2>2. CASE b = r
    <3>1. table[Account(r)] # r /\ r \in Requests
      BY <1>1, <2>1, SameAccount
    <3>2. bucket' # [bucket EXCEPT ![r] = table[Account(r)]]
      BY <1>1, <2>2, <3>1 DEF LimitTypes
    <3>3. level' = [level EXCEPT ![r] = Full(Account(r))]
      BY <1>4, <3>2, FetchCases
    <3> QED
      BY <1>1, <2>2, <3>1, <3>3 DEF LimitTypes
  <2>3. CASE b # r
    BY <1>1, <1>4, <2>1, <2>3, FetchCases DEF LimitTypes
  <2> QED
    BY <2>2, <2>3
<1>5. ASSUME NEW r \in Requests, Spend(r)
      PROVE  \/ bucket[b] = b /\ level'[b] = level[b] /\ asof'[b] = asof[b]
             \/ Account(r) = Account(b) /\ verdict'[r] = "pass" /\ when'[r] = asof'[b] /\ r \in Limited
  <2>1. /\ phase[r] = "fetched" /\ bucket' = bucket /\ when' = [when EXCEPT ![r] = now]
        /\ \/ UNCHANGED <<level, asof>>
           \/ /\ verdict' = [verdict EXCEPT ![r] = "pass"]
              /\ asof' = [asof EXCEPT ![bucket[r]] = now]
              /\ \E x : level' = [level EXCEPT ![bucket[r]] = x]
    BY <1>5, SpendCases
  <2>2. r \in Limited /\ bucket[r] \in Requests /\ Account(bucket[r]) = Account(r)
    BY <2>1, FetchedBucket
  <2>3. CASE b = bucket[r]
    BY <1>1, <2>1, <2>2, <2>3 DEF LimitTypes
  <2>4. CASE b # bucket[r]
    BY <1>1, <2>1, <2>2, <2>4 DEF LimitTypes
  <2> QED
    BY <2>3, <2>4
<1>6. ASSUME NEW l \in Enabled, Evict(l) PROVE UNCHANGED <<bucket, level, asof>>
  BY <1>6, EvictCases
<1> QED
  BY <1>2, <1>3, <1>4, <1>5, <1>6, NextSteps, ElsewhereSteps DEF Pass, Tick, vars, limits

\* The wait brings more than the price of a token.
LEMMA AdviceWait ==
  ASSUME NEW r \in Limited
  PROVE  /\ RetryAfter(r) * Second \in Nat
         /\ RetryAfter(r) * Second > Price(Account(r))
         /\ RetryAfter(r) * Second > 0
<1>1. Price(Account(r)) \in Nat
  BY SameAccount, BucketSizes
<1>2. RetryAfter(r) = Price(Account(r)) \div Second + 1
  BY DEF RetryAfter, Price, Account
<1>3. Second \in Nat \ {0}
  BY RateAssumption
<1> HIDE DEF RetryAfter
<1>4. /\ (Price(Account(r)) \div Second + 1) * Second > Price(Account(r))
      /\ (Price(Account(r)) \div Second + 1) * Second \in Nat
  BY <1>1, <1>3, AdviceIsLonger
<1> QED
  BY <1>1, <1>2, <1>4

\* A bucket that cannot pay has been used less than that ago.
LEMMA RejectedSoonAfter ==
  ASSUME BucketInv, UseInv, NEW s \in Requests, Spend(s), verdict'[s] = "reject"
  PROVE  \E q \in Limited :
           /\ Account(q) = Account(s) /\ verdict[q] = "pass"
           /\ when[q] <= now /\ now - when[q] < Price(Account(s))
<1> DEFINE b == bucket[s]
           a == Account(s)
           available == Refilled(level[b], asof[b], Full(a))
<1>1. phase[s] = "fetched" /\ LimitTypes /\ now \in Nat
  BY SpendCases, BucketTypes
<1>2. /\ s \in Limited /\ a \in Accounts /\ b \in Limited /\ b \in Requests
      /\ Account(b) = a /\ bucket[b] = b /\ asof[b] <= now
      /\ level[b] \in Nat /\ asof[b] \in Nat
  BY <1>1, FetchedBucket DEF LimitTypes
<1>3. available < Price(a)
  BY <1>1, SpendCases DEF LimitTypes
<1>4. Full(a) \in Nat /\ Price(a) \in Nat /\ Price(a) <= Full(a)
  BY <1>2, BucketSizes
<1>5. level[b] + (now - asof[b]) < Price(a)
  BY <1>1, <1>2, <1>3, <1>4 DEF Refilled
<1>6. level[b] # Full(a)
  BY <1>1, <1>2, <1>4, <1>5
<1>7. PICK q \in Limited : Account(q) = a /\ verdict[q] = "pass" /\ when[q] = asof[b]
  BY <1>2, <1>6 DEF UseInv
<1> QED
  BY <1>1, <1>2, <1>4, <1>5, <1>7

LEMMA AdviceStep ==
  ASSUME BucketInv, TimeInv, UseInv, AdviceSuffices, [Next]_vars
  PROVE  AdviceSuffices'
<1> SUFFICES ASSUME NEW r \in Limited, NEW s \in Limited, NEW from, NEW upto,
                    Account(r) = Account(s), verdict'[r] = "reject", verdict'[s] = "reject",
                    when'[r] = from, when'[s] = upto, upto >= from + RetryAfter(r) * Second
             PROVE  \E q \in Passed(Account(r), from)' : when'[q] <= upto
  BY SameAccount, Zenon DEF AdviceSuffices
<1> DEFINE a == Account(r)
<1>1. /\ r \in Requests /\ s \in Requests /\ a \in Accounts /\ LimitTypes /\ now \in Nat
      /\ Price(a) \in Nat /\ now' \in Nat
      /\ RetryAfter(r) * Second \in Nat /\ RetryAfter(r) * Second > Price(a)
      /\ RetryAfter(r) * Second > 0
  BY SameAccount, BucketSizes, AdviceWait, BucketTypes, TimeGoesOn
<1>2. ASSUME NEW q \in Limited, Account(q) = a, verdict[q] = "pass", when[q] >= from
      PROVE  q \in Passed(a, from)' /\ when'[q] = when[q]
  BY <1>2, VerdictStands, SameAccount DEF Passed
<1>3. ASSUME NEW q \in Requests, verdict[q] # "none"
      PROVE  verdict[q] = verdict'[q] /\ when[q] = when'[q] /\ when[q] <= now /\ when[q] \in Nat
  BY <1>1, <1>3, VerdictStands DEF TimeInv, LimitTypes
<1>4. ASSUME NEW q \in Requests, verdict[q] = "none", verdict'[q] = "reject"
      PROVE  Spend(q) /\ when'[q] = now
  BY <1>4, VerdictIsNew
<1>5. verdict[r] # "none"
  <2> SUFFICES ASSUME verdict[r] = "none" PROVE FALSE
    OBVIOUS
  <2>1. from = now
    BY <1>1, <1>4
  <2>2. upto <= now /\ upto \in Nat
    BY <1>1, <1>3, <1>4
  <2> QED
    BY <1>1, <2>1, <2>2
<1>6. verdict[r] = "reject" /\ when[r] = from /\ from \in Nat
  BY <1>1, <1>3, <1>5
<1>7. CASE verdict[s] # "none"
  <2>1. verdict[s] = "reject" /\ when[s] = upto
    BY <1>1, <1>3, <1>7
  <2>2. PICK q \in Passed(a, from) : when[q] <= upto
    BY <1>6, <2>1 DEF AdviceSuffices
  <2> QED
    BY <1>2, <2>2 DEF Passed
<1>8. CASE verdict[s] = "none"
  <2>1. Spend(s) /\ upto = now
    BY <1>1, <1>4, <1>8
  <2>2. PICK q \in Limited :
          /\ Account(q) = a /\ verdict[q] = "pass"
          /\ when[q] <= now /\ now - when[q] < Price(a)
    BY <1>1, <2>1, RejectedSoonAfter
  <2>3. when[q] \in Nat
    BY <1>1, <2>2, SameAccount DEF LimitTypes
  <2>4. when[q] >= from
    BY <1>1, <1>6, <2>1, <2>2, <2>3
  <2> QED
    BY <1>2, <2>1, <2>2, <2>4
<1> QED
  BY <1>7, <1>8

\* Wrap: a client that waits as long as its Retry-After says is not rejected
\* again unless it has spent a token in between, whatever is evicted when, for any
\* rate, burst and idle period.
THEOREM RetryAfterIsEnough == Spec => []AdviceSuffices
<1> DEFINE AdviceInv == BucketInv /\ TimeInv /\ UseInv /\ AdviceSuffices
<1>1. Init => AdviceInv
  BY InitInv, InitBuckets, InitAdvice DEF BucketInv
<1>2. AdviceInv /\ [Next]_vars => AdviceInv'
  BY NextBuckets, TimeStep, UseStep, AdviceStep
<1> QED
  BY <1>1, <1>2, PTL DEF Spec
=============================================================================
