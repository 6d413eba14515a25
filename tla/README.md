# A formal model of Hermez

Hermez is the audit-event API of an OpenStack cloud.  It answers queries on
CADF events kept in OpenSearch, and it lets a project turn on the delivery of
its data-plane events into an object-store container of its own
(`/v1/projects/{project_id}/dataplane-config`).  This directory holds a TLA+
model of it, the TLC runs that check the model on small instances, and proofs
checked by TLAPS.

Every definition is translated from the Go source.  `PROJECT.json` names, for
each definition, the lines it stands for (`map`); the lists there
(`components`, `hazards`, `findings`, `theorems`) are the index of this file.

## 1. Inventory

| Component | Source | State | Operations | Interacts with |
|---|---|---|---|---|
| dataplane-config handlers | `pkg/api/dataplane_config.go` | none of its own | GET, PUT, DELETE of a configuration | routing store, writer role, bucket, audit |
| writer role | `pkg/api/dataplane_writer_role.go` | `roleID` under `mu`, per process | `RoleID`, `ensureWriterRole`, `resolveAtStartup` | Keystone, with the service token and with the caller's |
| bucket | `pkg/api/dataplane_bucket.go` | none; the container is in the object store | HEAD, PUT, POST, probe PUT and DELETE | object store, with the caller's token |
| routing store | `pkg/routing/` | table `dataplane_config` | Get, Upsert, Delete, each one statement | Postgres; log-router reads the table |
| audit delivery | go-bits `audittools` | queue | Record | RabbitMQ |
| token validation, policy | `pkg/api/core.go`, gopherpolicy | cached tokens | `CheckToken`, `Require` | Keystone |
| service user, Keystone client | `pkg/identity/` | a token and its endpoints | role lookup, role check | Keystone |
| event queries | `pkg/api/events.go`, `pkg/hermes/` | none | list, download, details, attributes | storage, tenant scope |
| OpenSearch storage | `pkg/storage/` | client | searches of one index | OpenSearch |
| tenant scope | `events.go:getIndexID`, `storage/interface.go` | none | which index a token may read | policy |
| rate limiter | `pkg/api/middleware.go` | a limiter per client, under a mutex | `getLimiter`, `evictStale` | every request |
| server lifecycle | `pkg/api/server.go`, `main.go` | in-flight semaphore, `serverExited`, `shutdownDone` | admit, reject, shut down, drain | the process's signals, net/http |
| responses, version discovery | `pkg/api/core.go`, `util.go` | none | JSON answers | - |
| configuration | `main.go`, viper | read once | - | every component |
| log-router | not in this repository | - | reads the table, writes into containers | routing store, object store |

What is hard in it, and what makes each part correct:

* **dataplane-config handlers.**  A PUT that enables routing is a saga: look up
  a role, check it, assign it, HEAD, create, set the ACLs of a container, write
  and delete a probe, save a row, record an event.  Nothing is rolled back.
  Each of these is a remote call that may be refused, may not answer in time
  and *still be carried out later*, or may be cut off by the death of the
  process.  Several replicas run such sagas on one project at once, while the
  customer and the operator change the same container.  Correct means: an
  enabled row always names a container that log-router can write to; a request
  that was refused has changed nothing; the audit trail says what happened to
  the table; nothing that one enable leaves behind makes another fail; every
  request is answered.
* **writer role.**  A mutex is held across a remote call and must be released
  on each path; a failing lookup must leave the ID unknown rather than wrong.
  Who waits for the mutex does so at the cost of its own deadline, so here one
  enable can fail another; it must be the only place.  The role is in place
  before a container is created.
* **bucket.**  ACLs are read with one call and replaced with another, so what
  was written in between can be lost; the probe object is shared by concurrent
  enables; a container may belong to the operator until its handover.  No
  entry is removed; a migrated container is accepted before the handover; no
  probe stays behind without a reason.
* **routing store.**  Each operation is one SQL statement.  An error does not
  say whether the statement was committed.
* **event queries, storage.**  Pages are cut by offset from an index that grows
  meanwhile; OpenSearch has a window (`max_result_window`) and may answer with a
  part of them.  A page must never pass for complete when it is not, and
  following the links must visit each event once as long as nothing is added.
  A list of attribute values comes from an aggregation that is cut to a number
  of values, and the values are cut to a depth afterwards.
* **tenant scope.**  No token may read an index of another tenant unless the
  policy allows it.
* **rate limiter.**  A limiter is fetched under a mutex and used outside it;
  eviction runs in between, and could leave one client with two buckets.
  No client may pass more requests than its burst and its rate allow all the
  same, and a client that heeds Retry-After is not rejected again.
* **server lifecycle.**  Three goroutines and those of the requests run side by
  side.  A slot is given back whatever way a handler ends, a panic included; a
  shutdown drains the requests in flight, with a deadline; the goroutines of
  `Server` wait for each other and must not wait for ever.

## 2. Plan

1. *Done:* `Dataplane`, `WriterRole`, `Bucket`, `DataplaneConfig` and the
   abstract `ConfigRegister`; `DataplaneProperties`; runs for failures,
   retries, migration, refusals and liveness; proofs of the type invariant, the
   safety invariants and the implementation of the register.
2. *Done:* `EventQueries`: lists with their links, downloads, single events, the
   tenant scope, the window check and partial replies, over an index that grows
   and loses its oldest events; proofs of its types and of tenant isolation.
3. *Done:* `RateLimit` and `Server`, composed the way the middlewares wrap a
   request, and the abstract `TokenBucket`; proofs of all its safety properties
   and of the implementation of `TokenBucket`.
4. *Done:* `GetAttributes` in `EventQueries`: its limits, the aggregation and
   the depth of values.
5. *Done:* proofs of the paging properties.
6. *Done:* proofs of `KeepsEntries`, `CompleteContainerAccepted`,
   `ProbeAccountedFor`, `EntitledToChange` and `OnlyLookupsFailOthers`, and of
   what of two liveness properties is safety: `LockGuardsLookup` of
   `EveryRequestAnswered`, `PagesMoveOn` of `QueriesEnd`.
7. The same for `ServerReturns`: that neither goroutine of `Server` waits for the
   other in a state from which nothing moves them.

Two ideas of an earlier plan are dropped.  A module for the text of ACLs would
only say that splitting, joining and sorting a list work: what is stored is the
set of entries, in an order that RGW chooses.  An abstract walk would repeat
`FinishedWalkIsComplete` and `NoRepeats`, which say of the detailed walk what
its steps would.

## 3. Modules

| Module | Models | Extends |
|---|---|---|
| `Dataplane` | constants, variables, how a step ends | - |
| `WriterRole` | the role half of an enable | `Dataplane` |
| `Bucket` | the bucket half of an enable, and what the object store answers | `Dataplane` |
| `DataplaneConfig` | handlers, table, late calls, restarts, customer and operator; `Init`, `Next`, `Spec`, `FairSpec` | `WriterRole`, `Bucket` |
| `ConfigRegister` | abstract specification: a table, one change per request | - |
| `DataplaneProperties` | the properties, the refinement mapping, the inductive invariant | `DataplaneConfig` |
| `MCDataplaneConfig` | calls and tokens for TLC | `DataplaneProperties` |
| `EventQueries` | handlers of lists, downloads, single events and attribute values, the search, the index, the client that follows links; `Spec`, `FairSpec` | - |
| `EventProperties` | their properties | `EventQueries` |
| `MCEventQueries` | queries and tokens for TLC | `EventProperties` |
| `RateLimit` | limiters: fetch, spend, evict; the clock | - |
| `Server` | semaphore, the way of a request, ListenAndServe, shutdown; `Init`, `Next`, `Spec`, `FairSpec` | `RateLimit` |
| `TokenBucket` | abstract specification: one everlasting bucket per client | - |
| `ServerProperties` | their properties and the refinement mapping | `Server` |
| `MCServer` | requests and rates for TLC | `ServerProperties` |
| `DataplaneConfig_proofs` | theorems on types, refusals, audit, who may change, the mutex, provisioning, order | `DataplaneProperties` |
| `DataplaneContainer_proofs` | theorems on the probe object and on ACL entries | `DataplaneConfig_proofs` |
| `DataplaneEnables_proofs` | theorems on enables that must succeed | `DataplaneContainer_proofs` |
| `DataplaneRegister_proofs` | theorem: the register is implemented | `DataplaneConfig_proofs` |
| `EventQueries_proofs` | theorems on types and tenant isolation | `EventProperties` |
| `EventPaging_proofs` | theorems on walks, downloads and lists of values | `EventQueries_proofs` |
| `Server_proofs` | theorems on types, slots, the exit; `TokenBucket` is implemented | `ServerProperties` |
| `Rate_proofs` | theorems on the rate and on Retry-After | `Server_proofs` |

**State and actions of the dataplane configuration.**  `pc[r]` is the next remote call of request `r`: one
action per remote call, and everything local up to the next call happens with
it.  `call[r]` is what the request asks and what its token may do; `seen[r]` is
the handler's `existed`, `posted`, `currentRead` and `currentWrite`, so a
decision taken from it may be stale when it is used.  `roleID` and `mu` are the
fields of `dataplaneWriterRole`, one pair per replica.  `hurried` holds the
requests that have waited for the mutex behind a lookup that may hang
(`AwaitMutex`).  `rows` is the table,
with the missing row and the default document as one value.  `owner`, `read`,
`write`, `probe` and `assigned` are the state of the object store and of
Keystone; their answers are modelled from how the code uses them and are marked
external.  `took[r]` records what the statement of a request did to the table:
it is the `deleted` result of a DELETE and otherwise only read by properties.

**Failures there.**  A request in `Exposed` may be answered with any failing status
at any call, or may give the call up: it fails as the code lets it fail, and
`late[r]` keeps the call, which `Land` carries out at any later time or never.
The role step has one deadline of 30 seconds, which starts before the mutex is
taken; `Lock` does not heed it.  So a request in `hurried` may fail at its lookup,
its role check or its assignment as one in `Exposed` may run out of time there
(`MayTimeOut`), and while it looks the role up, it may delay the next one in turn.
The calls to the object store have deadlines of their own.
`Restart` ends all requests of a replica and frees its mutex, with the calls on
their way kept in `late`.  A late call lands after the answer was computed, never between the
failure and the answer: the handler makes no further remote call in that
interval, so the order cannot be told apart.

**State and actions of the event queries.**  Each handler makes one search per
page and everything else is local, so an action is one page: its checks, its
search, its answer.  The client is part of the model, because what is hard about
pages shows only over several of them: `at[c]` is the offset of its next page
(of a download, the `offset` variable of the handler's loop, which is also the
number of lines written), `got[c]` what it has received, `begin[c]` the index
when it began.  The index is the set of events that have arrived (`arrived`)
less those up to `cut`, which are no longer kept; an event may arrive late, among
older ones.  A page is cut out of the matching events by their positions, which
is what `sort`, `from` and `size` of the search do.  With `Faulty`, a search may
fail or answer `timed_out` with any part of the hits and a total of that part.
A download's failure ends it as its success does, with 200.

A value of an attribute is the sequence of the parts between its slashes, which
is what `max_depth` cuts.  The terms aggregation returns the most frequent values
of the matching events, as many as `limit`, and orders values of the same
frequency by their name (`Precedes`, with `KeyRank` for the order of names).
`GetAttributes` has checks of its own in an order of its own: an empty name is answered with 200 and no body before anything else is
looked at, a limit above the window with 400 before the tenant is, an unknown
name with 400 only after it.

**State and actions of the server.**  `phase[r]` is how far request `r` is on
its way through the middlewares; `slots` is what is in the semaphore.  A request
that has a limit takes two steps in `Wrap`: `Fetch` is `getLimiter`, under the
mutex, and `Spend` is `Allow`, outside it.  Between them `Evict` may remove the
limiter from the map while the request keeps its pointer, so a bucket is not
known by its key but by the request it was made for: `table[a]` is the map,
`bucket[r]` the pointer, `level` and `asof` the state of the bucket.  Requests
are charged to an *account*, a limiter and a key: two routes with one limiter
share it, a download has another.  Eviction takes its cutoff before it takes the
mutex, which may be any time earlier.  `ctx`, `listener`, `drainer` and `main` are
the context, the socket, the goroutine that shuts down and the one that called
`Server`; `serverExited` and `shutdownDone` are read off them.  `Return` ends the
process, with whatever is in flight (`cut`).

Time goes in ticks, and a bucket gains one unit per tick: with the price of a
token as `Period` units, every rational rate is a choice of the tick.  The code
computes in floating point, whose rounding is not modelled.  What a request was
answered is not modelled beyond the verdict of its limiter.

A request may rest between `getLimiter` and `Allow`, which are one expression in
Go, as long as the scheduler lets it, and use a bucket long after its eviction.
One that has rested longer than `MaxPause` is *slow*; `slow` collects these, and
only properties read it.  A slow request can pass although its client has spent
what it may from the successor of its bucket, so `RateIsKept` does not count it,
and `ImplementsTokenBucket` says nothing of the steps after the first one has
become slow.  `AdviceSuffices` needs no such exception.

`IdleIsLong` says that `MaxIdlePeriod` is at least the time a bucket takes to
fill, and `MaxPause` more.  The code does not check it: with the default of ten
minutes it holds for every bucket that fills in less, while one token in a
hundred seconds and a burst of ten take longer, and such a client has its burst
again too early.  It is therefore no assumption of the module but a premise of the
two theorems that need it, and `MCServer` asserts it of the instance of the run.

**Abstractions.**  ACLs are sets of entries: the two that Hermez writes and the
customer's.  `updated_at` and `updated_by` are one field `by`, the request that
wrote the row.  Buckets are names that pass the pattern, plus one that does
not.  The event is recorded in the step that answers.  Bodies, headers, logging and wording
are left out.

## 4. Runs

The first six runs use `MCDataplaneConfig`, the next five `MCEventQueries`, the
last one `MCServer`.
Deadlock is not checked: each request or client ends, the server
returns, and then the model stops.

| Run | Instance | What it shows |
|---|---|---|
| `faults` | 2 requests, 2 replicas, 1 project; both requests exposed; crashes; the operator's migration; PUT enable (by an admin and by a member who may not assign roles), PUT disable, DELETE | types, `EnabledMeansProvisioned`, `RefusedChangesNothing`, `AuditMatchesTable`, `ProbeAccountedFor`, `LockGuardsLookup`, `CreatedWithRole`, `ImplementsRegister` under failing, given-up and late calls; `KeepsEntries`: enables and migration remove no ACL entry |
| `retry` | 3 enables, one of them exposed, 1 replica, crashes | `OnlyLookupsFailOthers`: the two healthy enables answer 200 whatever the third leaves behind; one that has waited behind a hanging lookup may answer 502 or 503 |
| `migration` | 2 enables, one exposed; containers of the operator; migration, handover; the customer adds ACL entries | `EnabledMeansProvisioned`, `CompleteContainerAccepted` |
| `refusals` | 2 requests out of calls of which each one is refused for one reason; grants, containers and roles are removed meanwhile | `AuditMatchesTable`, `EntitledToChange` |
| `liveness` | 2 exposed requests sharing one replica and its mutex, crashes | `EveryRequestAnswered` |
| `acl` | 1 enable and a customer who edits ACLs | a violation, see findings |
| `queries` | 1 client out of 33 queries: walks in both directions and orders with limits below and at the window, downloads, single events, lists of values whole and cut; tokens with a project, a domain, neither, a cluster viewer's; 5 events, window 3; failing and partial searches, arrivals, expiry | `TypeOK`, `FinishedWalkIsComplete`, `StoppedWalkHasSeenWindow`, `NoRepeats`, `FinishedWalkBackIsComplete`, `OnlyOwnEvents`, `EqualCountMeansComplete`, `LinesAreDistinct`, `OnlyOwnValues`, `ShortListIsComplete`, `QueriesEnd`, `PagesMoveOn` |
| `compare` | 1 download of the oldest events first, checked with a list | a violation, see findings |
| `partial` | 1 download | a violation, see findings |
| `domain` | 1 list with `domain_id` by a cluster viewer | a violation, see findings |
| `hierarchies` | 1 list of values with limit 2 and depth 1; two values of two events each below one top, one of one event below another | a violation, see findings |
| `server` | 3 requests of one client on three routes, 2 slots, a bucket of one token that fills in 2 ticks, eviction after more than 2, 3 ticks, requests that rest between `getLimiter` and `Allow`; handlers that return, panic or hang, a failing listener, a signal | `TypeOK`, `InFlightBounded`, `IdleServerHasRoom`, `RateIsKept`, `AdviceSuffices`, `OrderlyExit`, `ServerReturns`; `ImplementsTokenBucket`: eviction does not show as long as no request is slow |

**Why the bounds are enough.**  Every variable of the model is kept per
project or per container, and no step of a handler reads one project's state to
change another's; so one project shows what requests on it can do to each other
(the theorems hold for any number).  Two requests give each pair of steps in
each order; `retry` takes three because a healthy enable must meet both a
healthy and a failing one, and because one that waited behind the failing one may
in turn be waited for.  Two replicas are needed for two `roleID`s and
mutexes; one is used where sharing the mutex is the point.  No counter is
unbounded: a request arrives once and has at most one late call.  `Others` has
one entry, since an entry is only kept or lost.  What no passing run takes:
`WriterKnown = FALSE`, whose only effect is the refusal 503 in
`EnableRefusal`, and `HasService = FALSE`, whose effect is 503 or 502 in the
role step.

Clients of the event queries share nothing but the index, which changes in every
way without them; one client is enough.  Five events and a window of three make
result sets smaller than, equal to and larger than the window, with room for an
arrival after a set has outgrown it; a walk takes up to three pages.  The
default limit is 2 where the code has 10, and the window 3 where it has 20000:
only the order of limit, window and total matters.  `MaxLimit = 0`, where a
download takes its fallback page size, every search for events is refused and an
aggregation fails, is not run.  The values have two hierarchies, one with two
members of different frequency, and one event has none: a limit of 2 cuts a list
and a limit of 3 does not.

For the server, three requests and two slots make a rejection for lack of a
slot possible with the others in flight.  They share one account, since accounts share
nothing but the clock; with one token, one passes and the others are rejected or
wait.  Three ticks (`Horizon`) are enough for a bucket to be emptied, to fill, to
be evicted and to be made anew while a request that fetched the old one before
still holds it and then spends from it.  `MaxPause` is 0, so every request that
rests over a tick is slow, and `MaxIdle` is 2, the least that satisfies
`IdleIsLong`.  `Second` is three ticks, so that rounding the advice down
would be too little.  `Burst` of downloads is 0: their limiter is off.
`MaxConcurrent = 0`, without a semaphore, is not run; the theorems include it.

**Symmetry** is used on requests and replicas of safety runs where all of them
have the same role (`ReqSymmetry`; in `retry` only the unexposed requests), and
never with liveness.

**Fairness.**  `FairSpec` assumes weak fairness of each request's own steps:
`http.Client` and the contexts of Keystone calls have a deadline of 30 seconds,
and a statement ends at the latest when its connection does.  A goroutine that
is blocked on the mutex gets it because the holder's call returns, and Go's
mutex hands over to a waiter after a millisecond.  Nothing is assumed of new
requests, of late calls, of restarts, of the customer or the operator.
For the event queries, weak fairness is assumed of requests that are answered
(`Answered`): a search returns within `query_timeout`.  Failing searches and
retries are not assumed to happen, so they cannot be what ends a walk.
For the server, weak fairness is assumed of its two goroutines (`MainStep`,
`DrainerStep`), which are runnable when they are not blocked, and for which the
deadline of the shutdown passes.  Nothing is assumed of requests and their
handlers: `WriteTimeout` is 0, and a client may read for ever.

## 5. Proofs

Theorems on the dataplane configuration hold for any number of requests,
replicas, projects and buckets, any set of calls and any setting of the switches,
from the assumptions in `Dataplane` alone (`CallsAssumption`, `NamesAssumption`,
`ConfigAssumption`); those on event queries for any events, tenants, values,
limits and queries, from `IndexAssumption`, `KeyAssumption` and `QueryAssumption`;
those on the server for any requests, rates and limits, from `RequestAssumption`,
`RateAssumption` and `CapacityAssumption`; two of them have the premise `IdleIsLong`.

| Theorem | Statement |
|---|---|
| `TypeCorrect` | `Spec => []TypeOK` |
| `RefusalIsFinal` | `Spec => []RefusedChangesNothing` |
| `AuditIsTrue` | `Spec => []AuditMatchesTable` |
| `OnlyEntitledCallersChange` | `Spec => []EntitledToChange` |
| `LockIsGivenBack` | `Spec => []LockGuardsLookup` |
| `ProbesHaveAReason` | `Spec => []ProbeAccountedFor` |
| `EnabledIsProvisioned` | `Spec => []EnabledMeansProvisioned`, when `"undo"` is no disturbance |
| `RoleBeforeContainer` | `Spec => CreatedWithRole`, when `"undo"` is no disturbance |
| `RegisterImplemented` | `Spec => ImplementsRegister`, when `"undo"` is no disturbance |
| `CompleteContainersAreAccepted` | `Spec => []CompleteContainerAccepted`, when `"undo"` is no disturbance |
| `EntriesAreKept` | `Spec => KeepsEntries`, when neither `"edit"` nor `"undo"` is |
| `HealthyEnablesSucceed` | `Spec => []OnlyLookupsFailOthers`, when neither `"migrate"` nor `"undo"` is |
| `EventsTypeCorrect` | `Spec => []TypeOK` of the event queries |
| `NobodyReadsOthersEvents` | `Spec => []OnlyOwnEvents` |
| `NobodyLearnsOthersValues` | `Spec => []OnlyOwnValues` |
| `WalksAreComplete` | `Spec => []FinishedWalkIsComplete` |
| `StoppedWalksSawTheWindow` | `Spec => []StoppedWalkHasSeenWindow` |
| `PagesDoNotOverlap` | `Spec => []NoRepeats` |
| `WalksBackAreComplete` | `Spec => []FinishedWalkBackIsComplete` |
| `EachPageIsProgress` | `Spec => PagesMoveOn` |
| `EqualCountsAreComplete` | `Spec => []EqualCountMeansComplete` |
| `DownloadsAreDistinct` | `Spec => []LinesAreDistinct` |
| `ShortListsAreComplete` | `Spec => []ShortListIsComplete` |
| `ServerTypeCorrect` | `Spec => []TypeOK` of the server |
| `CapacityKept` | `Spec => []InFlightBounded` |
| `SlotsComeBack` | `Spec => []IdleServerHasRoom` |
| `ExitIsOrderly` | `Spec => []OrderlyExit` |
| `RateLimitImplementsTokenBucket` | `Spec => ImplementsTokenBucket`, when `IdleIsLong` |
| `RateIsNeverExceeded` | `Spec => []RateIsKept`, when `IdleIsLong` |
| `RetryAfterIsEnough` | `Spec => []AdviceSuffices` |

**Dataplane configuration.**  None of its properties is inductive by itself but
`LockGuardsLookup`.  The invariant is `IndInv`, in parts that are proved one on
top of the other, each with one lemma per group of actions:

* `CallInv`: a request that is at a call, or has a late one, has passed the
  checks that lead there.
* `LedgerInv`: what the program counter, the answer, the event and the table's
  change of one request say of each other.
* `AuthorInv`: the row that enables a project was written by a request that
  reports its change, on that project and with a token of it.  `LedgerInv`
  alone speaks of the requests, not of who has written the row that is there
  now.
* `ProvisioningInv`: what a request has put in place before it reaches a step,
  and, which is the point, before any call it may have left behind: a late
  upsert still finds role, container and grants.
* `ProbeInv`: a probe is in a container of the project's own, and is that of an
  enable that is about to delete it or has ended without success; a late
  call to put or to delete it changes only which of the two.
* `ViewInv`: whenever a request is about to replace the ACLs (at its POST, at the
  creation before it, or with a POST that is late), they hold all it has read,
  and beyond that nothing but the grants it adds itself.  So two requests that
  overtake each other post the same, and no entry is lost.
* `AcceptInv`: an enable that has found complete ACLs is at the probe or behind
  it and never at the POST, so a denied probe is taken for a handover that is
  to come; one whose probe was written is in a container of the project's own.
* `HealthyInv`: no container is the operator's, and no able, unexposed request
  has ended without success, but for those in `hurried` with 502 or 503.

Not every part holds whatever happens.  `"undo"` stands for a customer who takes grants, containers or roles away
again.  Hermez does not watch for that, and no such guarantee is meant: the
run `refusals` keeps those steps and checks what must hold in spite of them.
Types, refusals, audit, entitlement, the mutex and the probe are proved with
them.  With `"edit"`, `ViewInv` is false: the `acl` finding is its counterexample.
With `"migrate"`, a container without grants may be the operator's, in which
Hermez rightly refuses an enable; what holds then is
`CompleteContainerAccepted`.  `HealthyEnablesSucceed` allows `"edit"`: what the
customer adds to the ACLs fails no enable.  No theorem assumes that nothing
crashes, and exposed requests may fail anywhere in all of them.

**Event queries.**  Isolation follows
from one fact about `getIndexID` and `validateTenantID` (`FoundIsOwn`: without
the override the tenant of a search is the token's own, and never the empty one,
which the tenant filter would let through) and one about the handlers
(`ReceivedIsFound`: they hand out what was found for that tenant, and only after
both checks).

Paging rests on positions.  The position of an event that was there at the
beginning never falls: arrivals push it back, and what expires is at the far end
or, in ascending order, has not happened (`NothingSlips`).  `WalkInv` says that
every wanted event is received or lies at the offset of the next page or behind
it; a page takes all of those before the next offset (`BehindThePage`), and where there is no
next link the total shows that nothing is left (`PositionBelowTotal`).  A walk that
is stopped has been given each of its pages in turn (`Paced`), so every page before
its offset, and that is each one within the window.  Without
arrivals the converse holds too, so that no event is received twice; a walk
back is the same with the inequalities turned.  Of a download there is only one
page to consider: the second always exceeds the window.  `PagesMoveOn` is the
variant behind `QueriesEnd`: a walk takes no more pages than the window has
places, a walk back no more than its first offset, however fast the index grows.

**Server.**  The invariant `Inv` says that `slots` counts the requests in flight,
and what the four variables of the process say of each other: who has closed the
listener, what `done` of the drainer means in each case.  For the limiters,
`BucketInv` adds, without any premise, whose a bucket is (`OwnerInv`) and that it
never holds more than a full one (`LevelInv`).  `PromptInv` adds what holds of
requests that are not slow: the bucket that one has fetched and not used is still
the one in the table (`HeldInv`), and, while nobody is slow, the one in the table was
last used no later than `seen` and `MaxPause` say (`UsedInv`).  With `IdleIsLong`,
what is evicted is then full again and no prompt request holds it, so it makes no
difference to be made anew, which is the refinement.

For the rate, slow requests may spend from the bucket in the table too, which only
lowers it, or from an old one, which nobody else sees.  `SpentInv` says that what
prompt requests have passed between two times, with what is left of the bucket in
the table if the second is now, is paid out of a full bucket and what came in;
`LastInv` that a bucket in the table has been seen since it last let a prompt one
pass.  `UseInv` is behind the advice: a bucket that is not full was last changed
when a request passed.  It holds of every bucket, held, evicted or in the table.

**Model-checked only.**  Liveness (`EveryRequestAnswered`, `QueriesEnd`,
`ServerReturns`), which is out of the prover's reach; and that the five
violations of section 6 happen.  Every invariant and every action property of a
passing run is stated by a theorem.

## 6. Findings

* `acl`: `docs/users/dataplane-events.md` says that entries the customer has
  are preserved.  HEAD and POST are two calls; an entry added between them is
  overwritten.
* `compare`: the API reference says that a download is complete when it has as
  many lines as a later list has in `total`.  With the oldest events first, a
  download that the window has cut short lacks the newest ones; when as many of
  the oldest expire before the list is asked for, the counts agree.
  `EqualCountMeansComplete` says when the check is good: with the newest events
  first, or while nothing expires.
* `partial`: the comment on `ErrPartialResults` says that callers must surface
  it as an explicit failure.  `DownloadEvents` ends with 200 instead, even when
  it has not written anything yet.
* `domain`: the API reference says that `domain_id` restricts a list to the
  events of the domain.  `getIndexID` does not read it.
* `hierarchies`: the API reference says that `max_depth` functions separately
  from `limit` and that more values than the limit may be listed to contain all
  hierarchies.  The limit counts whole values, and they are cut afterwards: with
  two values below one top that are more frequent than the one below another, a
  list of limit 2 and depth 1 has the first top only.

Three smaller points have no run of their own.  The comment on
`DeleteDataplaneConfig` says that an event is recorded only when a configuration
existed and was removed; a DELETE whose statement fails records one too, as the
ADR says it does (`docs/adr/001-dataplane-routing.md`).  The comment on `DownloadEvents`
says "without pagination limits", while the API reference gives the limit the
code has, `max_result_window`.  A next link may lead beyond that window, where
the list answers 400; `StoppedWalkHasSeenWindow` says what the client has by then.
That a healthy enable may fail after a wait for the mutex contradicts no document;
`OnlyLookupsFailOthers` names it.

## 7. Not modelled

Of the filters of a query only the tenant is modelled: the others narrow the set
that is paged through.  Events have distinct times; the order of events with the
same time, which the search leaves open, is in the hazards list.  Lists are sorted
by time only, in either direction: with another column first, events that arrive
or expire would be anywhere among the pages.  The counts of a terms aggregation are
exact, where those of several shards may be approximate.  Responses and version discovery keep no
state.  Configuration is read once and appears as constants.  Delivery of audit
events is go-bits', and the model ends where they are recorded.  The auditor
stops under the context that also starts the drain; whether it still takes what
a drained request records is go-bits' matter.  log-router is
another program; `ConfigRegister` is what it may rely on.  Of net/http the model
has only what `Server` relies on; connections that are kept alive for a further
request, CORS and metrics are left out, as they hold no state of the code's.  The order of the
events of two requests, `updated_at`, and a role ID that changes in Keystone
are not modelled; the hazards list says why.
