--------------------------- MODULE EventQueries_proofs -------------------------
(***************************************************************************)
(* Theorems on the event queries: types, and that nobody but a cluster     *)
(* viewer receives events of another tenant.                               *)
(***************************************************************************)
EXTENDS EventProperties, FiniteSetTheorems, TLAPS

\* Truncating keeps a value a value.
LEMMA TruncateType ==
  ASSUME NEW path \in Paths, NEW depth \in Nat
  PROVE  TruncateSlashPath(path, depth) \in Paths
<1>1. CASE depth = 0 \/ Len(path) <= depth
  BY <1>1 DEF TruncateSlashPath, Paths
<1>2. CASE ~(depth = 0 \/ Len(path) <= depth)
  <2>1. \A i \in 1 .. depth : path[i] \in STRING
    BY <1>2 DEF Paths
  <2> QED
    BY <1>2, <2>1 DEF TruncateSlashPath, Paths
<1> QED
  BY <1>1, <1>2

\* A page is a set of hits, and the hits of a reply are among what was found.
LEMMA PageOfHits ==
  ASSUME NEW hits, NEW order, NEW offset, NEW limit
  PROVE  Page(hits, order, offset, limit) \subseteq hits
BY DEF Page

LEMMA HitsAreFound ==
  ASSUME NEW t, NEW reply \in Replies(t)
  PROVE  reply.hits \subseteq Found(t) /\ reply.timedOut \in BOOLEAN
BY DEF Replies

LEMMA FoundAreEvents ==
  ASSUME NEW t, TypeOK
  PROVE  Found(t) \subseteq Events
BY DEF Found, Matching, Kept, TypeOK

\* Sets of events are finite, so totals and lines are numbers.
LEMMA EventsFinite ==
  ASSUME NEW S \in SUBSET Events
  PROVE  IsFiniteSet(S) /\ Cardinality(S) \in Nat
<1>1. IsFiniteSet(Events)
  BY FS_Interval, IndexAssumption DEF Events
<1> QED
  BY <1>1, FS_Subset, FS_CardinalityType

\* What a client that is no viewer can find is its own.
LEMMA FoundIsOwn ==
  ASSUME NEW a \in Asks, RequestRefusal(a) = 0, ~TenantRefused(IndexID(a)),
         ~a.token.viewer, NEW e \in Found(IndexID(a))
  PROVE  \/ a.token.project \in TenantsOf[e]
         \/ a.token.project = NoTenant /\ a.token.domain \in TenantsOf[e]
<1>1. a \in AskSpace
  BY QueryAssumption
<1>2. a.project = NoTenant
  BY DEF AuthRefusal, RequestRefusal, OverrideRefused
<1>3. IndexID(a) = IF a.token.project # NoTenant THEN a.token.project ELSE a.token.domain
  BY <1>2 DEF IndexID
<1>4. /\ a.token.project \in Tenants \cup {NoTenant}
      /\ a.token.domain \in Tenants \cup {NoTenant}
  BY <1>1 DEF AskSpace, Tokens
<1>5. IndexID(a) \in Tenants
  BY <1>3, <1>4 DEF TenantRefused
<1>6. IndexID(a) \notin {NoTenant, AllTenants}
  BY <1>5, IndexAssumption
<1>7. IndexID(a) \in TenantsOf[e]
  BY <1>6 DEF Found, Matching
<1> QED
  BY <1>3, <1>7

-----------------------------------------------------------------------------
\* Type correctness.

Answers == {0, 200, 400, 401, 403, 404, 500, 504}

LEMMA RefusalTypes ==
  ASSUME NEW a, NEW offset
  PROVE  /\ RequestRefusal(a) \in Answers /\ ListRefusal(a, offset) \in Answers
         /\ ValuesRefusal(a) \in Answers
BY DEF AuthRefusal, RequestRefusal, ListRefusal, ValuesRefusal, Answers

LEMMA AskTypes ==
  ASSUME NEW a \in Asks
  PROVE  {a.offset, a.limit, a.depth} \subseteq Nat
BY QueryAssumption DEF AskSpace

LEMMA LimitType ==
  ASSUME NEW a \in Asks
  PROVE  Limit(a) \in Nat
BY AskTypes, QueryAssumption DEF Limit

\* Links lead to offsets.
LEMMA LinkTypes ==
  ASSUME NEW offset \in Nat, NEW limit \in Nat, NEW total \in Nat
  PROVE  /\ NextLink(offset, limit, total) \subseteq Nat
         /\ PrevLink(offset, limit) \subseteq Nat
<1>1. NextLink(offset, limit, total) \subseteq Nat
  BY DEF NextLink
<1>2. PrevLink(offset, limit) \subseteq Nat
  <2>1. CASE offset < limit
    BY <2>1 DEF PrevLink
  <2>2. CASE ~(offset < limit)
    <3>1. offset - limit \in Nat
      BY <2>2
    <3> QED
      BY <2>2, <3>1 DEF PrevLink
  <2> QED
    BY <2>1, <2>2
<1> QED
  BY <1>1, <1>2

LEMMA InitTypeOK ==
  ASSUME Init
  PROVE  TypeOK
<1>1. \A c \in Clients : ask[c].offset \in Nat
  BY AskTypes DEF Init
<1> QED
  BY <1>1, IndexAssumption DEF Init, TypeOK

LEMMA ReceiveTypeOK ==
  ASSUME TypeOK, NEW c \in Clients, NEW events \in SUBSET Events, Receive(c, events)
  PROVE  got' \in [Clients -> SUBSET Events] /\ again' \in [Clients -> SUBSET Events]
BY DEF TypeOK, Receive

LEMMA RefuseTypeOK ==
  ASSUME TypeOK, NEW c \in Clients, NEW code \in Answers, Refuse(c, code)
  PROVE  /\ phase' \in [Clients -> {"asking", "complete", "downloaded", "checked", "failed"}]
         /\ status' \in [Clients -> Answers]
         /\ UNCHANGED <<at, got, again>>
BY DEF TypeOK, Refuse, End, Answers

LEMMA ListTypeOK ==
  ASSUME TypeOK, NEW c \in Clients, ListEvents(c)
  PROVE  TypeOK'
<1> DEFINE a == ask[c]
<1> DEFINE offset == at[c]
<1>1. a \in Asks /\ offset \in Nat /\ Limit(a) \in Nat
  BY LimitType DEF TypeOK
<1>2. UNCHANGED <<index, ask, begin, listed, sure>>
  BY DEF ListEvents
<1>3. ASSUME NEW code \in Answers, Refuse(c, code), partial' \in [Clients -> BOOLEAN]
      PROVE  TypeOK'
  BY <1>2, <1>3, RefuseTypeOK DEF TypeOK, index, Answers
<1>4. ASSUME NEW reply \in Replies(IndexID(a)), NEW links \in SUBSET Nat,
             Receive(c, Page(reply.hits, a.order, offset, Limit(a))),
             FollowLink(c, links), partial' \in [Clients -> BOOLEAN]
      PROVE  TypeOK'
  <2>1. Page(reply.hits, a.order, offset, Limit(a)) \in SUBSET Events
    BY <1>4, PageOfHits, HitsAreFound, FoundAreEvents
  <2>2. got' \in [Clients -> SUBSET Events] /\ again' \in [Clients -> SUBSET Events]
    BY <1>4, <2>1, ReceiveTypeOK
  <2>3. /\ status' \in [Clients -> Answers]
        /\ phase' \in [Clients -> {"asking", "complete", "downloaded", "checked", "failed"}]
        /\ at' \in [Clients -> Nat]
    BY <1>4 DEF FollowLink, TypeOK, Answers
  <2> QED
    BY <1>2, <1>4, <2>2, <2>3 DEF TypeOK, index, Answers
<1>5. ASSUME NEW reply \in Replies(IndexID(a))
      PROVE  (IF a.kind = "walk" THEN NextLink(offset, Limit(a), Total(reply))
                                 ELSE PrevLink(offset, Limit(a))) \in SUBSET Nat
  <2>1. reply.hits \in SUBSET Events
    BY <1>5, HitsAreFound, FoundAreEvents
  <2>2. Total(reply) \in Nat
    BY <2>1, EventsFinite DEF Total
  <2> QED
    BY <1>1, <2>2, LinkTypes
<1>6. CASE partial' = [partial EXCEPT ![c] = FALSE]
           /\ (Refuse(c, ListRefusal(a, offset)) \/ Refuse(c, 500))
  BY <1>3, <1>6, RefusalTypes DEF TypeOK, Answers
<1>7. ASSUME NEW reply \in Replies(IndexID(a)),
             partial' = [partial EXCEPT ![c] = reply.timedOut],
             \/ Refuse(c, 504)
             \/ /\ Receive(c, Page(reply.hits, a.order, offset, Limit(a)))
                /\ FollowLink(c, IF a.kind = "walk"
                                 THEN NextLink(offset, Limit(a), Total(reply))
                                 ELSE PrevLink(offset, Limit(a)))
      PROVE  TypeOK'
  <2>1. partial' \in [Clients -> BOOLEAN]
    BY <1>7, HitsAreFound DEF TypeOK
  <2> QED
    BY <1>3, <1>4, <1>5, <1>7, <2>1 DEF Answers
<1> QED
  BY <1>6, <1>7 DEF ListEvents

LEMMA RetryTypeOK ==
  ASSUME TypeOK, NEW c \in Clients, Retry(c)
  PROVE  TypeOK'
BY DEF TypeOK, Retry, index

LEMMA DownloadTypeOK ==
  ASSUME TypeOK, NEW c \in Clients, Download(c)
  PROVE  TypeOK'
<1> DEFINE a == ask[c]
<1> DEFINE offset == at[c]
<1>1. offset \in Nat
  BY DEF TypeOK
<1>2. UNCHANGED <<index, ask, begin, listed, sure>>
  BY DEF Download
<1>3. CASE RequestRefusal(a) # 0 /\ Refuse(c, RequestRefusal(a)) /\ UNCHANGED partial
  <2>1. RequestRefusal(a) \in Answers
    BY RefusalTypes
  <2> QED
    BY <1>2, <1>3, <2>1, RefuseTypeOK DEF TypeOK, index, Answers
<1>4. CASE Downloaded(c) /\ partial' \in [Clients -> BOOLEAN]
  BY <1>2, <1>4 DEF TypeOK, index, Downloaded, End
<1>5. ASSUME NEW reply \in Replies(IndexID(a)), partial' \in [Clients -> BOOLEAN],
             LET page == Page(reply.hits, a.order, offset, PageSize)
                 lines == offset + Cardinality(page)
             IN  /\ Receive(c, page)
                 /\ at' = [at EXCEPT ![c] = lines]
                 /\ \/ End(c, "downloaded", 200)
                    \/ UNCHANGED <<phase, status>>
      PROVE  TypeOK'
  <2> DEFINE page == Page(reply.hits, a.order, offset, PageSize)
  <2>1. page \in SUBSET Events
    BY <1>5, PageOfHits, HitsAreFound, FoundAreEvents
  <2>2. got' \in [Clients -> SUBSET Events] /\ again' \in [Clients -> SUBSET Events]
    BY <1>5, <2>1, ReceiveTypeOK
  <2>3. Cardinality(page) \in Nat
    BY <2>1, EventsFinite
  <2> HIDE DEF page
  <2>4. at' \in [Clients -> Nat]
    BY <1>1, <1>5, <2>3 DEF TypeOK, page
  <2>5. /\ phase' \in [Clients -> {"asking", "complete", "downloaded", "checked", "failed"}]
        /\ status' \in [Clients -> {0, 200, 400, 401, 403, 404, 500, 504}]
    BY <1>5 DEF TypeOK, End
  <2> QED
    BY <1>2, <1>5, <2>2, <2>4, <2>5 DEF TypeOK, index
<1>6. ASSUME NEW reply \in Replies(IndexID(a)),
             partial' = [partial EXCEPT ![c] = @ \/ reply.timedOut]
      PROVE  partial' \in [Clients -> BOOLEAN]
  BY <1>6 DEF TypeOK
<1>7. UNCHANGED partial => partial' \in [Clients -> BOOLEAN]
  BY DEF TypeOK
<1> QED
  BY <1>3, <1>4, <1>5, <1>6, <1>7 DEF Download

LEMMA CheckTypeOK ==
  ASSUME TypeOK, NEW c \in Clients, CheckDownload(c)
  PROVE  TypeOK'
<1>1. PICK reply \in Replies(IndexID(ask[c])) :
        sure' = [sure EXCEPT ![c] = (Total(reply) = at[c])]
  BY DEF CheckDownload
<1>2. sure' \in [Clients -> BOOLEAN]
  BY <1>1 DEF TypeOK
<1>3. phase' \in [Clients -> {"asking", "complete", "downloaded", "checked", "failed"}]
  BY DEF CheckDownload, TypeOK
<1>4. UNCHANGED <<index, ask, begin, at, status, got, again, listed, partial>>
  BY DEF CheckDownload
<1> QED
  BY <1>2, <1>3, <1>4 DEF TypeOK, index

LEMMA ShowTypeOK ==
  ASSUME TypeOK, NEW c \in Clients, ShowEvent(c)
  PROVE  TypeOK'
<1> DEFINE a == ask[c]
<1>1. UNCHANGED <<index, ask, begin, listed, sure>>
  BY DEF ShowEvent
<1>2. ASSUME NEW code \in Answers, Refuse(c, code), partial' \in [Clients -> BOOLEAN]
      PROVE  TypeOK'
  BY <1>1, <1>2, RefuseTypeOK DEF TypeOK, index, Answers
<1>3. ASSUME NEW reply \in Replies(IndexID(a)),
             Receive(c, GetEvent(reply, a.event)), End(c, "complete", 200), UNCHANGED at,
             partial' \in [Clients -> BOOLEAN]
      PROVE  TypeOK'
  <2>1. GetEvent(reply, a.event) \in SUBSET Events
    BY <1>3, HitsAreFound, FoundAreEvents DEF GetEvent
  <2>2. got' \in [Clients -> SUBSET Events] /\ again' \in [Clients -> SUBSET Events]
    BY <1>3, <2>1, ReceiveTypeOK
  <2> QED
    <3>1. /\ phase' \in [Clients -> {"asking", "complete", "downloaded", "checked", "failed"}]
          /\ status' \in [Clients -> {0, 200, 400, 401, 403, 404, 500, 504}]
      BY <1>3 DEF TypeOK, End
    <3> QED
      BY <1>1, <1>3, <2>2, <3>1 DEF TypeOK, index
<1>4. ASSUME NEW reply \in Replies(IndexID(a)),
             partial' = [partial EXCEPT ![c] = reply.timedOut]
      PROVE  partial' \in [Clients -> BOOLEAN]
  BY <1>4, HitsAreFound DEF TypeOK
<1>5. UNCHANGED partial => partial' \in [Clients -> BOOLEAN]
  BY DEF TypeOK
<1>6. RequestRefusal(a) \in Answers /\ 500 \in Answers /\ 404 \in Answers
  BY RefusalTypes DEF Answers
<1> QED
  BY <1>2, <1>3, <1>4, <1>5, <1>6 DEF ShowEvent

LEMMA ValuesTypeOK ==
  ASSUME TypeOK, NEW c \in Clients, GetAttributes(c)
  PROVE  TypeOK'
<1> DEFINE a == ask[c]
<1>1. UNCHANGED <<index, ask, begin, sure>>
  BY DEF GetAttributes
<1>2. ASSUME NEW code \in Answers, Refuse(c, code), UNCHANGED listed,
             partial' \in [Clients -> BOOLEAN]
      PROVE  TypeOK'
  BY <1>1, <1>2, RefuseTypeOK DEF TypeOK, index, Answers
<1>3. ASSUME End(c, "complete", 200), UNCHANGED <<at, got, again>>,
             listed' \in [Clients -> SUBSET Paths], partial' \in [Clients -> BOOLEAN]
      PROVE  TypeOK'
  <2>1. /\ phase' \in [Clients -> {"asking", "complete", "downloaded", "checked", "failed"}]
        /\ status' \in [Clients -> {0, 200, 400, 401, 403, 404, 500, 504}]
    BY <1>3 DEF TypeOK, End
  <2> QED
    BY <1>1, <1>3, <2>1 DEF TypeOK, index
<1>4. ASSUME NEW reply \in Replies(IndexID(a)),
             partial' = [partial EXCEPT ![c] = reply.timedOut]
      PROVE  partial' \in [Clients -> BOOLEAN]
  BY <1>4, HitsAreFound DEF TypeOK
<1>5. ASSUME NEW reply \in Replies(IndexID(a)),
             NEW found \in Buckets(reply.hits, ValuesLimit(a)),
             listed' = [listed EXCEPT ![c] = Unique(found, a.depth)]
      PROVE  listed' \in [Clients -> SUBSET Paths]
  <2>1. a.depth \in Nat
    BY AskTypes DEF TypeOK
  <2>2. reply.hits \subseteq Events
    BY HitsAreFound, FoundAreEvents
  <2>3. found \subseteq Paths
    BY <2>2, IndexAssumption DEF Buckets, Values
  <2>4. Unique(found, a.depth) \subseteq Paths
    BY <2>1, <2>3, TruncateType DEF Unique
  <2> QED
    BY <1>5, <2>4 DEF TypeOK
<1>6. UNCHANGED partial => partial' \in [Clients -> BOOLEAN]
  BY DEF TypeOK
<1>7. UNCHANGED listed => listed' \in [Clients -> SUBSET Paths]
  BY DEF TypeOK
<1>8. ValuesRefusal(a) \in Answers /\ 500 \in Answers /\ 504 \in Answers
  BY RefusalTypes DEF Answers
<1> QED
  BY <1>2, <1>3, <1>4, <1>5, <1>6, <1>7, <1>8, ZenonT(60) DEF GetAttributes

LEMMA IndexTypeOK ==
  ASSUME TypeOK, (\E e \in Events : Arrive(e)) \/ Expire
  PROVE  TypeOK'
<1>1. CASE \E e \in Events : Arrive(e)
  BY <1>1 DEF TypeOK, Arrive, clients
<1>2. CASE Expire
  BY <1>2, IndexAssumption DEF TypeOK, Expire, clients
<1> QED
  BY <1>1, <1>2

\* Every variable keeps its type.
THEOREM EventsTypeCorrect == Spec => []TypeOK
<1>1. Init => TypeOK
  BY InitTypeOK
<1>2. TypeOK /\ [Next]_vars => TypeOK'
  <2>1. CASE UNCHANGED vars
    BY <2>1 DEF TypeOK, vars, index
  <2>2. CASE Next
    BY <2>2, ListTypeOK, RetryTypeOK, DownloadTypeOK, CheckTypeOK, ShowTypeOK,
       ValuesTypeOK, IndexTypeOK DEF Next, ClientStep
  <2> QED
    BY <2>1, <2>2
<1> QED
  BY <1>1, <1>2, PTL DEF Spec

-----------------------------------------------------------------------------
\* Tenant isolation.

Own(c) ==
  LET token == ask[c].token IN
    ~token.viewer => \A e \in got[c] :
      \/ token.project \in TenantsOf[e]
      \/ token.project = NoTenant /\ token.domain \in TenantsOf[e]

\* A client's step adds to its events only what its query may find.
LEMMA ReceivedIsFound ==
  ASSUME TypeOK, NEW c \in Clients, ClientStep(c)
  PROVE  /\ UNCHANGED ask
         /\ \A d \in Clients \ {c} : got'[d] = got[d]
         /\ \/ got'[c] = got[c]
            \/ /\ RequestRefusal(ask[c]) = 0 /\ ~TenantRefused(IndexID(ask[c]))
               /\ got'[c] \subseteq got[c] \cup Found(IndexID(ask[c]))
<1> DEFINE a == ask[c]
<1> DEFINE Goal ==
      /\ UNCHANGED ask
      /\ \A d \in Clients \ {c} : got'[d] = got[d]
      /\ \/ got'[c] = got[c]
         \/ /\ RequestRefusal(a) = 0 /\ ~TenantRefused(IndexID(a))
            /\ got'[c] \subseteq got[c] \cup Found(IndexID(a))
<1>1. ASSUME UNCHANGED ask, UNCHANGED got PROVE Goal
  BY <1>1
<1>2. ASSUME UNCHANGED ask, NEW events \in SUBSET Found(IndexID(a)), Receive(c, events),
             RequestRefusal(a) = 0, ~TenantRefused(IndexID(a))
      PROVE  Goal
  BY <1>2 DEF Receive, TypeOK
<1>3. UNCHANGED ask
  BY DEF ClientStep, ListEvents, Retry, Download, CheckDownload, ShowEvent, GetAttributes
<1>4. CASE ListEvents(c)
  <2>1. ListRefusal(a, at[c]) = 0 => RequestRefusal(a) = 0 /\ ~TenantRefused(IndexID(a))
    BY DEF ListRefusal, RequestRefusal, AuthRefusal
  <2>2. CASE UNCHANGED got
    BY <1>1, <1>3, <2>2
  <2>3. CASE ~UNCHANGED got
    <3>1. PICK reply \in Replies(IndexID(a)) :
            /\ ListRefusal(a, at[c]) = 0
            /\ Receive(c, Page(reply.hits, a.order, at[c], Limit(a)))
      BY <1>4, <2>3 DEF ListEvents, Refuse
    <3>2. Page(reply.hits, a.order, at[c], Limit(a)) \in SUBSET Found(IndexID(a))
      BY PageOfHits, HitsAreFound
    <3> QED
      BY <1>2, <1>3, <2>1, <3>1, <3>2
  <2> QED
    BY <2>2, <2>3
<1>5. CASE Retry(c) \/ CheckDownload(c) \/ GetAttributes(c)
  BY <1>1, <1>3, <1>5 DEF Retry, CheckDownload, GetAttributes, Refuse
<1>6. CASE Download(c)
  <2>1. CASE UNCHANGED got
    BY <1>1, <1>3, <2>1
  <2>2. CASE ~UNCHANGED got
    <3>1. PICK reply \in Replies(IndexID(a)) :
            /\ RequestRefusal(a) = 0 /\ ~TenantRefused(IndexID(a))
            /\ Receive(c, Page(reply.hits, a.order, at[c], PageSize))
      BY <1>6, <2>2 DEF Download, Refuse, Downloaded
    <3>2. Page(reply.hits, a.order, at[c], PageSize) \in SUBSET Found(IndexID(a))
      BY PageOfHits, HitsAreFound
    <3> QED
      BY <1>2, <1>3, <3>1, <3>2
  <2> QED
    BY <2>1, <2>2
<1>7. CASE ShowEvent(c)
  <2>1. CASE UNCHANGED got
    BY <1>1, <1>3, <2>1
  <2>2. CASE ~UNCHANGED got
    <3>1. PICK reply \in Replies(IndexID(a)) :
            /\ RequestRefusal(a) = 0 /\ ~TenantRefused(IndexID(a))
            /\ Receive(c, GetEvent(reply, a.event))
      BY <1>7, <2>2 DEF ShowEvent, Refuse
    <3>2. GetEvent(reply, a.event) \in SUBSET Found(IndexID(a))
      BY <3>1, HitsAreFound DEF GetEvent
    <3> QED
      BY <1>2, <1>3, <3>1, <3>2
  <2> QED
    BY <2>1, <2>2
<1> QED
  BY <1>4, <1>5, <1>6, <1>7 DEF ClientStep

\* Whoever is no cluster viewer receives events of its own scope only, for any
\* tenants, events, window and queries.
THEOREM NobodyReadsOthersEvents == Spec => []OnlyOwnEvents
<1>1. Init => OnlyOwnEvents
  BY DEF Init, OnlyOwnEvents
<1>2. TypeOK /\ OnlyOwnEvents /\ [Next]_vars => OnlyOwnEvents'
  <2> SUFFICES ASSUME TypeOK, OnlyOwnEvents, [Next]_vars PROVE OnlyOwnEvents'
    OBVIOUS
  <2>1. CASE UNCHANGED <<ask, got>>
    BY <2>1 DEF OnlyOwnEvents
  <2>2. ASSUME NEW c \in Clients, ClientStep(c) PROVE OnlyOwnEvents'
    <3>1. ASSUME NEW d \in Clients PROVE Own(d)'
      <4>1. Own(d)
        BY DEF OnlyOwnEvents, Own
      <4>2. CASE got'[d] = got[d]
        BY <2>2, <4>1, <4>2, ReceivedIsFound DEF Own
      <4>3. CASE got'[d] # got[d]
        <5>1. d = c /\ RequestRefusal(ask[d]) = 0 /\ ~TenantRefused(IndexID(ask[d]))
              /\ got'[d] \subseteq got[d] \cup Found(IndexID(ask[d]))
          BY <2>2, <4>3, ReceivedIsFound
        <5>2. ask[d] \in Asks /\ UNCHANGED ask
          BY <2>2, ReceivedIsFound DEF TypeOK
        <5> QED
          BY <4>1, <5>1, <5>2, FoundIsOwn DEF Own
      <4> QED
        BY <4>2, <4>3
    <3> QED
      BY <3>1 DEF OnlyOwnEvents, Own
  <2> QED
    BY <2>1, <2>2 DEF Next, Arrive, Expire, clients, vars
<1> QED
  BY <1>1, <1>2, EventsTypeCorrect, PTL DEF Spec
=============================================================================
