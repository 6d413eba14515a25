--------------------------- MODULE EventPaging_proofs ---------------------------
(***************************************************************************)
(* Theorems on walks and downloads: what a client may conclude when its    *)
(* pages have come to an end, however the index has grown and lost its     *)
(* oldest events meanwhile.                                                *)
(*                                                                         *)
(* The argument is about positions.  An event that a client wants and has  *)
(* not received is never before the client's offset, because no event that *)
(* precedes it goes away; and an event's position is always less than the  *)
(* total.                                                                  *)
(***************************************************************************)
EXTENDS EventQueries_proofs

-----------------------------------------------------------------------------
\* Positions and pages.

Preceding(e, hits, order) == {f \in hits : IF order = "asc" THEN f < e ELSE f > e}

LEMMA PositionCounts ==
  ASSUME NEW hits \in SUBSET Events, NEW e, NEW order
  PROVE  /\ Position(e, hits, order) = Cardinality(Preceding(e, hits, order))
         /\ Preceding(e, hits, order) \in SUBSET Events
         /\ Position(e, hits, order) \in Nat
<1>1. Preceding(e, hits, order) \in SUBSET Events
  BY DEF Preceding
<1>2. Position(e, hits, order) = Cardinality(Preceding(e, hits, order))
  BY DEF Position, Preceding
<1> QED
  BY <1>1, <1>2, EventsFinite

\* Events that come in do not move an event to the front.
LEMMA PositionGrows ==
  ASSUME NEW hits \in SUBSET Events, NEW more \in SUBSET Events, NEW e, NEW order,
         Preceding(e, hits, order) \subseteq more
  PROVE  Position(e, hits, order) <= Position(e, more, order)
<1>1. Preceding(e, hits, order) \subseteq Preceding(e, more, order)
  BY DEF Preceding
<1>2. IsFiniteSet(Preceding(e, more, order))
  BY PositionCounts, EventsFinite
<1> QED
  BY <1>1, <1>2, FS_Subset, PositionCounts

LEMMA PositionBelowTotal ==
  ASSUME NEW hits \in SUBSET Events, NEW e \in hits, NEW order
  PROVE  Position(e, hits, order) < Cardinality(hits)
<1>1. Preceding(e, hits, order) \in SUBSET hits /\ e \notin Preceding(e, hits, order)
  BY DEF Preceding, Events
<1>2. IsFiniteSet(hits) /\ Cardinality(hits) \in Nat
  BY EventsFinite
<1>3. Cardinality(Preceding(e, hits, order)) <= Cardinality(hits)
      /\ Cardinality(Preceding(e, hits, order)) # Cardinality(hits)
  BY <1>1, <1>2, FS_Subset
<1> QED
  BY <1>2, <1>3, PositionCounts

\* An event precedes another or the other precedes it.
LEMMA PositionsDiffer ==
  ASSUME NEW hits \in SUBSET Events, NEW e \in hits, NEW f \in hits, e # f, NEW order
  PROVE  Position(e, hits, order) # Position(f, hits, order)
<1>1. ASSUME NEW d \in hits, NEW g \in hits, IF order = "asc" THEN d < g ELSE d > g
      PROVE  Position(d, hits, order) < Position(g, hits, order)
  <2> DEFINE P == Preceding(d, hits, order)
  <2> DEFINE Q == Preceding(g, hits, order)
  <2>1. P \in SUBSET Q /\ d \in Q /\ d \notin P
    <3>1. hits \subseteq Nat
      BY IndexAssumption DEF Events
    <3>2. CASE order = "asc"
      <4>1. P = {x \in hits : x < d} /\ Q = {x \in hits : x < g}
        BY <3>2 DEF Preceding
      <4>2. d < g
        BY <1>1, <3>2
      <4>3. \A x \in hits : x \in Nat /\ (x < d => x < g)
        BY <3>1, <4>2
      <4>4. ~(d < d)
        BY <3>1
      <4> HIDE DEF P, Q
      <4> QED
        BY <4>1, <4>2, <4>3, <4>4
    <3>3. CASE order # "asc"
      <4>1. P = {x \in hits : x > d} /\ Q = {x \in hits : x > g}
        BY <3>3 DEF Preceding
      <4>2. d > g
        BY <1>1, <3>3
      <4>3. \A x \in hits : x \in Nat /\ (x > d => x > g)
        BY <3>1, <4>2
      <4>4. ~(d > d)
        BY <3>1
      <4> HIDE DEF P, Q
      <4> QED
        BY <4>1, <4>2, <4>3, <4>4
    <3> QED
      BY <3>2, <3>3
  <2>2. P \in SUBSET Events /\ Q \in SUBSET Events
    BY DEF Preceding
  <2> HIDE DEF P, Q
  <2>3. IsFiniteSet(Q) /\ Cardinality(Q) \in Nat /\ Cardinality(P) \in Nat
    BY <2>2, EventsFinite
  <2>4. Cardinality(P) <= Cardinality(Q) /\ Cardinality(P) # Cardinality(Q)
    BY <2>1, <2>3, FS_Subset
  <2> QED
    BY <2>3, <2>4, PositionCounts DEF P, Q
<1>2. e < f \/ e > f
  BY IndexAssumption DEF Events
<1>3. Position(e, hits, order) \in Nat /\ Position(f, hits, order) \in Nat
  BY PositionCounts
<1> QED
  BY <1>1, <1>2, <1>3, IndexAssumption DEF Events

\* A page holds no more than its size.
LEMMA PageSizeBound ==
  ASSUME NEW hits \in SUBSET Events, NEW order, NEW offset \in Nat, NEW limit \in Nat
  PROVE  Cardinality(Page(hits, order, offset, limit)) <= limit
<1> DEFINE page == Page(hits, order, offset, limit)
<1> DEFINE places == offset .. offset + limit - 1
<1> DEFINE place == [e \in page |-> Position(e, hits, order)]
<1>1. page \in SUBSET hits /\ page \in SUBSET Events
  BY PageOfHits
<1>2. IsFiniteSet(page) /\ Cardinality(page) \in Nat
  BY <1>1, EventsFinite
<1>3. IsFiniteSet(places) /\ Cardinality(places) = limit
  <2>1. CASE limit = 0
    BY <2>1, FS_Interval
  <2>2. CASE limit # 0
    BY <2>2, FS_Interval
  <2> QED
    BY <2>1, <2>2
<1>4. place \in [page -> places]
  <2>1. ASSUME NEW e \in page PROVE Position(e, hits, order) \in places
    BY PositionCounts, <2>1 DEF Page
  <2> QED
    BY <2>1
<1>5. ASSUME Cardinality(places) < Cardinality(page) PROVE FALSE
  <2> HIDE DEF page, places, place
  <2>1. PICK e \in page, f \in page : e # f /\ place[e] = place[f]
    BY <1>2, <1>3, <1>4, <1>5, FS_PigeonHole
  <2> QED
    BY <1>1, <2>1, PositionsDiffer DEF place
<1> HIDE DEF page, places, place
<1> QED
  BY <1>2, <1>3, <1>5 DEF page

\* What is on no page before the offset and not on the page is behind it.
LEMMA BehindThePage ==
  ASSUME NEW hits \in SUBSET Events, NEW order, NEW offset \in Nat, NEW limit \in Nat,
         NEW e \in hits, Position(e, hits, order) >= offset,
         e \notin Page(hits, order, offset, limit)
  PROVE  Position(e, hits, order) >= offset + limit
BY PositionCounts DEF Page

-----------------------------------------------------------------------------
\* What a step changes.

\* A reply that is not cut short has all there is.
LEMMA WholeReply ==
  ASSUME NEW t, NEW reply \in Replies(t), ~IsPartial(reply)
  PROVE  reply.hits = Found(t)
BY DEF Replies, IsPartial

\* What a page of a download makes of a client.
DownloadedPage(c) ==
  LET a == ask[c]
      page == Page(Found(IndexID(a)), a.order, at[c], PageSize)
  IN
  /\ RequestRefusal(a) = 0 /\ ~WindowExceeded(at[c], PageSize)
  /\ Receive(c, page)
  /\ at' = [at EXCEPT ![c] = at[c] + Cardinality(page)]
  /\ End(c, "downloaded", 200) \/ UNCHANGED <<phase, status>>

LEMMA DownloadOutcomes ==
  ASSUME NEW c \in Clients, Download(c)
  PROVE  /\ ask[c].kind = "download" /\ phase[c] = "asking"
         /\ UNCHANGED <<index, ask, begin, sure>>
         /\ \/ RequestRefusal(ask[c]) # 0 /\ Refuse(c, RequestRefusal(ask[c]))
            \/ Downloaded(c)
            \/ DownloadedPage(c)
<1> DEFINE a == ask[c]
<1>1. a.kind = "download" /\ phase[c] = "asking" /\ UNCHANGED <<index, ask, begin, sure>>
  BY DEF Download
<1>2. ASSUME NEW reply \in Replies(IndexID(a)), ~IsPartial(reply),
             RequestRefusal(a) = 0, ~WindowExceeded(at[c], PageSize),
             LET page == Page(reply.hits, a.order, at[c], PageSize)
                 lines == at[c] + Cardinality(page)
             IN  /\ Receive(c, page)
                 /\ at' = [at EXCEPT ![c] = lines]
                 /\ IF lines >= Total(reply) \/ page = {}
                    THEN End(c, "downloaded", 200)
                    ELSE UNCHANGED <<phase, status>>
      PROVE  DownloadedPage(c)
  <2>1. reply.hits = Found(IndexID(a))
    BY <1>2, WholeReply
  <2> QED
    BY <1>2, <2>1 DEF DownloadedPage
<1> QED
  BY <1>1, <1>2 DEF Download

\* A client that has not moved.
Unmoved(c) ==
  UNCHANGED <<phase[c], at[c], status[c], got[c], again[c], sure[c]>>

LEMMA OthersStay ==
  ASSUME TypeOK, NEW c \in Clients, NEW d \in Clients, c # d, ClientStep(d)
  PROVE  Unmoved(c)
<1>1. CASE ListEvents(d)
  <2>1. UNCHANGED sure
    BY <1>1 DEF ListEvents
  <2>2. ASSUME NEW code, Refuse(d, code) PROVE Unmoved(c)
    BY <2>1, <2>2 DEF Refuse, End, TypeOK, Unmoved
  <2>3. ASSUME NEW events, NEW links, Receive(d, events), FollowLink(d, links)
        PROVE  Unmoved(c)
    BY <2>1, <2>3 DEF Receive, FollowLink, TypeOK, Unmoved
  <2> QED
    BY <1>1, <2>2, <2>3 DEF ListEvents
<1>2. CASE Retry(d)
  BY <1>2 DEF Retry, TypeOK, Unmoved
<1>3. CASE Download(d)
  <2>1. UNCHANGED sure
    BY <1>3 DEF Download
  <2>2. ASSUME NEW how, NEW code, End(d, how, code), UNCHANGED <<at, got, again>>
        PROVE  Unmoved(c)
    BY <2>1, <2>2 DEF End, TypeOK, Unmoved
  <2>3. ASSUME NEW events, NEW lines, Receive(d, events), at' = [at EXCEPT ![d] = lines],
               End(d, "downloaded", 200) \/ UNCHANGED <<phase, status>>
        PROVE  Unmoved(c)
    BY <2>1, <2>3 DEF Receive, End, TypeOK, Unmoved
  <2>4. CASE Refuse(d, RequestRefusal(ask[d])) \/ Downloaded(d)
    BY <2>2, <2>4 DEF Downloaded, Refuse
  <2>5. CASE DownloadedPage(d)
    BY <2>3, <2>5 DEF DownloadedPage
  <2> QED
    BY <1>3, <2>4, <2>5, DownloadOutcomes
<1>4. CASE CheckDownload(d)
  BY <1>4 DEF CheckDownload, TypeOK, Unmoved
<1>5. CASE ShowEvent(d)
  BY <1>5 DEF ShowEvent, Refuse, End, Receive, TypeOK, Unmoved
<1>6. CASE GetAttributes(d)
  <2>1. UNCHANGED <<sure, at, got, again>>
    BY <1>6 DEF GetAttributes, Refuse
  <2>2. ASSUME NEW how, NEW code, End(d, how, code) PROVE Unmoved(c)
    BY <2>1, <2>2 DEF End, TypeOK, Unmoved
  <2>3. End(d, "complete", 200) \/ End(d, "failed", ValuesRefusal(ask[d]))
        \/ End(d, "failed", 500) \/ End(d, "failed", 504)
    BY <1>6 DEF GetAttributes, Refuse
  <2> QED
    BY <2>2, <2>3
<1> QED
  BY <1>1, <1>2, <1>3, <1>4, <1>5, <1>6 DEF ClientStep

\* Either the client moves and the index stays, or the index grows and ages.
LEMMA StepFrame ==
  ASSUME TypeOK, [Next]_vars, NEW c \in Clients
  PROVE  /\ UNCHANGED <<ask, begin>>
         /\ arrived \subseteq arrived' /\ cut <= cut' /\ {cut, cut'} \subseteq Nat
         /\ (ClientStep(c) /\ UNCHANGED index) \/ Unmoved(c)
<1>1. cut \in Nat
  BY DEF TypeOK
<1>2. ASSUME NEW d \in Clients, ClientStep(d)
      PROVE  UNCHANGED <<index, ask, begin>>
  BY <1>2 DEF ClientStep, ListEvents, Retry, Download, CheckDownload, ShowEvent, GetAttributes
<1>3. CASE \E d \in Clients : ClientStep(d)
  BY <1>1, <1>2, <1>3, OthersStay DEF index
<1>4. ASSUME NEW e \in Events, Arrive(e)
      PROVE  arrived' = arrived \cup {e} /\ cut' = cut /\ UNCHANGED clients
  BY <1>4 DEF Arrive
<1>5. CASE \E e \in Events : Arrive(e)
  BY <1>1, <1>4, <1>5 DEF clients, Unmoved
<1>6. CASE Expire
  BY <1>1, <1>6 DEF Expire, clients, Unmoved
<1>7. CASE UNCHANGED vars
  BY <1>1, <1>7 DEF vars, index, Unmoved
<1> QED
  BY <1>3, <1>5, <1>6, <1>7 DEF Next

\* What a list request makes of a client.
ListedPage(c) ==
  LET a == ask[c]
      hits == Found(IndexID(a))
      page == Page(hits, a.order, at[c], Limit(a))
      links == IF a.kind = "walk" THEN NextLink(at[c], Limit(a), Cardinality(hits))
                                  ELSE PrevLink(at[c], Limit(a))
  IN
  /\ ListRefusal(a, at[c]) = 0
  /\ got'[c] = got[c] \cup page
  /\ again'[c] = again[c] \cup (got[c] \cap page)
  /\ status'[c] = 200
  /\ \/ links = {} /\ phase'[c] = "complete" /\ at'[c] = at[c]
     \/ at'[c] \in links /\ phase'[c] = "asking"

ListFailed(c) ==
  /\ phase'[c] = "failed"
  /\ \/ status'[c] \in {500, 504}
     \/ ListRefusal(ask[c], at[c]) # 0 /\ status'[c] = ListRefusal(ask[c], at[c])
  /\ got'[c] = got[c] /\ again'[c] = again[c] /\ at'[c] = at[c]

LEMMA ListOutcomes ==
  ASSUME TypeOK, NEW c \in Clients, ListEvents(c)
  PROVE  ask[c].kind \in {"walk", "back"} /\ (ListedPage(c) \/ ListFailed(c))
<1> DEFINE a == ask[c]
<1> DEFINE links(total) == IF a.kind = "walk" THEN NextLink(at[c], Limit(a), total)
                                              ELSE PrevLink(at[c], Limit(a))
<1>1. ASSUME NEW code, Refuse(c, code)
      PROVE  /\ phase'[c] = "failed" /\ status'[c] = code
             /\ got'[c] = got[c] /\ again'[c] = again[c] /\ at'[c] = at[c]
  BY <1>1 DEF Refuse, End, TypeOK
<1>2. ASSUME NEW reply \in Replies(IndexID(a)), ~IsPartial(reply), ListRefusal(a, at[c]) = 0,
             Receive(c, Page(reply.hits, a.order, at[c], Limit(a))),
             FollowLink(c, links(Total(reply)))
      PROVE  ListedPage(c)
  <2>1. reply.hits = Found(IndexID(a)) /\ Total(reply) = Cardinality(Found(IndexID(a)))
    BY <1>2, WholeReply DEF Total
  <2>2. /\ got'[c] = got[c] \cup Page(Found(IndexID(a)), a.order, at[c], Limit(a))
        /\ again'[c] = again[c] \cup
             (got[c] \cap Page(Found(IndexID(a)), a.order, at[c], Limit(a)))
    BY <1>2, <2>1 DEF Receive, TypeOK
  <2>3. phase[c] = "asking"
    BY DEF ListEvents
  <2> HIDE DEF links
  <2>4. /\ status'[c] = 200
        /\ \/ links(Total(reply)) = {} /\ phase'[c] = "complete" /\ at'[c] = at[c]
           \/ at'[c] \in links(Total(reply)) /\ phase'[c] = "asking"
    BY <1>2, <2>3 DEF FollowLink, TypeOK
  <2> QED
    BY <1>2, <2>1, <2>2, <2>4 DEF ListedPage, links
<1>3. a.kind \in {"walk", "back"}
  BY DEF ListEvents
<1>4. CASE \/ ListRefusal(a, at[c]) # 0 /\ Refuse(c, ListRefusal(a, at[c]))
           \/ Refuse(c, 500) \/ Refuse(c, 504)
  <2>1. CASE ListRefusal(a, at[c]) # 0 /\ Refuse(c, ListRefusal(a, at[c]))
    BY <1>1, <1>3, <2>1 DEF ListFailed
  <2>2. CASE Refuse(c, 500)
    BY <1>1, <1>3, <2>2 DEF ListFailed
  <2>3. CASE Refuse(c, 504)
    BY <1>1, <1>3, <2>3 DEF ListFailed
  <2> QED
    BY <1>4, <2>1, <2>2, <2>3
<1> HIDE DEF links
<1>5. CASE \E reply \in Replies(IndexID(a)) :
             /\ ~IsPartial(reply) /\ ListRefusal(a, at[c]) = 0
             /\ Receive(c, Page(reply.hits, a.order, at[c], Limit(a)))
             /\ FollowLink(c, links(Total(reply)))
  <2>1. ListedPage(c)
    BY <1>2, <1>5
  <2> QED
    BY <1>3, <2>1
<1> QED
  BY <1>4, <1>5 DEF ListEvents, links

-----------------------------------------------------------------------------
\* Nothing a client wants gets behind it.

Order(c) == ask[c].order
Hits(c) == Found(IndexID(ask[c]))
Start(c) == IF ask[c].kind = "download" THEN 0 ELSE ask[c].offset

\* What a client that began at Start(c) should find.
Wanted(c) ==
  {e \in Kept(Expected(c)) : Position(e, Expected(c), Order(c)) >= Start(c)}

Ahead(c) ==
  ask[c].kind \in {"walk", "download"} /\ NothingSlips(c) =>
    \A e \in Wanted(c) : e \in got[c] \/ Position(e, Hits(c), Order(c)) >= at[c]

Arrived(c) ==
  \/ ask[c].kind = "walk" /\ phase[c] = "complete"
  \/ phase[c] = "checked" /\ sure[c]

Complete(c) == Arrived(c) /\ NothingSlips(c) => Wanted(c) \subseteq got[c]

WalkInv(c) ==
  /\ begin[c] \subseteq arrived
  /\ phase[c] \in {"downloaded", "checked"} => ask[c].kind = "download"
  /\ Ahead(c) /\ Complete(c)

LEMMA ExpectedAreEvents ==
  ASSUME TypeOK, NEW c \in Clients
  PROVE  /\ Expected(c) \in SUBSET Events /\ Hits(c) \in SUBSET Events
         /\ Kept(Expected(c)) \subseteq Expected(c)
  BY FoundAreEvents DEF Expected, Matching, Hits, Kept, TypeOK

LEMMA PlacesCount ==
  ASSUME TypeOK, NEW c \in Clients, NEW e
  PROVE  Position(e, Expected(c), Order(c)) \in Nat
BY ExpectedAreEvents, PositionCounts

\* What a client wants and has not expired can be found.
LEMMA WantedAreHits ==
  ASSUME TypeOK, NEW c \in Clients, begin[c] \subseteq arrived
  PROVE  Kept(Expected(c)) \subseteq Hits(c)
  BY DEF Expected, Hits, Found, Matching, Kept

\* As long as nothing slips, no step moves a wanted event towards the front.
LEMMA NothingMovesUp ==
  ASSUME TypeOK, TypeOK', [Next]_vars, NEW c \in Clients, NothingSlips(c)'
  PROVE  /\ NothingSlips(c) /\ Wanted(c)' \subseteq Wanted(c)
         /\ \A e \in Wanted(c)' :
              Position(e, Hits(c), Order(c)) <= Position(e, Hits(c), Order(c))'
<1>1. /\ UNCHANGED <<ask, begin>> /\ arrived \subseteq arrived'
      /\ cut <= cut' /\ cut \in Nat /\ cut' \in Nat
  BY StepFrame
<1>2. NothingSlips(c)
  BY <1>1 DEF NothingSlips
<1>3. Expected(c)' = Expected(c)
  BY <1>1 DEF Expected, Matching
<1>4. /\ Expected(c) \in SUBSET Events /\ Hits(c) \in SUBSET Events /\ Hits(c)' \in SUBSET Events
      /\ Events \subseteq Nat
  <2>1. Hits(c)' \in SUBSET Events
    BY DEF Hits, Found, Matching, Kept, TypeOK
  <2> QED
    BY <2>1, ExpectedAreEvents, IndexAssumption DEF Events
<1>5. Kept(Expected(c))' \subseteq Kept(Expected(c))
  <2>1. \A e \in Expected(c) : e > cut' => e > cut
    <3> SUFFICES ASSUME NEW e \in Expected(c), e > cut' PROVE e > cut
      OBVIOUS
    <3>1. e \in Nat
      BY <1>4
    <3> QED
      BY <1>1, <3>1
  <2> QED
    BY <1>3, <2>1 DEF Kept
<1>6. Wanted(c)' \subseteq Wanted(c)
  BY <1>1, <1>3, <1>5 DEF Wanted, Start, Order, Position
<1>7. ASSUME NEW e \in Wanted(c)'
      PROVE  Position(e, Hits(c), Order(c)) <= Position(e, Hits(c), Order(c))'
  <2>1. e \in Nat /\ e > cut'
    BY <1>3, <1>4, <1>7 DEF Wanted, Kept
  <2>2. Preceding(e, Hits(c), Order(c)) \subseteq Hits(c)'
    <3>1. \A f \in Hits(c) : f \in arrived' /\ (f > cut' => f \in Hits(c)')
      BY <1>1 DEF Hits, Found, Matching, Kept
    <3>2. CASE ask[c].order = "desc"
      <4>1. \A f \in Preceding(e, Hits(c), Order(c)) : f \in Hits(c) /\ f > e /\ f \in Nat
        BY <1>4, <3>2 DEF Preceding, Order
      <4> QED
        BY <1>1, <2>1, <3>1, <4>1
    <3>3. CASE cut' = 0
      <4>1. \A f \in Hits(c) : f > cut'
        BY <1>4, <3>3, IndexAssumption DEF Events
      <4> QED
        BY <3>1, <4>1 DEF Preceding
    <3> QED
      BY <1>1, <3>2, <3>3 DEF NothingSlips
  <2>3. Position(e, Hits(c), Order(c))' = Position(e, Hits(c)', Order(c))
    BY <1>1 DEF Position, Order
  <2> QED
    BY <1>4, <2>2, <2>3, PositionGrows
<1> QED
  BY <1>2, <1>6, <1>7

LEMMA NothingExpired ==
  ASSUME TypeOK, cut = 0
  PROVE  Kept(arrived) = arrived
<1>1. \A e \in Events : e > cut
  BY IndexAssumption DEF Events
<1>2. arrived \subseteq Events
  BY DEF TypeOK
<1> QED
  BY <1>1, <1>2 DEF Kept

LEMMA SizesAreNumbers ==
  ASSUME TypeOK, NEW c \in Clients
  PROVE  /\ at[c] \in Nat /\ Limit(ask[c]) \in Nat /\ PageSize \in Nat /\ Start(c) \in Nat
         /\ Cardinality(Hits(c)) \in Nat
         /\ Cardinality(Page(Hits(c), Order(c), at[c], PageSize)) \in Nat
<1>1. ask[c] \in Asks /\ at[c] \in Nat
  BY DEF TypeOK
<1>2. Limit(ask[c]) \in Nat /\ ask[c].offset \in Nat
  BY <1>1, LimitType, AskTypes
<1>3. PageSize \in Nat
  BY QueryAssumption DEF PageSize
<1>4. Hits(c) \in SUBSET Events
  BY ExpectedAreEvents
<1>5. Page(Hits(c), Order(c), at[c], PageSize) \in SUBSET Events
  BY <1>4, PageOfHits
<1> QED
  BY <1>1, <1>2, <1>3, <1>4, <1>5, EventsFinite DEF Start

\* The client's own step keeps the invariant if no wanted event that it has not
\* received is before its new offset, and none at all when it has come to its end.
LEMMA StillAhead ==
  ASSUME TypeOK, NEW c \in Clients, WalkInv(c),
         UNCHANGED <<index, ask, begin>>, got[c] \subseteq got'[c],
         phase'[c] \in {"downloaded", "checked"} => ask[c].kind = "download",
         \A e \in Wanted(c) : e \in got'[c] \/ Position(e, Hits(c), Order(c)) >= at'[c]
           \/ ~NothingSlips(c) \/ ask[c].kind \notin {"walk", "download"},
         Arrived(c)' /\ NothingSlips(c) => Wanted(c) \subseteq got'[c]
  PROVE  WalkInv(c)'
<1>1. /\ Wanted(c)' = Wanted(c) /\ Hits(c)' = Hits(c) /\ Order(c)' = Order(c)
      /\ NothingSlips(c)' = NothingSlips(c) /\ ask' = ask
      /\ begin'[c] \subseteq arrived'
  BY DEF WalkInv, index, Wanted, Kept, Expected, Matching, Order, Start, Hits, Found,
         NothingSlips, Position
<1>2. Ahead(c)'
  BY <1>1 DEF Ahead, Position
<1>3. Complete(c)'
  BY <1>1 DEF Complete
<1> QED
  BY <1>1, <1>2, <1>3 DEF WalkInv

LEMMA ListKeepsAhead ==
  ASSUME TypeOK, NEW c \in Clients, WalkInv(c), ListEvents(c)
  PROVE  WalkInv(c)'
<1> DEFINE a == ask[c]
<1> DEFINE page == Page(Hits(c), Order(c), at[c], Limit(a))
<1>1. UNCHANGED <<index, ask, begin, sure>> /\ phase[c] = "asking" /\ a.kind \in {"walk", "back"}
  BY DEF ListEvents
<1>2. CASE ListFailed(c)
  <2>1. ~Arrived(c)'
    BY <1>2 DEF ListFailed, Arrived
  <2>2. phase'[c] \notin {"downloaded", "checked"}
    BY <1>2 DEF ListFailed
  <2>3. \A e \in Wanted(c) : e \in got'[c] \/ Position(e, Hits(c), Order(c)) >= at'[c]
           \/ ~NothingSlips(c) \/ ask[c].kind \notin {"walk", "download"}
    BY <1>2 DEF ListFailed, WalkInv, Ahead
  <2> QED
    BY <1>1, <1>2, <2>1, <2>2, <2>3, StillAhead DEF ListFailed
<1>3. CASE ListedPage(c)
  <2>1. phase'[c] \in {"complete", "asking"} /\ got'[c] = got[c] \cup page
    BY <1>3 DEF ListedPage, Hits, Order
  <2>2. ASSUME a.kind = "walk", NothingSlips(c), NEW e \in Wanted(c), e \notin got'[c]
        PROVE  /\ Position(e, Hits(c), Order(c)) >= at[c] + Limit(a)
               /\ at[c] + Limit(a) < Cardinality(Hits(c))
    <3>1. e \notin got[c] /\ e \notin page
      BY <2>1, <2>2
    <3>2. Position(e, Hits(c), Order(c)) >= at[c]
      BY <2>2, <3>1 DEF WalkInv, Ahead
    <3>3. e \in Hits(c) /\ Hits(c) \in SUBSET Events
      BY WantedAreHits, ExpectedAreEvents DEF WalkInv, Wanted
    <3>4. Position(e, Hits(c), Order(c)) >= at[c] + Limit(a)
      BY <3>1, <3>2, <3>3, SizesAreNumbers, BehindThePage
    <3>5. Position(e, Hits(c), Order(c)) < Cardinality(Hits(c))
          /\ Position(e, Hits(c), Order(c)) \in Nat
      BY <3>3, PositionBelowTotal, PositionCounts
    <3> QED
      BY <3>4, <3>5, SizesAreNumbers
  <2>3. CASE a.kind = "walk"
    <3> DEFINE links == NextLink(at[c], Limit(a), Cardinality(Hits(c)))
    <3>1. (links = {} /\ phase'[c] = "complete" /\ at'[c] = at[c])
            \/ (at'[c] \in links /\ phase'[c] = "asking")
      BY <1>3, <2>3 DEF ListedPage, Hits
    <3>2. ASSUME NothingSlips(c), NEW e \in Wanted(c), e \notin got'[c]
          PROVE  phase'[c] = "asking" /\ at'[c] = at[c] + Limit(a)
      <4>1. links = {at[c] + Limit(a)}
        BY <2>2, <2>3, <3>2 DEF NextLink
      <4> HIDE DEF links
      <4> QED
        BY <3>1, <4>1
    <3>3. \A e \in Wanted(c) : e \in got'[c] \/ Position(e, Hits(c), Order(c)) >= at'[c]
             \/ ~NothingSlips(c) \/ ask[c].kind \notin {"walk", "download"}
      BY <2>2, <2>3, <3>2
    <3>4. Arrived(c)' => phase'[c] # "asking"
      BY DEF Arrived
    <3>5. Arrived(c)' /\ NothingSlips(c) => Wanted(c) \subseteq got'[c]
      BY <3>2, <3>4
    <3> QED
      BY <1>1, <2>1, <3>3, <3>5, StillAhead
  <2>4. CASE a.kind = "back"
    <3>1. ~Arrived(c)'
      BY <1>1, <2>1, <2>4 DEF Arrived
    <3> QED
      BY <1>1, <2>1, <2>4, <3>1, StillAhead
  <2> QED
    BY <1>1, <2>3, <2>4
<1> QED
  BY <1>2, <1>3, ListOutcomes

LEMMA DownloadKeepsAhead ==
  ASSUME TypeOK, NEW c \in Clients, WalkInv(c), Download(c)
  PROVE  WalkInv(c)'
<1> DEFINE a == ask[c]
<1> DEFINE page == Page(Hits(c), Order(c), at[c], PageSize)
<1>1. UNCHANGED <<index, ask, begin, sure>> /\ phase[c] = "asking" /\ a.kind = "download"
  BY DownloadOutcomes
<1>2. CASE \/ RequestRefusal(a) # 0 /\ Refuse(c, RequestRefusal(a))
           \/ Downloaded(c)
  <2>1. /\ phase'[c] \in {"failed", "downloaded"}
        /\ got'[c] = got[c] /\ at'[c] = at[c]
    BY <1>2 DEF Refuse, Downloaded, End, TypeOK
  <2>2. ~Arrived(c)'
    BY <2>1 DEF Arrived
  <2>3. \A e \in Wanted(c) : e \in got'[c] \/ Position(e, Hits(c), Order(c)) >= at'[c]
           \/ ~NothingSlips(c) \/ ask[c].kind \notin {"walk", "download"}
    BY <2>1 DEF WalkInv, Ahead
  <2> QED
    BY <1>1, <2>1, <2>2, <2>3, StillAhead
<1>3. CASE DownloadedPage(c)
  <2>1. phase'[c] \in {"asking", "downloaded"}
    BY <1>1, <1>3 DEF DownloadedPage, End, TypeOK
  <2>2. got'[c] = got[c] \cup page
    BY <1>3 DEF DownloadedPage, Receive, TypeOK, Hits, Order
  <2>3. at'[c] = at[c] + Cardinality(page)
    BY <1>3 DEF DownloadedPage, TypeOK, Hits, Order
  <2>4. Hits(c) \in SUBSET Events
    BY ExpectedAreEvents
  <2>5. Cardinality(page) <= PageSize /\ Cardinality(page) \in Nat
    BY <2>4, SizesAreNumbers, PageSizeBound
  <2> HIDE DEF page
  <2>6. ASSUME NothingSlips(c), NEW e \in Wanted(c), e \notin got'[c]
        PROVE  Position(e, Hits(c), Order(c)) >= at'[c]
    <3>1. e \notin got[c] /\ e \notin page
      BY <2>2, <2>6
    <3>2. Position(e, Hits(c), Order(c)) >= at[c]
      BY <1>1, <2>6, <3>1 DEF WalkInv, Ahead
    <3>3. e \in Hits(c)
      BY WantedAreHits DEF WalkInv, Wanted
    <3>4. Position(e, Hits(c), Order(c)) >= at[c] + PageSize
      BY <2>4, <3>1, <3>2, <3>3, SizesAreNumbers, BehindThePage DEF page
    <3>5. Position(e, Hits(c), Order(c)) \in Nat
      BY <2>4, PositionCounts
    <3> QED
      BY <2>3, <2>5, <3>4, <3>5, SizesAreNumbers
  <2>7. ~Arrived(c)'
    BY <1>1, <2>1 DEF Arrived
  <2> QED
    BY <1>1, <2>1, <2>2, <2>6, <2>7, StillAhead
<1> QED
  BY <1>2, <1>3, DownloadOutcomes

\* As many lines as a later list has in total: nothing is left to receive.
LEMMA CheckKeepsAhead ==
  ASSUME TypeOK, NEW c \in Clients, WalkInv(c), CheckDownload(c)
  PROVE  WalkInv(c)'
<1>1. /\ UNCHANGED <<index, ask, begin>> /\ got'[c] = got[c] /\ at'[c] = at[c]
      /\ phase[c] = "downloaded" /\ phase'[c] = "checked"
  BY DEF CheckDownload, TypeOK
<1>2. ask[c].kind = "download"
  BY <1>1 DEF WalkInv
<1>3. PICK reply \in Replies(IndexID(ask[c])) :
        ~IsPartial(reply) /\ sure' = [sure EXCEPT ![c] = (Total(reply) = at[c])]
  BY DEF CheckDownload
<1>4. sure'[c] = (Cardinality(Hits(c)) = at[c])
  BY <1>3, WholeReply DEF Total, Hits, TypeOK
<1>5. ASSUME sure'[c], NothingSlips(c), NEW e \in Wanted(c) PROVE e \in got[c]
  <2>1. e \in Hits(c) /\ Hits(c) \in SUBSET Events
    BY WantedAreHits, ExpectedAreEvents DEF WalkInv, Wanted
  <2>2. Position(e, Hits(c), Order(c)) < at[c] /\ Position(e, Hits(c), Order(c)) \in Nat
    BY <1>4, <1>5, <2>1, PositionBelowTotal, PositionCounts
  <2>3. ~(Position(e, Hits(c), Order(c)) >= at[c])
    BY <2>2, SizesAreNumbers
  <2> QED
    BY <1>2, <1>5, <2>3 DEF WalkInv, Ahead
<1>6. Arrived(c)' => sure'[c]
  BY <1>1 DEF Arrived
<1>7. \A e \in Wanted(c) : e \in got'[c] \/ Position(e, Hits(c), Order(c)) >= at'[c]
           \/ ~NothingSlips(c) \/ ask[c].kind \notin {"walk", "download"}
  BY <1>1 DEF WalkInv, Ahead
<1> QED
  BY <1>1, <1>2, <1>5, <1>6, <1>7, StillAhead

LEMMA OtherStepsKeepAhead ==
  ASSUME TypeOK, NEW c \in Clients, WalkInv(c),
         Retry(c) \/ ShowEvent(c) \/ GetAttributes(c)
  PROVE  WalkInv(c)'
<1>1. UNCHANGED <<index, ask, begin>> /\ got[c] \subseteq got'[c] /\ at'[c] = at[c]
  <2>1. CASE Retry(c)
    BY <2>1 DEF Retry
  <2>2. CASE ShowEvent(c)
    BY <2>2 DEF ShowEvent, Refuse, Receive, TypeOK
  <2>3. CASE GetAttributes(c)
    BY <2>3 DEF GetAttributes, Refuse
  <2> QED
    BY <2>1, <2>2, <2>3
<1>2. /\ phase'[c] \in {"asking", "complete", "failed"}
      /\ phase'[c] = "complete" => ask[c].kind \in {"show", "values"}
  <2>1. CASE Retry(c)
    BY <2>1 DEF Retry, TypeOK
  <2>2. CASE ShowEvent(c)
    BY <2>2 DEF ShowEvent, Refuse, End, TypeOK
  <2>3. CASE GetAttributes(c)
    <3>1. /\ ask[c].kind = "values"
          /\ \/ End(c, "failed", ValuesRefusal(ask[c])) \/ End(c, "failed", 500)
             \/ End(c, "failed", 504) \/ End(c, "complete", 200)
      BY <2>3, ZenonT(60) DEF GetAttributes, Refuse
    <3> QED
      BY <3>1 DEF End, TypeOK
  <2> QED
    BY <2>1, <2>2, <2>3
<1>3. ~Arrived(c)'
  BY <1>1, <1>2 DEF Arrived
<1>4. \A e \in Wanted(c) : e \in got'[c] \/ Position(e, Hits(c), Order(c)) >= at'[c]
           \/ ~NothingSlips(c) \/ ask[c].kind \notin {"walk", "download"}
  BY <1>1 DEF WalkInv, Ahead
<1> QED
  BY <1>1, <1>2, <1>3, <1>4, StillAhead

LEMMA IndexKeepsAhead ==
  ASSUME TypeOK, TypeOK', [Next]_vars, NEW c \in Clients, WalkInv(c), Unmoved(c)
  PROVE  WalkInv(c)'
<1>1. /\ UNCHANGED <<ask, begin>> /\ arrived \subseteq arrived'
      /\ UNCHANGED <<phase[c], at[c], got[c], sure[c]>>
  BY StepFrame DEF Unmoved
<1>2. ASSUME NothingSlips(c)', NEW e \in Wanted(c)'
      PROVE  /\ NothingSlips(c) /\ e \in Wanted(c)
             /\ Position(e, Hits(c), Order(c)) >= at[c] => Position(e, Hits(c), Order(c))' >= at'[c]
  <2>1. NothingSlips(c) /\ e \in Wanted(c)
        /\ Position(e, Hits(c), Order(c)) <= Position(e, Hits(c), Order(c))'
    BY <1>2, NothingMovesUp
  <2>2. Position(e, Hits(c), Order(c)) \in Nat
    BY ExpectedAreEvents, PositionCounts
  <2>3. Position(e, Hits(c), Order(c))' \in Nat
    <3>1. Hits(c)' \in SUBSET Events
      BY DEF Hits, Found, Matching, Kept, TypeOK
    <3>2. Position(e, Hits(c), Order(c))' = Position(e, Hits(c)', Order(c)')
      BY DEF Position
    <3> QED
      BY <3>1, <3>2, PositionCounts
  <2> QED
    BY <1>1, <2>1, <2>2, <2>3, SizesAreNumbers
<1>3. Ahead(c)'
  BY <1>1, <1>2 DEF WalkInv, Ahead
<1>4. Complete(c)'
  <2>1. Arrived(c)' = Arrived(c)
    BY <1>1 DEF Arrived
  <2> QED
    BY <1>1, <1>2, <2>1 DEF WalkInv, Complete
<1> QED
  BY <1>1, <1>3, <1>4 DEF WalkInv

LEMMA InitWalk ==
  ASSUME Init, NEW c \in Clients
  PROVE  WalkInv(c)
<1>1. TypeOK
  BY InitTypeOK
<1>2. /\ begin[c] = arrived /\ cut = 0 /\ phase[c] = "asking" /\ ask[c] \in Asks
      /\ at[c] = IF ask[c].kind \in {"walk", "back"} THEN ask[c].offset ELSE 0
  BY DEF Init
<1>3. Hits(c) = Expected(c)
  <2>1. Kept(arrived) = arrived
    BY <1>1, <1>2, NothingExpired
  <2> QED
    BY <1>2, <2>1 DEF Hits, Found, Expected
<1>4. at[c] \in Nat /\ (ask[c].kind \in {"walk", "download"} => at[c] = Start(c))
  BY <1>1, <1>2 DEF Start, TypeOK
<1>5. Ahead(c)
  BY <1>3, <1>4 DEF Ahead, Wanted
<1> QED
  BY <1>2, <1>5 DEF WalkInv, Complete, Arrived

\* No step loses an event of a walk or a download.
THEOREM WalksStayAhead == Spec => [](\A c \in Clients : WalkInv(c))
<1>1. Init => \A c \in Clients : WalkInv(c)
  BY InitWalk
<1>2. TypeOK /\ TypeOK' /\ (\A c \in Clients : WalkInv(c)) /\ [Next]_vars
        => (\A c \in Clients : WalkInv(c))'
  <2> SUFFICES ASSUME TypeOK, TypeOK', \A c \in Clients : WalkInv(c), [Next]_vars,
                      NEW c \in Clients
               PROVE  WalkInv(c)'
    OBVIOUS
  <2>1. CASE ClientStep(c)
    BY <2>1, ListKeepsAhead, DownloadKeepsAhead, CheckKeepsAhead, OtherStepsKeepAhead
       DEF ClientStep
  <2>2. CASE Unmoved(c)
    BY <2>2, IndexKeepsAhead
  <2> QED
    BY <2>1, <2>2, StepFrame
<1> QED
  BY <1>1, <1>2, EventsTypeCorrect, PTL DEF Spec

\* ListEvents, with next links: whoever follows them to the end has every event
\* that was there at first and still is, for any index, window, limits and faults.
THEOREM WalksAreComplete == Spec => []FinishedWalkIsComplete
<1>1. (\A c \in Clients : WalkInv(c)) => FinishedWalkIsComplete
  <2> SUFFICES ASSUME NEW c \in Clients, WalkInv(c), ask[c].kind = "walk",
                      phase[c] = "complete", NothingSlips(c),
                      NEW e \in Kept(Expected(c)),
                      Position(e, Expected(c), ask[c].order) >= ask[c].offset
               PROVE  e \in got[c]
    BY DEF FinishedWalkIsComplete
  <2>1. e \in Wanted(c)
    BY DEF Wanted, Start, Order
  <2> QED
    BY <2>1 DEF WalkInv, Complete, Arrived
<1> QED
  BY <1>1, WalksStayAhead, PTL

\* DownloadEvents and the total of a list: with the newest events first, or while
\* nothing expires, equal counts mean that nothing is missing, although a download
\* that fails half way looks like a complete one.
THEOREM EqualCountsAreComplete == Spec => []EqualCountMeansComplete
<1>1. TypeOK /\ (\A c \in Clients : WalkInv(c)) => EqualCountMeansComplete
  <2> SUFFICES ASSUME TypeOK, NEW c \in Clients, WalkInv(c), phase[c] = "checked", sure[c],
                      NothingSlips(c), NEW e \in Kept(Expected(c))
               PROVE  e \in got[c]
    BY DEF EqualCountMeansComplete
  <2>1. ask[c].kind = "download"
    BY DEF WalkInv
  <2>2. Position(e, Expected(c), Order(c)) \in Nat
    BY ExpectedAreEvents, PositionCounts
  <2>3. e \in Wanted(c)
    BY <2>1, <2>2 DEF Wanted, Start
  <2> QED
    BY <2>3 DEF WalkInv, Complete, Arrived
<1> QED
  BY <1>1, WalksStayAhead, EventsTypeCorrect, PTL

-----------------------------------------------------------------------------
\* Walks and downloads of an index to which nothing is added.

LEMMA StepsOfKind ==
  ASSUME NEW c \in Clients, WalkInv(c), ClientStep(c)
  PROVE  /\ ask[c].kind \in {"walk", "back"} => ListEvents(c) \/ Retry(c)
         /\ ask[c].kind = "download" => Download(c) \/ CheckDownload(c)
         /\ ask[c].kind = "values" => GetAttributes(c)
BY ZenonT(60) DEF WalkInv, ClientStep, ListEvents, Retry, Download, CheckDownload, ShowEvent,
       GetAttributes

Still(c) == arrived = begin[c]

LEMMA StillBefore ==
  ASSUME TypeOK, [Next]_vars, NEW c \in Clients, WalkInv(c), Still(c)'
  PROVE  /\ Still(c) /\ UNCHANGED arrived /\ Hits(c)' \in SUBSET Hits(c)
         /\ cut' = 0 => cut = 0
<1>1. /\ UNCHANGED <<ask, begin>> /\ arrived \subseteq arrived'
      /\ cut <= cut' /\ {cut, cut'} \subseteq Nat
  BY StepFrame
<1>2. Still(c) /\ UNCHANGED arrived
  BY <1>1 DEF Still, WalkInv
<1>3. \A e \in Events : e > cut' => e > cut
  <2> SUFFICES ASSUME NEW e \in Events, e > cut' PROVE e > cut
    OBVIOUS
  <2>1. e \in Nat
    BY IndexAssumption DEF Events
  <2> QED
    BY <1>1, <2>1
<1>4. Hits(c)' \in SUBSET Hits(c)
  BY <1>1, <1>2, <1>3 DEF Hits, Found, Matching, Kept, TypeOK
<1> QED
  BY <1>1, <1>2, <1>4

\* What a walk has received is before its offset.
Behind(c) ==
  ask[c].kind = "walk" /\ Still(c) =>
    /\ again[c] = {}
    /\ phase[c] = "complete" \/ \A e \in got[c] \cap Hits(c) : Position(e, Hits(c), Order(c)) < at[c]

LEMMA WalkStaysBehind ==
  ASSUME TypeOK, [Next]_vars, NEW c \in Clients, WalkInv(c), Behind(c)
  PROVE  Behind(c)'
<1> DEFINE page == Page(Hits(c), Order(c), at[c], Limit(ask[c]))
<1> SUFFICES ASSUME ask'[c].kind = "walk", Still(c)'
             PROVE  /\ again'[c] = {}
                    /\ phase'[c] = "complete" \/ \A e \in got'[c] \cap Hits(c)' :
                         Position(e, Hits(c), Order(c))' < at'[c]
  BY DEF Behind
<1>1. UNCHANGED <<ask, begin>> /\ Still(c) /\ Hits(c)' \in SUBSET Hits(c) /\ Hits(c) \in SUBSET Events
  BY StepFrame, StillBefore, ExpectedAreEvents
<1>2. again[c] = {}
  BY <1>1 DEF Behind
<1>3. ASSUME NEW e \in Hits(c)
      PROVE  /\ Position(e, Hits(c), Order(c))' <= Position(e, Hits(c), Order(c))
             /\ {Position(e, Hits(c), Order(c))', Position(e, Hits(c), Order(c))} \subseteq Nat
  <2>1. Position(e, Hits(c), Order(c))' = Position(e, Hits(c)', Order(c))
    BY <1>1 DEF Position, Order
  <2>2. Preceding(e, Hits(c)', Order(c)) \subseteq Hits(c)
    BY <1>1 DEF Preceding
  <2> QED
    BY <1>1, <2>1, <2>2, PositionGrows, PositionCounts
<1>4. ASSUME UNCHANGED <<phase[c], got[c], again[c], at[c]>>
      PROVE  /\ again'[c] = {}
             /\ phase'[c] = "complete" \/ \A e \in got'[c] \cap Hits(c)' :
                  Position(e, Hits(c), Order(c))' < at'[c]
  <2> SUFFICES ASSUME phase'[c] # "complete", NEW e \in got'[c] \cap Hits(c)'
               PROVE  Position(e, Hits(c), Order(c))' < at'[c]
    BY <1>2, <1>4
  <2>1. e \in Hits(c)
    BY <1>1
  <2>2. Position(e, Hits(c), Order(c)) < at[c]
    BY <1>1, <1>4, <2>1 DEF Behind
  <2> QED
    BY <1>3, <1>4, <2>1, <2>2, SizesAreNumbers
<1>5. CASE Unmoved(c)
  BY <1>4, <1>5 DEF Unmoved
<1>6. CASE Retry(c)
  <2>1. phase[c] = "failed" /\ UNCHANGED <<got, again, at, index>> /\ phase'[c] = "asking"
    BY <1>6 DEF Retry, TypeOK
  <2>2. Hits(c)' = Hits(c) /\ Order(c)' = Order(c)
    BY <1>1, <2>1 DEF Hits, Found, Matching, Kept, index, Order
  <2>3. \A e \in got[c] \cap Hits(c) : Position(e, Hits(c), Order(c)) < at[c]
    BY <1>1, <2>1 DEF Behind
  <2> QED
    BY <1>2, <2>1, <2>2, <2>3 DEF Position
<1>7. CASE ListEvents(c) /\ ListFailed(c)
  <2>1. phase[c] = "asking" /\ UNCHANGED index
    BY <1>7 DEF ListEvents
  <2>2. got'[c] = got[c] /\ again'[c] = again[c] /\ at'[c] = at[c]
    BY <1>7 DEF ListFailed
  <2>3. Hits(c)' = Hits(c) /\ Order(c)' = Order(c)
    BY <1>1, <2>1 DEF Hits, Found, Matching, Kept, index, Order
  <2>4. \A e \in got[c] \cap Hits(c) : Position(e, Hits(c), Order(c)) < at[c]
    BY <1>1, <2>1 DEF Behind
  <2> QED
    BY <1>2, <2>2, <2>3, <2>4 DEF Position
<1>8. CASE ListEvents(c) /\ ListedPage(c)
  <2>1. phase[c] = "asking" /\ UNCHANGED index
    BY <1>8 DEF ListEvents
  <2>2. Hits(c)' = Hits(c) /\ Order(c)' = Order(c)
    BY <1>1, <2>1 DEF Hits, Found, Matching, Kept, index, Order
  <2>3. \A e \in got[c] \cap Hits(c) : Position(e, Hits(c), Order(c)) < at[c]
    BY <1>1, <2>1 DEF Behind
  <2>4. /\ got'[c] = got[c] \cup page /\ again'[c] = again[c] \cup (got[c] \cap page)
        /\ \/ phase'[c] = "complete"
           \/ at'[c] \in NextLink(at[c], Limit(ask[c]), Cardinality(Hits(c)))
    BY <1>1, <1>8 DEF ListedPage, Hits, Order
  <2>5. \A e \in page : /\ e \in Hits(c) /\ Position(e, Hits(c), Order(c)) >= at[c]
                        /\ Position(e, Hits(c), Order(c)) < at[c] + Limit(ask[c])
    BY DEF Page
  <2> HIDE DEF page
  <2>6. got[c] \cap page = {}
    <3> SUFFICES ASSUME NEW e \in got[c], e \in page PROVE FALSE
      OBVIOUS
    <3> QED
      BY <1>3, <2>3, <2>5, SizesAreNumbers
  <2>7. ASSUME phase'[c] # "complete", NEW e \in got'[c] \cap Hits(c)'
        PROVE  Position(e, Hits(c), Order(c))' < at'[c]
    <3>1. at'[c] = at[c] + Limit(ask[c])
      BY <2>4, <2>7 DEF NextLink
    <3>2. Position(e, Hits(c), Order(c)) < at[c] + Limit(ask[c])
      <4>1. CASE e \in page
        BY <2>5, <4>1
      <4>2. CASE e \in got[c]
        BY <1>3, <2>2, <2>3, <2>7, <4>2, SizesAreNumbers
      <4> QED
        BY <2>4, <2>7, <4>1, <4>2
    <3> QED
      BY <2>2, <3>1, <3>2 DEF Position
  <2> QED
    BY <1>2, <2>4, <2>6, <2>7
<1>9. CASE ClientStep(c)
  BY <1>1, <1>6, <1>7, <1>8, <1>9, StepsOfKind, ListOutcomes
<1> QED
  BY <1>5, <1>9, StepFrame

\* The window: what stops a walk, and what cannot have begun without it.
Windowed(c) ==
  LET a == ask[c] IN
  a.kind = "walk" =>
    /\ status[c] = 400 => RequestRefusal(a) # 0 \/ WindowExceeded(at[c], Limit(a))
    /\ status[c] = 400 => phase[c] = "failed"
    /\ got[c] # {} => RequestRefusal(a) = 0 /\ Limit(a) <= MaxLimit

LEMMA WalkStaysWindowed ==
  ASSUME TypeOK, [Next]_vars, NEW c \in Clients, WalkInv(c), Windowed(c)
  PROVE  Windowed(c)'
<1> DEFINE a == ask[c]
<1>1. UNCHANGED ask
  BY StepFrame
<1>2. CASE Unmoved(c)
  BY <1>1, <1>2 DEF Unmoved, Windowed, WindowExceeded, RequestRefusal, AuthRefusal,
                    OverrideRefused, Limit
<1> SUFFICES ASSUME ask'[c].kind = "walk", ClientStep(c)
             PROVE  /\ status'[c] = 400 =>
                         RequestRefusal(a) # 0 \/ WindowExceeded(at'[c], Limit(a))
                    /\ status'[c] = 400 => phase'[c] = "failed"
                    /\ got'[c] # {} => RequestRefusal(a) = 0 /\ Limit(a) <= MaxLimit
  BY <1>1, <1>2, StepFrame DEF Windowed, WindowExceeded, RequestRefusal, AuthRefusal,
                               OverrideRefused, Limit
<1>3. CASE Retry(c)
  <2>1. status'[c] = status[c] /\ status[c] # 400 /\ got'[c] = got[c]
    BY <1>3 DEF Retry
  <2> QED
    BY <1>1, <2>1 DEF Windowed
<1>4. CASE ListEvents(c) /\ ListFailed(c)
  <2>1. got'[c] = got[c] /\ at'[c] = at[c] /\ phase'[c] = "failed"
    BY <1>4 DEF ListFailed
  <2>2. status'[c] = 400 => ListRefusal(a, at[c]) = 400
    BY <1>4 DEF ListFailed
  <2>3. ListRefusal(a, at[c]) = 400 =>
          RequestRefusal(a) # 0 \/ WindowExceeded(at[c], Limit(a))
    BY DEF ListRefusal
  <2> QED
    BY <1>1, <2>1, <2>2, <2>3 DEF Windowed
<1>5. CASE ListEvents(c) /\ ListedPage(c)
  <2>1. status'[c] = 200 /\ ListRefusal(a, at[c]) = 0
    BY <1>5 DEF ListedPage
  <2>2. RequestRefusal(a) = 0 /\ ~WindowExceeded(at[c], Limit(a))
    BY <2>1 DEF ListRefusal
  <2>3. Limit(a) <= MaxLimit
    BY <2>2, SizesAreNumbers, QueryAssumption DEF WindowExceeded
  <2> QED
    BY <2>1, <2>2, <2>3
<1> QED
  BY <1>1, <1>3, <1>4, <1>5, StepsOfKind, ListOutcomes

\* A walk takes whole pages.
Paced(c) ==
  LET a == ask[c] IN
  a.kind = "walk" => \E m \in Nat : at[c] = a.offset + m * Limit(a)

LEMMA WalkKeepsPace ==
  ASSUME TypeOK, [Next]_vars, NEW c \in Clients, WalkInv(c), Paced(c)
  PROVE  Paced(c)'
<1> DEFINE a == ask[c]
<1>1. UNCHANGED ask /\ Limit(a)' = Limit(a)
  BY StepFrame DEF Limit
<1>2. CASE at'[c] = at[c]
  BY <1>1, <1>2 DEF Paced
<1>3. CASE ListEvents(c) /\ ListedPage(c) /\ a.kind = "walk" /\ at'[c] = at[c] + Limit(a)
  <2>1. PICK m \in Nat : at[c] = a.offset + m * Limit(a)
    BY <1>3 DEF Paced
  <2>2. Limit(a) \in Nat /\ a.offset \in Nat
    BY AskTypes, QueryAssumption DEF Limit, TypeOK
  <2>3. at'[c] = a.offset + (m + 1) * Limit(a)
    BY <1>3, <2>1, <2>2
  <2> QED
    BY <1>1, <2>3 DEF Paced
<1>4. CASE ListEvents(c) /\ a.kind = "walk"
  <2>1. CASE ListFailed(c)
    BY <1>2, <2>1 DEF ListFailed
  <2>2. CASE ListedPage(c)
    <3>1. at'[c] = at[c] \/ at'[c] = at[c] + Limit(a)
      BY <1>4, <2>2 DEF ListedPage, NextLink
    <3> QED
      BY <1>2, <1>3, <1>4, <2>2, <3>1
  <2> QED
    BY <1>4, <2>1, <2>2, ListOutcomes
<1>5. CASE Retry(c) \/ Unmoved(c)
  BY <1>2, <1>5 DEF Retry, Unmoved
<1>6. CASE a.kind # "walk"
  BY <1>1, <1>6 DEF Paced
<1> QED
  BY <1>4, <1>5, <1>6, StepFrame, StepsOfKind

\* Fewer pages end earlier.
LEMMA PagesAdd ==
  ASSUME NEW m \in Nat, NEW n \in Nat, NEW size \in Nat, m < n + 1
  PROVE  m * size <= n * size
<1>1. PICK more \in Nat : n = m + more
  <2>1. n - m \in Nat /\ n = m + (n - m)
    OBVIOUS
  <2> QED
    BY <2>1
<1>2. n * size = m * size + more * size /\ more * size \in Nat /\ m * size \in Nat
  BY <1>1
<1> QED
  BY <1>2

\* A download ends with its first page: the next would exceed the window.
OnePage(c) == ask[c].kind = "download" => at[c] = Cardinality(got[c])

LEMMA DownloadStaysOnePage ==
  ASSUME TypeOK, [Next]_vars, NEW c \in Clients, WalkInv(c), OnePage(c)
  PROVE  OnePage(c)'
<1> DEFINE page == Page(Hits(c), Order(c), at[c], PageSize)
<1>1. UNCHANGED ask
  BY StepFrame
<1>2. ASSUME at'[c] = at[c], got'[c] = got[c] PROVE OnePage(c)'
  BY <1>1, <1>2 DEF OnePage
<1>3. CASE Unmoved(c)
  BY <1>2, <1>3 DEF Unmoved
<1>4. CASE ask[c].kind # "download"
  BY <1>1, <1>4 DEF OnePage
<1>5. CASE ask[c].kind = "download" /\ CheckDownload(c)
  BY <1>2, <1>5 DEF CheckDownload
<1>6. CASE ask[c].kind = "download" /\ Download(c)
  <2>1. CASE Downloaded(c) \/ Refuse(c, RequestRefusal(ask[c]))
    BY <1>2, <2>1 DEF Downloaded, Refuse
  <2>2. CASE DownloadedPage(c)
    <3>1. at[c] = 0
      BY <2>2, SizesAreNumbers, QueryAssumption DEF DownloadedPage, WindowExceeded, PageSize
    <3>2. got[c] = {}
      <4>1. IsFiniteSet(got[c])
        BY EventsFinite DEF TypeOK
      <4> QED
        BY <1>6, <3>1, <4>1, FS_EmptySet DEF OnePage
    <3>3. got'[c] = page /\ at'[c] = Cardinality(page)
      <4>1. got'[c] = got[c] \cup page
        BY <2>2 DEF DownloadedPage, Receive, TypeOK, Hits, Order
      <4>2. at'[c] = at[c] + Cardinality(page)
        BY <2>2 DEF DownloadedPage, TypeOK, Hits, Order
      <4> HIDE DEF page
      <4> QED
        BY <3>1, <3>2, <4>1, <4>2, SizesAreNumbers DEF page
    <3> QED
      BY <3>3 DEF OnePage
  <2> QED
    BY <1>6, <2>1, <2>2, DownloadOutcomes
<1> QED
  BY <1>3, <1>4, <1>5, <1>6, StepFrame, StepsOfKind

\* A walk back has received what is behind its page, and the first event is last.
Remaining(c) ==
  LET a == ask[c] IN
  a.kind = "back" /\ Still(c) /\ cut = 0 =>
    \A e \in Expected(c) :
      Position(e, Expected(c), Order(c)) < a.offset + Limit(a) =>
        \/ e \in got[c]
        \/ phase[c] # "complete" /\ Position(e, Expected(c), Order(c)) < at[c] + Limit(a)

LEMMA WalkBackLeavesNothing ==
  ASSUME TypeOK, [Next]_vars, NEW c \in Clients, WalkInv(c), Remaining(c)
  PROVE  Remaining(c)'
<1> DEFINE a == ask[c]
<1> DEFINE place(e) == Position(e, Expected(c), Order(c))
<1> DEFINE page == Page(Expected(c), Order(c), at[c], Limit(a))
<1>1. UNCHANGED <<ask, begin>>
  BY StepFrame
<1>2. /\ Expected(c)' = Expected(c) /\ Order(c)' = Order(c) /\ Limit(a)' = Limit(a)
      /\ \A e : place(e)' = place(e)
  BY <1>1 DEF Expected, Matching, Order, Limit, Position
<1> SUFFICES ASSUME a.kind = "back", Still(c)', cut' = 0, NEW e \in Expected(c),
                    place(e) < a.offset + Limit(a)
             PROVE  \/ e \in got'[c]
                    \/ phase'[c] # "complete" /\ place(e) < at'[c] + Limit(a)
  BY <1>1, <1>2 DEF Remaining
<1>3. Still(c) /\ cut = 0
  BY StillBefore
<1>4. \/ e \in got[c]
      \/ phase[c] # "complete" /\ place(e) < at[c] + Limit(a)
  BY <1>3 DEF Remaining
<1>5. Hits(c) = Expected(c)
  <2>1. Kept(arrived) = arrived
    BY <1>3, NothingExpired
  <2> QED
    BY <1>3, <2>1 DEF Hits, Found, Expected, Still
<1>6. Expected(c) \in SUBSET Events /\ place(e) \in Nat
  BY ExpectedAreEvents, PositionCounts
<1>7. CASE Unmoved(c)
  BY <1>4, <1>7 DEF Unmoved
<1>8. CASE Retry(c)
  <2>1. phase[c] = "failed" /\ phase'[c] = "asking" /\ UNCHANGED <<at, got>>
    BY <1>8 DEF Retry, TypeOK
  <2> QED
    BY <1>4, <2>1
<1>9. CASE ListEvents(c) /\ ListFailed(c)
  BY <1>4, <1>9 DEF ListFailed, ListEvents
<1>10. CASE ListEvents(c) /\ ListedPage(c)
  <2>1. got'[c] = got[c] \cup page
    BY <1>5, <1>10 DEF ListedPage, Hits, Order
  <2>2. \/ PrevLink(at[c], Limit(a)) = {}
        \/ at'[c] \in PrevLink(at[c], Limit(a)) /\ phase'[c] = "asking"
    BY <1>10 DEF ListedPage
  <2> HIDE DEF place, page
  <2>3. ASSUME e \notin got'[c] PROVE place(e) < at[c]
    <3>1. e \notin page /\ place(e) < at[c] + Limit(a)
      BY <1>4, <2>1, <2>3
    <3>2. place(e) >= at[c] => place(e) >= at[c] + Limit(a)
      BY <1>6, <3>1, SizesAreNumbers, BehindThePage DEF place, page
    <3> QED
      BY <1>6, <3>1, <3>2, SizesAreNumbers
  <2>4. ASSUME e \notin got'[c]
        PROVE  phase'[c] = "asking" /\ place(e) < at'[c] + Limit(a)
    <3>1. place(e) < at[c] /\ at[c] # 0
      BY <1>6, <2>3, <2>4, SizesAreNumbers
    <3>2. phase'[c] = "asking" /\ at'[c] = IF at[c] < Limit(a) THEN 0 ELSE at[c] - Limit(a)
      BY <2>2, <3>1 DEF PrevLink
    <3> QED
      BY <1>6, <3>1, <3>2, SizesAreNumbers
  <2> QED
    BY <2>4
<1> QED
  BY <1>7, <1>8, <1>9, <1>10, StepFrame, StepsOfKind, ListOutcomes

-----------------------------------------------------------------------------
\* The invariant of walks and downloads, and what follows from it.

PagingInv(c) ==
  WalkInv(c) /\ Behind(c) /\ Windowed(c) /\ Paced(c) /\ OnePage(c) /\ Remaining(c)

LEMMA InitPaging ==
  ASSUME Init, NEW c \in Clients
  PROVE  PagingInv(c)
<1>1. /\ got[c] = {} /\ again[c] = {} /\ status[c] = 0 /\ phase[c] = "asking"
      /\ at[c] = IF ask[c].kind \in {"walk", "back"} THEN ask[c].offset ELSE 0
  BY DEF Init
<1>2. OnePage(c)
  BY <1>1, FS_EmptySet DEF OnePage
<1>3. Behind(c) /\ Windowed(c) /\ Remaining(c)
  BY <1>1 DEF Behind, Windowed, Remaining
<1>4. Paced(c)
  <2>1. ask[c].offset \in Nat /\ Limit(ask[c]) \in Nat
    BY AskTypes, QueryAssumption DEF Init, Limit
  <2>2. 0 \in Nat /\ ask[c].offset = ask[c].offset + 0 * Limit(ask[c])
    BY <2>1
  <2> QED
    BY <1>1, <2>2 DEF Paced
<1> QED
  BY <1>2, <1>3, <1>4, InitWalk DEF PagingInv

THEOREM PagingInvariance == Spec => []((\A c \in Clients : PagingInv(c)) /\ TypeOK)
<1>1. Init => \A c \in Clients : PagingInv(c)
  BY InitPaging
<1>2. TypeOK /\ (\A c \in Clients : WalkInv(c))' /\ (\A c \in Clients : PagingInv(c)) /\ [Next]_vars
        => (\A c \in Clients : PagingInv(c))'
  BY WalkStaysBehind, WalkStaysWindowed, WalkKeepsPace, DownloadStaysOnePage,
     WalkBackLeavesNothing DEF PagingInv
<1> QED
  BY <1>1, <1>2, EventsTypeCorrect, WalksStayAhead, PTL DEF Spec

\* ListEvents: the pages of a walk do not overlap as long as no event comes in.
THEOREM PagesDoNotOverlap == Spec => []NoRepeats
<1>1. (\A c \in Clients : PagingInv(c)) => NoRepeats
  BY DEF PagingInv, Behind, Still, NoRepeats
<1> QED
  BY <1>1, PagingInvariance, PTL

\* ListEvents and the window check: a walk that gets a 400 on its way has every
\* page that lies within the window.
THEOREM StoppedWalksSawTheWindow == Spec => []StoppedWalkHasSeenWindow
<1>1. TypeOK /\ (\A c \in Clients : PagingInv(c)) => StoppedWalkHasSeenWindow
  <2> SUFFICES ASSUME TypeOK, NEW c \in Clients, PagingInv(c), ask[c].kind = "walk",
                      status[c] = 400, got[c] # {}, arrived = begin[c], NothingSlips(c),
                      NEW n \in 0 .. MaxLimit, NEW e \in Kept(Expected(c)),
                      ask[c].offset + (n + 1) * Limit(ask[c]) <= MaxLimit,
                      Position(e, Expected(c), ask[c].order) \in OnPage(ask[c], n),
                      e \notin got[c]
               PROVE  FALSE
    BY DEF StoppedWalkHasSeenWindow
  <2> DEFINE place == Position(e, Expected(c), Order(c))
             size == Limit(ask[c])
             start == ask[c].offset
  <2>0. n \in Nat /\ size \in Nat \ {0} /\ start \in Nat /\ MaxLimit \in Nat
    BY AskTypes, QueryAssumption DEF Limit, TypeOK
  <2>1. place >= start /\ place < start + (n + 1) * size /\ place \in Nat
    <3>1. place \in Nat /\ place \in OnPage(ask[c], n)
      BY PlacesCount DEF Order
    <3>2. n * size \in Nat /\ (n + 1) * size \in Nat
      BY <2>0
    <3> HIDE DEF place, size, start
    <3> QED
      BY <2>0, <3>1, <3>2 DEF OnPage, size, start
  <2>2. e \in Wanted(c)
    BY <2>1 DEF Wanted, Start, Order
  <2>3. Position(e, Hits(c), Order(c)) >= at[c]
    BY <2>2 DEF PagingInv, WalkInv, Ahead
  <2>4. Hits(c) \subseteq Expected(c)
    BY DEF Hits, Found, Matching, Kept, Expected
  <2>5. Position(e, Hits(c), Order(c)) <= place /\ Position(e, Hits(c), Order(c)) \in Nat
    <3>1. Preceding(e, Hits(c), Order(c)) \subseteq Expected(c)
      BY <2>4 DEF Preceding
    <3> QED
      BY <3>1, ExpectedAreEvents, PositionGrows, PositionCounts
  <2>6. WindowExceeded(at[c], size) /\ size <= MaxLimit
    BY DEF PagingInv, Windowed
  <2>7. PICK m \in Nat : at[c] = start + m * size
    BY DEF PagingInv, Paced
  <2>8. at[c] > MaxLimit - size
    BY <2>6, SizesAreNumbers, QueryAssumption DEF WindowExceeded
  <2> HIDE DEF place, size, start
  <2>9. n + 1 <= m
    <3> SUFFICES ASSUME m < n + 1 PROVE FALSE
      BY <2>0
    <3>1. m * size <= n * size
      BY <2>0, PagesAdd
    <3>2. (n + 1) * size = n * size + size /\ n * size \in Nat /\ m * size \in Nat
      BY <2>0
    <3> QED
      BY <2>0, <2>7, <2>8, <3>1, <3>2 DEF size, start
  <2>10. (n + 1) * size <= m * size /\ (n + 1) * size \in Nat /\ m * size \in Nat
    BY <2>0, <2>9, PagesAdd
  <2> QED
    BY <2>0, <2>1, <2>3, <2>5, <2>7, <2>10
<1> QED
  BY <1>1, PagingInvariance, PTL

\* ListEvents, with previous links: a walk back leaves nothing out.
THEOREM WalksBackAreComplete == Spec => []FinishedWalkBackIsComplete
<1>1. (\A c \in Clients : PagingInv(c)) => FinishedWalkBackIsComplete
  BY DEF PagingInv, Remaining, Still, Order, FinishedWalkBackIsComplete
<1> QED
  BY <1>1, PagingInvariance, PTL

\* DownloadEvents: no event is written twice.
THEOREM DownloadsAreDistinct == Spec => []LinesAreDistinct
<1>1. (\A c \in Clients : PagingInv(c)) => LinesAreDistinct
  BY DEF PagingInv, OnePage, LinesAreDistinct
<1> QED
  BY <1>1, PagingInvariance, PTL

-----------------------------------------------------------------------------
\* No client asks for ever.

LEMMA ListMovesOn ==
  ASSUME TypeOK, NEW c \in Clients, ListEvents(c), phase'[c] = "asking"
  PROVE  Left(c)' < Left(c)
<1> DEFINE a == ask[c]
           total == Cardinality(Found(IndexID(a)))
<1>1. /\ at[c] \in Nat /\ Limit(a) \in Nat \ {0} /\ MaxLimit \in Nat /\ total \in Nat
      /\ UNCHANGED ask
  <2>1. Limit(a) \in Nat \ {0}
    BY AskTypes, QueryAssumption DEF Limit, TypeOK
  <2>2. total \in Nat
    BY FoundAreEvents, EventsFinite DEF TypeOK
  <2> QED
    BY <2>1, <2>2, QueryAssumption DEF TypeOK, ListEvents
<1>2. /\ a.kind \in {"walk", "back"} /\ ListRefusal(a, at[c]) = 0
      /\ at'[c] \in IF a.kind = "walk" THEN NextLink(at[c], Limit(a), total)
                                       ELSE PrevLink(at[c], Limit(a))
  BY ListOutcomes DEF ListedPage, ListFailed
<1> HIDE DEF total
<1>3. CASE a.kind = "walk"
  <2>1. ~(Limit(a) > MaxLimit) /\ ~(at[c] > MaxLimit - Limit(a))
    BY <1>2 DEF ListRefusal, WindowExceeded
  <2>2. at'[c] = at[c] + Limit(a)
    BY <1>2, <1>3 DEF NextLink
  <2> QED
    BY <1>1, <1>3, <2>1, <2>2 DEF Left
<1>4. CASE a.kind = "back"
  <2>1. at[c] # 0 /\ at'[c] = IF at[c] < Limit(a) THEN 0 ELSE at[c] - Limit(a)
    BY <1>2, <1>4 DEF PrevLink
  <2> QED
    BY <1>1, <1>4, <2>1 DEF Left
<1> QED
  BY <1>2, <1>3, <1>4

LEMMA DownloadMovesOn ==
  ASSUME TypeOK, NEW c \in Clients, Download(c), phase'[c] = "asking"
  PROVE  Left(c)' < Left(c)
<1> DEFINE a == ask[c]
<1> DEFINE paged(page) == at' = [at EXCEPT ![c] = at[c] + Cardinality(page)] /\ page # {}
<1>0. ~Refuse(c, RequestRefusal(a)) /\ ~Downloaded(c) /\ ~End(c, "downloaded", 200)
  BY DEF Downloaded, Refuse, End, TypeOK
<1>1. PICK reply \in Replies(IndexID(a)) :
        /\ ~IsPartial(reply) /\ ~WindowExceeded(at[c], PageSize)
        /\ paged(Page(reply.hits, a.order, at[c], PageSize))
  BY <1>0 DEF Download
<1> DEFINE page == Page(reply.hits, a.order, at[c], PageSize)
<1>2. /\ at[c] \in Nat /\ MaxLimit \in Nat /\ PageSize \in Nat
      /\ UNCHANGED ask /\ a.kind = "download"
  BY QueryAssumption DEF TypeOK, PageSize, Download
<1>3. reply.hits \in SUBSET Events
  BY <1>1, WholeReply, FoundAreEvents DEF TypeOK
<1>4. Cardinality(page) \in Nat \ {0} /\ Cardinality(page) <= PageSize
  <2>1. page \in SUBSET Events
    BY <1>3, PageOfHits
  <2>2. IsFiniteSet(page) /\ Cardinality(page) \in Nat /\ page # {}
    BY <1>1, <2>1, EventsFinite
  <2>3. Cardinality(page) # 0
    BY <2>2, FS_EmptySet
  <2> QED
    BY <1>2, <1>3, <2>2, <2>3, PageSizeBound
<1>5. at'[c] = at[c] + Cardinality(page)
  BY <1>1 DEF TypeOK
<1> HIDE DEF page
<1>6. at[c] = 0 /\ PageSize = MaxLimit
  BY <1>1, <1>2 DEF WindowExceeded, PageSize
<1> QED
  BY <1>2, <1>4, <1>5, <1>6 DEF Left

\* A walk takes at most as many pages as the window has places, a walk back as
\* many as its first offset, a download no more than one page with a page after
\* it: each page brings the end nearer, whatever is added to the index
\* meanwhile (ListEvents, DownloadEvents).
THEOREM EachPageIsProgress == Spec => PagesMoveOn
<1>1. ASSUME TypeOK, NEW c \in Clients, ClientStep(c), phase[c] = "asking", phase'[c] = "asking"
      PROVE  Left(c)' < Left(c)
  <2>1. ~Retry(c) /\ ~CheckDownload(c)
    BY <1>1 DEF Retry, CheckDownload
  <2>2. \A code : ~Refuse(c, code) /\ ~End(c, "complete", code)
    BY <1>1 DEF Refuse, End, TypeOK
  <2>3. ~ShowEvent(c)
    BY <2>2 DEF ShowEvent
  <2>4. ~GetAttributes(c)
    <3>1. GetAttributes(c) => End(c, "complete", 200) \/ \E code : Refuse(c, code)
      BY ZenonT(60) DEF GetAttributes
    <3> QED
      BY <2>2, <3>1
  <2> QED
    BY <1>1, <2>1, <2>3, <2>4, ListMovesOn, DownloadMovesOn DEF ClientStep
<1>2. TypeOK => [\A c \in Clients :
        ClientStep(c) /\ phase[c] = "asking" /\ phase'[c] = "asking" => Left(c)' < Left(c)]_vars
  BY <1>1
<1> QED
  BY <1>2, EventsTypeCorrect, PTL DEF PagesMoveOn

-----------------------------------------------------------------------------
\* The values of an attribute.

LEMMA ListedStays ==
  ASSUME TypeOK, [Next]_vars, NEW c \in Clients
  PROVE  listed'[c] = listed[c] \/ GetAttributes(c)
<1>1. ASSUME NEW d \in Clients, ClientStep(d)
      PROVE  UNCHANGED listed \/ GetAttributes(d)
  BY <1>1 DEF ClientStep, ListEvents, Retry, Download, CheckDownload, ShowEvent
<1>2. ASSUME NEW d \in Clients, GetAttributes(d), d # c
      PROVE  listed'[c] = listed[c]
  <2>1. ASSUME NEW values, listed' = [listed EXCEPT ![d] = values]
        PROVE  listed'[c] = listed[c]
    BY <1>2, <2>1 DEF TypeOK
  <2> QED
    BY <1>2, <2>1 DEF GetAttributes
<1>3. CASE \E d \in Clients : ClientStep(d)
  BY <1>1, <1>2, <1>3
<1>4. CASE UNCHANGED listed
  BY <1>4
<1> QED
  BY <1>3, <1>4 DEF Next, Arrive, Expire, clients, vars

LEMMA ValuesOutcomes ==
  ASSUME TypeOK, NEW c \in Clients, GetAttributes(c)
  PROVE  LET a == ask[c] IN
         /\ UNCHANGED <<index, ask, begin>>
         /\ \/ /\ listed'[c] = listed[c]
               /\ phase'[c] = "complete" => a.attribute = ""
            \/ /\ ValuesRefusal(a) = 0
               /\ \E found \in Buckets(Hits(c), ValuesLimit(a)) :
                    listed'[c] = Unique(found, a.depth)
<1> DEFINE a == ask[c]
<1>1. UNCHANGED <<index, ask, begin>>
  BY DEF GetAttributes
<1>2. ASSUME NEW code, Refuse(c, code), UNCHANGED listed
      PROVE  listed'[c] = listed[c] /\ phase'[c] = "failed"
  BY <1>2 DEF Refuse, End, TypeOK
<1>3. CASE /\ UNCHANGED listed
           /\ \/ Refuse(c, ValuesRefusal(a)) \/ Refuse(c, 500) \/ Refuse(c, 504)
              \/ a.attribute = ""
  BY <1>1, <1>2, <1>3, ZenonT(60)
<1>4. ASSUME NEW reply \in Replies(IndexID(a)), ~IsPartial(reply), ValuesRefusal(a) = 0,
             NEW found \in Buckets(reply.hits, ValuesLimit(a)),
             listed' = [listed EXCEPT ![c] = Unique(found, a.depth)]
      PROVE  /\ found \in Buckets(Hits(c), ValuesLimit(a))
             /\ listed'[c] = Unique(found, a.depth)
  <2>1. reply.hits = Hits(c)
    BY <1>4, WholeReply DEF Hits
  <2> QED
    BY <1>4, <2>1 DEF TypeOK
<1>5. CASE /\ ValuesRefusal(a) = 0
           /\ \E reply \in Replies(IndexID(a)) :
                /\ ~IsPartial(reply)
                /\ \E found \in Buckets(reply.hits, ValuesLimit(a)) :
                     listed' = [listed EXCEPT ![c] = Unique(found, a.depth)]
  BY <1>1, <1>4, <1>5
<1> QED
  BY <1>3, <1>5 DEF GetAttributes

\* Values that a client is told are in events that it may read.
OwnListed(c) ==
  LET token == ask[c].token IN
    ~token.viewer => \A v \in listed[c] : \E e \in Events :
      /\ TruncateSlashPath(ValueOf[e], ask[c].depth) = v
      /\ \/ token.project \in TenantsOf[e]
         \/ token.project = NoTenant /\ token.domain \in TenantsOf[e]

LEMMA ListedStaysOwn ==
  ASSUME TypeOK, [Next]_vars, NEW c \in Clients, OwnListed(c)
  PROVE  OwnListed(c)'
<1> DEFINE a == ask[c]
<1>1. UNCHANGED ask
  BY StepFrame
<1>2. CASE listed'[c] = listed[c]
  BY <1>1, <1>2 DEF OwnListed
<1>3. ASSUME GetAttributes(c), ValuesRefusal(a) = 0, ~a.token.viewer,
             NEW found \in Buckets(Hits(c), ValuesLimit(a)), NEW v \in found
      PROVE  \E e \in Events :
               /\ TruncateSlashPath(ValueOf[e], a.depth) = TruncateSlashPath(v, a.depth)
               /\ \/ a.token.project \in TenantsOf[e]
                  \/ a.token.project = NoTenant /\ a.token.domain \in TenantsOf[e]
  <2>1. PICK e \in Hits(c) : ValueOf[e] = v
    BY <1>3 DEF Buckets, Values
  <2>2. RequestRefusal(a) = 0 /\ ~TenantRefused(IndexID(a)) /\ a \in Asks
    BY <1>3 DEF ValuesRefusal, RequestRefusal, AuthRefusal, TypeOK
  <2>3. \/ a.token.project \in TenantsOf[e]
        \/ a.token.project = NoTenant /\ a.token.domain \in TenantsOf[e]
    BY <1>3, <2>2, FoundIsOwn DEF Hits
  <2> QED
    BY <2>1, <2>3, ExpectedAreEvents
<1>4. CASE GetAttributes(c) /\ listed'[c] # listed[c]
  <2>1. PICK found \in Buckets(Hits(c), ValuesLimit(a)) :
          ValuesRefusal(a) = 0 /\ listed'[c] = Unique(found, a.depth)
    BY <1>4, ValuesOutcomes
  <2> SUFFICES ASSUME ~a.token.viewer, NEW w \in listed'[c]
               PROVE  \E e \in Events :
                        /\ TruncateSlashPath(ValueOf[e], a.depth) = w
                        /\ \/ a.token.project \in TenantsOf[e]
                           \/ a.token.project = NoTenant /\ a.token.domain \in TenantsOf[e]
    BY <1>1 DEF OwnListed
  <2> QED
    BY <1>3, <1>4, <2>1 DEF Unique
<1> QED
  BY <1>2, <1>4, ListedStays

\* GetAttributes: nobody but a cluster viewer learns of values of another tenant.
THEOREM NobodyLearnsOthersValues == Spec => []OnlyOwnValues
<1>1. Init => \A c \in Clients : OwnListed(c)
  BY DEF Init, OwnListed
<1>2. TypeOK /\ (\A c \in Clients : OwnListed(c)) /\ [Next]_vars
        => (\A c \in Clients : OwnListed(c))'
  BY ListedStaysOwn
<1>3. (\A c \in Clients : OwnListed(c)) => OnlyOwnValues
  BY DEF OwnListed, OnlyOwnValues
<1> QED
  BY <1>1, <1>2, <1>3, EventsTypeCorrect, PTL DEF Spec

\* A short list of whole values is a complete one.
ShortList(c) ==
  LET a == ask[c] IN
    /\ a.kind = "values" /\ a.attribute # "" /\ a.depth = 0
    /\ phase[c] = "complete" /\ Cardinality(listed[c]) < ValuesLimit(a)
    => Values(Kept(Expected(c))) \subseteq listed[c]

LEMMA ShortListStaysComplete ==
  ASSUME TypeOK, [Next]_vars, NEW c \in Clients, WalkInv(c), ShortList(c)
  PROVE  ShortList(c)'
<1> DEFINE a == ask[c]
<1>1. UNCHANGED <<ask, begin>> /\ cut <= cut' /\ {cut, cut'} \subseteq Nat
  BY StepFrame
<1>2. Kept(Expected(c))' \subseteq Kept(Expected(c))
  <2>1. Expected(c)' = Expected(c) /\ Expected(c) \subseteq Nat
    BY <1>1, ExpectedAreEvents, IndexAssumption DEF Expected, Matching, Events
  <2>2. ASSUME NEW e \in Expected(c), e > cut' PROVE e > cut
    BY <1>1, <2>1, <2>2
  <2> QED
    BY <2>1, <2>2 DEF Kept
<1>3. Values(Kept(Expected(c)))' \subseteq Values(Kept(Expected(c)))
  BY <1>2 DEF Values
<1>4. ValuesLimit(a)' = ValuesLimit(a)
  BY <1>1 DEF ValuesLimit
<1>5. CASE Unmoved(c) /\ listed'[c] = listed[c]
  BY <1>1, <1>3, <1>4, <1>5 DEF Unmoved, ShortList
<1>6. CASE a.kind # "values"
  BY <1>1, <1>6 DEF ShortList
<1>7. CASE GetAttributes(c)
  <2>1. CASE phase'[c] = "complete" => a.attribute = ""
    BY <1>1, <2>1 DEF ShortList
  <2>2. CASE ~(phase'[c] = "complete" => a.attribute = "")
    <3>1. PICK found \in Buckets(Hits(c), ValuesLimit(a)) :
            listed'[c] = Unique(found, a.depth)
      BY <1>7, <2>2, ValuesOutcomes
    <3> SUFFICES ASSUME a.depth = 0, Cardinality(listed'[c]) < ValuesLimit(a)
                 PROVE  Values(Kept(Expected(c)))' \subseteq listed'[c]
      BY <1>1, <1>4 DEF ShortList
    <3>2. listed'[c] = found
      BY <3>1 DEF Unique, TruncateSlashPath
    <3>3. found = Values(Hits(c))
      <4>1. Cardinality(found) # ValuesLimit(a)
        <5>1. ValuesLimit(a) \in Nat
          BY AskTypes, QueryAssumption DEF ValuesLimit, TypeOK
        <5>2. IsFiniteSet(found)
          <6>1. IsFiniteSet(Hits(c)) /\ Hits(c) \subseteq Events
            BY ExpectedAreEvents, EventsFinite
          <6> DEFINE value == [e \in Hits(c) |-> ValueOf[e]]
          <6>2. value \in Surjection(Hits(c), {ValueOf[e] : e \in Hits(c)})
            BY DEF Surjection
          <6>3. IsFiniteSet({ValueOf[e] : e \in Hits(c)})
            BY <6>1, <6>2, FS_Surjection
          <6> QED
            BY <6>3, FS_Subset DEF Buckets, Values
        <5>3. Cardinality(found) \in Nat
          BY <5>2, FS_CardinalityType
        <5> QED
          BY <3>2, <5>1, <5>3
      <4> QED
        BY <4>1 DEF Buckets
    <3>4. Kept(Expected(c)) \subseteq Hits(c)
      BY WantedAreHits DEF WalkInv
    <3> QED
      BY <1>3, <3>2, <3>3, <3>4 DEF Values
  <2> QED
    BY <2>1, <2>2
<1> QED
  BY <1>5, <1>6, <1>7, StepFrame, StepsOfKind, ListedStays

\* GetAttributes: neither a search that was cut short nor the limit makes a list
\* of values look complete that is not.
THEOREM ShortListsAreComplete == Spec => []ShortListIsComplete
<1>1. Init => \A c \in Clients : ShortList(c)
  BY DEF Init, ShortList
<1>2. TypeOK /\ (\A c \in Clients : WalkInv(c)) /\ (\A c \in Clients : ShortList(c))
        /\ [Next]_vars => (\A c \in Clients : ShortList(c))'
  BY ShortListStaysComplete
<1>3. (\A c \in Clients : ShortList(c)) => ShortListIsComplete
  BY DEF ShortList, ShortListIsComplete
<1> QED
  BY <1>1, <1>2, <1>3, EventsTypeCorrect, WalksStayAhead, PTL DEF Spec
=============================================================================
