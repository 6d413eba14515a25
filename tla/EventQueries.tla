----------------------------- MODULE EventQueries -----------------------------
(***************************************************************************)
(* The read side of Hermez: lists with their links, downloads, single      *)
(* events and the values of an attribute, each for the tenant that the     *)
(* token or the project_id parameter stands for, out of one index that     *)
(* grows and loses its oldest events while clients work through it.        *)
(*                                                                         *)
(* Events are numbered by their eventTime, no two of which are the same.   *)
(* One arrives at any time until it is too old.  What matches a query is a *)
(* set; a page is cut from it by the positions of its events.  A value is  *)
(* the sequence of the parts between its slashes; a list of values is a    *)
(* set, for the handler sorts it and leaves out what is there twice.       *)
(***************************************************************************)
EXTENDS Naturals, FiniteSets, Sequences

CONSTANTS
  Clients,
  LastEvent,     \* events are 1 .. LastEvent
  Tenants,       \* IDs of projects and domains
  TenantsOf,     \* tenant_ids of each event
  ValueOf,       \* the attribute's value in each event, << >> if it has none
  KeyRank,       \* the place of each value in the order of their names
  MaxLimit,      \* opensearch.max_result_window
  DefaultLimit,  \* the limit of a list that gives none, or 0
  DefaultValues, \* the limit of a list of values that gives none
  FallbackPage,  \* the page size of a download when MaxLimit is 0
  Asks,          \* what the clients may ask
  Faulty         \* whether searches may fail or be cut short

Events == 1 .. LastEvent

NoTenant == ""
AllTenants == "*"
Unavailable == "unavailable"
TenantIDs == Tenants \cup {NoTenant, AllTenants, Unavailable}

\* Values, part by part.
Paths == Seq(STRING)

Tokens ==
  [valid     : BOOLEAN,                      \* Keystone accepts it
   permitted : BOOLEAN,                      \* policy event:list or event:show
   viewer    : BOOLEAN,                      \* policy cluster_viewer
   project   : Tenants \cup {NoTenant},      \* its scope
   domain    : Tenants \cup {NoTenant}]

\* A walk follows the next links, a walk back the previous ones.
AskSpace ==
  [kind       : {"walk", "back", "download", "show", "values"},
   token      : Tokens,
   wellFormed : BOOLEAN,                     \* the other parameters parse
   project    : TenantIDs,                   \* project_id
   domain     : Tenants \cup {NoTenant},     \* domain_id
   order      : {"asc", "desc"},             \* by eventTime; desc by default
   offset     : Nat,
   limit      : Nat,
   event      : Events,                      \* the one to show
   attribute  : {"known", "unknown", ""},    \* the name of the one to list
   depth      : Nat]                         \* max_depth of its values, 0 for any

ASSUME IndexAssumption ==
  /\ LastEvent \in Nat \ {0}
  /\ TenantsOf \in [Events -> SUBSET Tenants]
  /\ ValueOf \in [Events -> Paths]
  /\ {NoTenant, AllTenants, Unavailable} \cap Tenants = {}

ASSUME KeyAssumption ==
  /\ KeyRank \in [{ValueOf[e] : e \in Events} -> Nat]
  /\ \A e, f \in Events : KeyRank[ValueOf[e]] = KeyRank[ValueOf[f]] => ValueOf[e] = ValueOf[f]

ASSUME QueryAssumption ==
  /\ MaxLimit \in Nat
  /\ {DefaultLimit, DefaultValues, FallbackPage} \subseteq Nat \ {0}
  /\ Asks \subseteq AskSpace
  /\ Faulty \in BOOLEAN

VARIABLES
  arrived,  \* the events that have reached the index
  cut,      \* events up to this one are no longer kept
  ask,      \* what each client asks
  begin,    \* what had arrived when it began
  phase,    \* "asking", or how its requests have ended
  at,       \* the offset of its next page; for a download, the lines so far
  status,   \* of the last answer, 0 while there is none
  got,      \* the events it has received
  again,    \* those it has received more than once
  listed,   \* the values it has received
  partial,  \* whether a search of its last request was cut short
  sure      \* whether its check of a download said "complete"

index == <<arrived, cut>>
vars == <<index, ask, begin, phase, at, status, got, again, listed, partial, sure>>

-----------------------------------------------------------------------------
\* Whose events a request is about.

\* Only a cluster viewer may name another project.
OverrideRefused(a) == a.project # NoTenant /\ ~a.token.viewer

\* getIndexID.
IndexID(a) ==
  CASE a.project # NoTenant -> a.project
    [] a.project = NoTenant /\ a.token.project # NoTenant -> a.token.project
    [] a.project = NoTenant /\ a.token.project = NoTenant -> a.token.domain

\* A tenant ID that is handed to the search unchecked.
AnyTenant(t) == FALSE

\* validateTenantID.
TenantRefused(t) == t \in {NoTenant, Unavailable}

\* AuthHandler.
AuthRefusal(a) ==
  IF ~a.token.valid THEN 401 ELSE IF ~a.token.permitted THEN 403 ELSE 0

\* The checks the handlers of events make before they search, in their order.
RequestRefusal(a) ==
  IF AuthRefusal(a) # 0 THEN AuthRefusal(a)
  ELSE IF ~a.wellFormed THEN 400
  ELSE IF OverrideRefused(a) THEN 403
  ELSE 0

-----------------------------------------------------------------------------
\* The search.

Kept(events) == {e \in events : e > cut}

\* The events the query's tenant filter lets through.
Matching(t, events) ==
  {e \in events : t \in {NoTenant, AllTenants} \/ t \in TenantsOf[e]}

Found(t) == Matching(t, Kept(arrived))

Position(e, hits, order) ==
  Cardinality({f \in hits : IF order = "asc" THEN f < e ELSE f > e})

\* from and size with one event too many.
LongPage(hits, order, offset, limit) ==
  {e \in hits : Position(e, hits, order) \in offset .. offset + limit}

Page(hits, order, offset, limit) ==
  {e \in hits : /\ offset <= Position(e, hits, order)
                /\ Position(e, hits, order) < offset + limit}

\* What OpenSearch answers: with timedOut, any part of what there is.
Replies(t) ==
  [hits : {Found(t)}, timedOut : {FALSE}]
  \cup IF Faulty THEN [hits : SUBSET Found(t), timedOut : {TRUE}] ELSE {}

\* A reply taken as it comes.
NeverPartial(reply) == FALSE

IsPartial(reply) == reply.timedOut

\* hits.total as it is without track_total_hits.
CappedTotal(reply) ==
  IF Cardinality(reply.hits) > MaxLimit THEN MaxLimit ELSE Cardinality(reply.hits)

Total(reply) == Cardinality(reply.hits)

\* A window that excludes the last page that ends with it.
NarrowWindow(offset, limit) == limit > MaxLimit \/ offset >= MaxLimit - limit

\* The window check left to OpenSearch.
NoWindow(offset, limit) == FALSE

WindowExceeded(offset, limit) == limit > MaxLimit \/ offset > MaxLimit - limit

-----------------------------------------------------------------------------
\* How a request ends.

End(c, how, code) ==
  /\ phase' = [phase EXCEPT ![c] = how]
  /\ status' = [status EXCEPT ![c] = code]

Refuse(c, code) ==
  /\ End(c, "failed", code)
  /\ UNCHANGED <<at, got, again>>

Receive(c, events) ==
  /\ got' = [got EXCEPT ![c] = @ \cup events]
  /\ again' = [again EXCEPT ![c] = @ \cup (got[c] \cap events)]

-----------------------------------------------------------------------------
\* ListEvents, and the client that follows its links.

\* The default limit used for the search only, not for the links.
GivenLimit(a) == a.limit

Limit(a) == IF a.limit = 0 THEN DefaultLimit ELSE a.limit

ListRefusal(a, offset) ==
  IF RequestRefusal(a) # 0 THEN RequestRefusal(a)
  ELSE IF WindowExceeded(offset, Limit(a)) THEN 400
  ELSE IF TenantRefused(IndexID(a)) THEN 500
  ELSE 0

\* No link to a last page of one event.
EarlyLast(offset, limit, total) ==
  IF offset + limit + 1 < total THEN {offset + limit} ELSE {}

\* The offset in each link, if the link is there.
NextLink(offset, limit, total) ==
  IF offset + limit < total THEN {offset + limit} ELSE {}

\* No previous page before the first full one.
FullPagesOnly(offset, limit) == IF offset >= limit THEN {offset - limit} ELSE {}

\* The previous offset without its lower bound.
BelowZero(offset, limit) == IF offset = 0 THEN {} ELSE {offset - limit}

PrevLink(offset, limit) ==
  IF offset = 0 THEN {} ELSE {IF offset < limit THEN 0 ELSE offset - limit}

FollowLink(c, links) ==
  /\ status' = [status EXCEPT ![c] = 200]
  /\ \/ links = {} /\ phase' = [phase EXCEPT ![c] = "complete"] /\ UNCHANGED at
     \/ \E link \in links : at' = [at EXCEPT ![c] = link] /\ UNCHANGED phase

ListEvents(c) ==
  LET a == ask[c]
      offset == at[c]
      refusal == ListRefusal(a, offset)
  IN
  /\ phase[c] = "asking" /\ a.kind \in {"walk", "back"}
  /\ \/ /\ refusal # 0
        /\ Refuse(c, refusal)
        /\ partial' = [partial EXCEPT ![c] = FALSE]
     \/ /\ refusal = 0
        /\ \E reply \in Replies(IndexID(a)) :
             /\ partial' = [partial EXCEPT ![c] = reply.timedOut]
             /\ \/ IsPartial(reply) /\ Refuse(c, 504)
                \/ /\ ~IsPartial(reply)
                   /\ Receive(c, Page(reply.hits, a.order, offset, Limit(a)))
                   /\ FollowLink(c, IF a.kind = "walk"
                                    THEN NextLink(offset, Limit(a), Total(reply))
                                    ELSE PrevLink(offset, Limit(a)))
     \/ /\ refusal = 0 /\ Faulty
        /\ Refuse(c, 500)
        /\ partial' = [partial EXCEPT ![c] = FALSE]
  /\ UNCHANGED <<index, ask, begin, listed, sure>>

\* The client asks for the same page once more.
Retry(c) ==
  /\ phase[c] = "failed" /\ status[c] \in {500, 504}
  /\ ask[c].kind \in {"walk", "back"}
  /\ phase' = [phase EXCEPT ![c] = "asking"]
  /\ UNCHANGED <<index, ask, begin, at, status, got, again, listed, partial, sure>>

-----------------------------------------------------------------------------
\* DownloadEvents: one step per page.

PageSize == IF MaxLimit = 0 THEN FallbackPage ELSE MaxLimit

\* Once the handler has begun to write, whatever stops it looks like the end.
Downloaded(c) == End(c, "downloaded", 200) /\ UNCHANGED <<at, got, again>>

Download(c) ==
  LET a == ask[c]
      offset == at[c]
      refused == WindowExceeded(offset, PageSize) \/ TenantRefused(IndexID(a))
  IN
  /\ phase[c] = "asking" /\ a.kind = "download"
  /\ \/ /\ RequestRefusal(a) # 0
        /\ Refuse(c, RequestRefusal(a))
        /\ UNCHANGED partial
     \/ /\ RequestRefusal(a) = 0
        /\ refused \/ Faulty
        /\ Downloaded(c)
        /\ UNCHANGED partial
     \/ /\ RequestRefusal(a) = 0 /\ ~refused
        /\ \E reply \in Replies(IndexID(a)) :
             LET page == Page(reply.hits, a.order, offset, PageSize)
                 lines == offset + Cardinality(page)
             IN
             /\ partial' = [partial EXCEPT ![c] = @ \/ reply.timedOut]
             /\ \/ IsPartial(reply) /\ Downloaded(c)
                \/ /\ ~IsPartial(reply)
                   /\ Receive(c, page)
                   /\ at' = [at EXCEPT ![c] = lines]
                   /\ IF lines >= Total(reply) \/ page = {}
                      THEN End(c, "downloaded", 200)
                      ELSE UNCHANGED <<phase, status>>
  /\ UNCHANGED <<index, ask, begin, listed, sure>>

\* The client compares the lines it has with the total of a list.
CheckDownload(c) ==
  LET a == ask[c] IN
  /\ phase[c] = "downloaded"
  /\ ListRefusal(a, 0) = 0
  /\ \E reply \in Replies(IndexID(a)) :
       /\ ~IsPartial(reply)
       /\ sure' = [sure EXCEPT ![c] = (Total(reply) = at[c])]
  /\ phase' = [phase EXCEPT ![c] = "checked"]
  /\ UNCHANGED <<index, ask, begin, at, status, got, again, listed, partial>>

-----------------------------------------------------------------------------
\* GetEventDetails.

\* The first of the hits with that id, if there is one.
GetEvent(reply, e) == reply.hits \cap {e}

ShowEvent(c) ==
  LET a == ask[c] IN
  /\ phase[c] = "asking" /\ a.kind = "show"
  /\ \/ /\ RequestRefusal(a) # 0
        /\ Refuse(c, RequestRefusal(a))
        /\ UNCHANGED partial
     \/ /\ RequestRefusal(a) = 0
        /\ Faulty \/ TenantRefused(IndexID(a))
        /\ Refuse(c, 500)
        /\ UNCHANGED partial
     \/ /\ RequestRefusal(a) = 0 /\ ~TenantRefused(IndexID(a))
        /\ \E reply \in Replies(IndexID(a)) :
             /\ partial' = [partial EXCEPT ![c] = reply.timedOut]
             /\ \/ IsPartial(reply) /\ Refuse(c, 500)
                \/ /\ ~IsPartial(reply) /\ GetEvent(reply, a.event) # {}
                   /\ Receive(c, GetEvent(reply, a.event))
                   /\ End(c, "complete", 200)
                   /\ UNCHANGED at
                \/ /\ ~IsPartial(reply) /\ GetEvent(reply, a.event) = {}
                   /\ Refuse(c, 404)
  /\ UNCHANGED <<index, ask, begin, listed, sure>>

-----------------------------------------------------------------------------
\* GetAttributes.

ValuesLimit(a) ==
  IF a.limit # 0 THEN a.limit
  ELSE IF DefaultValues < MaxLimit THEN DefaultValues ELSE MaxLimit

ValuesRefusal(a) ==
  IF AuthRefusal(a) # 0 THEN AuthRefusal(a)
  ELSE IF ~a.wellFormed \/ ValuesLimit(a) > MaxLimit THEN 400
  ELSE IF OverrideRefused(a) THEN 403
  ELSE IF TenantRefused(IndexID(a)) THEN 500
  ELSE IF a.attribute = "unknown" THEN 400
  ELSE 0

Values(hits) == {ValueOf[e] : e \in hits} \ {<< >>}
Frequency(v, hits) == Cardinality({e \in hits : ValueOf[e] = v})

\* The order of a terms aggregation: by frequency, then by name.
Precedes(v, w, hits) ==
  \/ Frequency(v, hits) > Frequency(w, hits)
  \/ Frequency(v, hits) = Frequency(w, hits) /\ KeyRank[v] < KeyRank[w]

\* Its buckets: the first values in that order.
Buckets(hits, limit) ==
  {found \in SUBSET Values(hits) :
     /\ \A v \in found, w \in Values(hits) \ found : Precedes(v, w, hits)
     /\ \/ Cardinality(found) = limit
        \/ Cardinality(found) < limit /\ found = Values(hits)}

TruncateSlashPath(path, depth) ==
  IF depth = 0 \/ Len(path) <= depth THEN path ELSE SubSeq(path, 1, depth)

\* The values of the buckets, cut and each one once.
Unique(found, depth) == {TruncateSlashPath(v, depth) : v \in found}

\* A name that is empty once its newlines are gone is answered with nothing, and
\* OpenSearch refuses to aggregate no values.
GetAttributes(c) ==
  LET a == ask[c] IN
  /\ phase[c] = "asking" /\ a.kind = "values"
  /\ \/ /\ AuthRefusal(a) = 0 /\ a.attribute = ""
        /\ End(c, "complete", 200)
        /\ UNCHANGED <<at, got, again, listed, partial>>
     \/ /\ AuthRefusal(a) # 0 \/ a.attribute # ""
        /\ ValuesRefusal(a) # 0
        /\ Refuse(c, ValuesRefusal(a))
        /\ UNCHANGED <<listed, partial>>
     \/ /\ ValuesRefusal(a) = 0 /\ a.attribute # ""
        /\ Faulty \/ ValuesLimit(a) = 0
        /\ Refuse(c, 500)
        /\ UNCHANGED <<listed, partial>>
     \/ /\ ValuesRefusal(a) = 0 /\ a.attribute # "" /\ ValuesLimit(a) # 0
        /\ \E reply \in Replies(IndexID(a)) :
             /\ partial' = [partial EXCEPT ![c] = reply.timedOut]
             /\ \/ IsPartial(reply) /\ Refuse(c, 504) /\ UNCHANGED listed
                \/ /\ ~IsPartial(reply)
                   /\ \E found \in Buckets(reply.hits, ValuesLimit(a)) :
                        listed' = [listed EXCEPT ![c] = Unique(found, a.depth)]
                   /\ End(c, "complete", 200)
                   /\ UNCHANGED <<at, got, again>>
  /\ UNCHANGED <<index, ask, begin, sure>>

-----------------------------------------------------------------------------
\* The index, which others fill and prune.

clients == <<ask, begin, phase, at, status, got, again, listed, partial, sure>>

Arrive(e) ==
  /\ e \notin arrived /\ e > cut
  /\ arrived' = arrived \cup {e}
  /\ UNCHANGED <<cut, clients>>

Expire ==
  /\ cut < LastEvent
  /\ cut' = cut + 1
  /\ UNCHANGED <<arrived, clients>>

-----------------------------------------------------------------------------

Init ==
  /\ arrived \in SUBSET Events
  /\ cut = 0
  /\ ask \in [Clients -> Asks]
  /\ begin = [c \in Clients |-> arrived]
  /\ phase = [c \in Clients |-> "asking"]
  /\ at = [c \in Clients |-> IF ask[c].kind \in {"walk", "back"}
                             THEN ask[c].offset ELSE 0]
  /\ status = [c \in Clients |-> 0]
  /\ got = [c \in Clients |-> {}]
  /\ again = [c \in Clients |-> {}]
  /\ listed = [c \in Clients |-> {}]
  /\ partial = [c \in Clients |-> FALSE]
  /\ sure = [c \in Clients |-> FALSE]

ClientStep(c) ==
  \/ ListEvents(c) \/ Retry(c)
  \/ Download(c) \/ CheckDownload(c)
  \/ ShowEvent(c) \/ GetAttributes(c)

Next ==
  \/ \E c \in Clients : ClientStep(c)
  \/ \E e \in Events : Arrive(e)
  \/ Expire

Spec == Init /\ [][Next]_vars

\* A request that is answered, not one that fails with its search.
Answered(c) ==
  /\ ListEvents(c) \/ Download(c) \/ ShowEvent(c) \/ GetAttributes(c)
  /\ status'[c] \in {500, 504} => TenantRefused(IndexID(ask[c])) \/ MaxLimit = 0

\* A client sends its next request, and a handler's search returns: OpenSearch
\* answers within query_timeout.  No request is assumed to fail in the end.
FairSpec == Spec /\ \A c \in Clients : WF_vars(Answered(c))
=============================================================================
