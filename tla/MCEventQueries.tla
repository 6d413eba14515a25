---------------------------- MODULE MCEventQueries ----------------------------
(***************************************************************************)
(* Instance values of EventQueries for TLC.                                *)
(***************************************************************************)
EXTENDS EventProperties

CONSTANTS c1, p1, p2, d1

\* Events 1 and 2 are of project p1, 3 of both projects, 4 of all tenants.
MixedTenants == [e \in Events |->
  CASE e <= 2 -> {p1} [] e = 3 -> {p1, p2} [] e > 3 -> {p1, p2, d1}]

\* Two values below "update", one of them in most events, and events without any.
MixedValues == [e \in Events |->
  CASE e \in {1, 4} -> <<"update", "add">>
    [] e = 2 -> <<"update", "remove">>
    [] e = 3 -> <<"create">>
    [] e > 4 -> << >>]

\* Two frequent values below "update" and one other.
FrequentValues == [e \in Events |->
  CASE e <= 2 -> <<"update", "add">>
    [] e \in {3, 4} -> <<"update", "remove">>
    [] e > 4 -> <<"create">>]

\* The names of the values in ascending order.
NameRanks == [v \in {ValueOf[e] : e \in Events} |->
  CASE v = << >> -> 0
    [] v = <<"create">> -> 1
    [] v = <<"update", "add">> -> 2
    [] v = <<"update", "remove">> -> 3]

ProjectToken ==
  [valid |-> TRUE, permitted |-> TRUE, viewer |-> FALSE, project |-> p1, domain |-> NoTenant]
DomainToken == [ProjectToken EXCEPT !.project = NoTenant, !.domain = d1]
Unscoped == [ProjectToken EXCEPT !.project = NoTenant]
Viewer == [ProjectToken EXCEPT !.project = p2, !.viewer = TRUE]

Walk(order, offset, limit) ==
  [kind |-> "walk", token |-> ProjectToken, wellFormed |-> TRUE,
   project |-> NoTenant, domain |-> NoTenant,
   order |-> order, offset |-> offset, limit |-> limit, event |-> 1,
   attribute |-> "known", depth |-> 0]

WalkBack(order, offset, limit) == [Walk(order, offset, limit) EXCEPT !.kind = "back"]
Fetch(order) == [Walk(order, 0, 0) EXCEPT !.kind = "download"]
Details(e) == [Walk("desc", 0, 0) EXCEPT !.kind = "show", !.event = e]
ListValues(limit, depth) ==
  [Walk("desc", 0, limit) EXCEPT !.kind = "values", !.depth = depth]

With(a, token) == [a EXCEPT !.token = token]
For(a, project) == [a EXCEPT !.project = project]

Orders == {"asc", "desc"}

\* Queries that cut pages in every way: within the window, up to it, beyond it.
PagingAsks ==
  {Walk(order, 0, limit) : order \in Orders, limit \in {0, 1}}
  \cup {Walk("desc", 1, 0), Walk("asc", 0, 3), Walk("asc", 1, 3)}
  \cup {WalkBack("asc", 2, 1), WalkBack("desc", 2, 1), WalkBack("desc", 1, 0)}
  \cup {Fetch(order) : order \in Orders}

\* Queries with other tokens and other tenants.
TenantAsks ==
  LET queries == {Walk("desc", 0, 2), Fetch("desc"), Details(3)} IN
  {With(a, Unscoped) : a \in queries}
  \cup {With(Details(4), DomainToken), For(Details(4), p2), For(Fetch("asc"), AllTenants)}
  \cup {For(With(Walk("desc", 0, 2), Viewer), t) : t \in {AllTenants, Unavailable}}
  \cup {With(Details(1), [ProjectToken EXCEPT !.valid = FALSE]),
        With(Details(1), [ProjectToken EXCEPT !.permitted = FALSE]),
        [Details(3) EXCEPT !.wellFormed = FALSE]}

\* Lists of values: in full, cut to a depth and to a number, and refused.
ValuesAsks ==
  {ListValues(limit, depth) : limit \in {0, 2}, depth \in {0, 1}}
  \cup {With(ListValues(0, 1), Unscoped), ListValues(4, 0),
        [ListValues(0, 0) EXCEPT !.attribute = "unknown"],
        [ListValues(0, 0) EXCEPT !.attribute = ""],
        For(ListValues(0, 0), p2), For(With(ListValues(0, 0), Viewer), AllTenants)}

AllAsks == PagingAsks \cup TenantAsks \cup ValuesAsks

DownloadAsks == {Fetch("desc")}

\* One who wants the oldest events first.
OldestFirstAsks == {Fetch("asc")}

\* One who wants the top of every hierarchy.
HierarchyAsks == {ListValues(2, 1)}

\* A cluster viewer who asks for the events of a domain.
DomainAsks == {[With(Walk("desc", 0, 2), Viewer) EXCEPT !.domain = d1]}
=============================================================================
