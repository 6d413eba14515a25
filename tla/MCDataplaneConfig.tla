-------------------------- MODULE MCDataplaneConfig ---------------------------
(***************************************************************************)
(* Instance values of DataplaneConfig for TLC.                             *)
(***************************************************************************)
EXTENDS DataplaneProperties, TLC

CONSTANTS r1, r2, r3, s1, s2, p1, p2, b1, b2, o1

\* The token of a project admin with everything in order.
AdminToken(p) ==
  [valid |-> TRUE, manage |-> TRUE, viewer |-> FALSE, user |-> TRUE,
   scope |-> p, catalog |-> TRUE, identity |-> "same", account |-> "own",
   mayAssign |-> TRUE, mayStore |-> TRUE]

Put(p, enabled, bucket) ==
  [method |-> "PUT", project |-> p, token |-> AdminToken(p),
   form |-> "object", enabled |-> enabled, bucket |-> bucket]

Enable(p) == Put(p, TRUE, NoBucket)
Disable(p) == Put(p, FALSE, NoBucket)
Remove(p) == [Disable(p) EXCEPT !.method = "DELETE"]
Get(p) == [Disable(p) EXCEPT !.method = "GET"]

\* An enable by a member who may not assign roles.
EnableAsMember(p) == [Enable(p) EXCEPT !.token.mayAssign = FALSE]

\* Requests to change one project's configuration.
ChangeCalls == {Enable(p1), Disable(p1), Remove(p1), EnableAsMember(p1)}

\* Enables only, into the default bucket.
EnableCalls == {Enable(p1)}

AllCalls == {Enable(p1), Disable(p1), Remove(p1), Get(p1)}

With(c, token) == [c EXCEPT !.token = token]

\* A cloud admin with a domain-scoped token.
Viewer == [AdminToken(NoScope) EXCEPT !.viewer = TRUE]

\* Tokens that get no request through, or not every request.
LimitedTokens ==
  {[AdminToken(p1) EXCEPT !.valid = FALSE], [AdminToken(p1) EXCEPT !.manage = FALSE],
   [AdminToken(p1) EXCEPT !.user = FALSE], AdminToken(NoScope), Viewer}

\* Tokens that stop an enable at one of its calls.
PoorTokens ==
  {[AdminToken(p1) EXCEPT !.catalog = FALSE], [AdminToken(p1) EXCEPT !.identity = "other"],
   [AdminToken(p1) EXCEPT !.account = "missing"], [AdminToken(p1) EXCEPT !.account = "other"],
   [AdminToken(p1) EXCEPT !.mayStore = FALSE]}

\* Calls of which most are refused, each for one reason.
RefusedCalls ==
  AllCalls
  \cup {With(c, token) : c \in {Enable(p1), Remove(p1)}, token \in LimitedTokens}
  \cup {With(Enable(p1), token) : token \in PoorTokens}
  \cup {[With(c, Viewer) EXCEPT !.project = BadProject] : c \in {Disable(p1), Remove(p1)}}
  \cup {[Enable(p1) EXCEPT !.form = f] : f \in {"otherType", "malformed"}}
  \cup {[Disable(p1) EXCEPT !.bucket = BadBucket], With(Disable(p1), Viewer)}

ReqSymmetry == Permutations(Reqs) \cup Permutations(Replicas)
RetrySymmetry == Permutations(Reqs \ Exposed)
=============================================================================
