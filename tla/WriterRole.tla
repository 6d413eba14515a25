----------------------------- MODULE WriterRole ------------------------------
(***************************************************************************)
(* The first half of an enable: the writer user gets its role in the       *)
(* project.  The role ID is looked up once per replica under a mutex that  *)
(* is held across the Keystone call; whether the role is there is read     *)
(* with Hermez' own token; assigning uses the caller's token.  All of it,  *)
(* the wait for the mutex included, has one deadline of 30 seconds.        *)
(***************************************************************************)
EXTENDS Dataplane

\* A call of the role step may run into its deadline: because it hangs, or
\* because little of the deadline was left after the wait for the mutex.
MayTimeOut(r) == r \in Exposed \/ r \in hurried

\* The wait for the mutex, whose Lock knows no deadline, behind a lookup that
\* may hang until its own: the deadline of the one that waits runs meanwhile.
AwaitMutex(r) ==
  /\ pc[r] = "role"
  /\ mu[server[r]] # NoReq /\ MayTimeOut(mu[server[r]])
  /\ ~MayTimeOut(r)
  /\ hurried' = hurried \cup {r}
  /\ UNCHANGED <<roleID, mu, pc, db, store, assigned, origin, seen, resp, audit, late>>

\* What the deferred r.mu.Unlock does when RoleID returns from a lookup.
KeepLock(r) == UNCHANGED mu
Unlock(r) == mu' = [mu EXCEPT ![server[r]] = NoReq]

\* RoleID up to the lookup: the mutex is taken, and given back at once when
\* the role ID is known or cannot be looked up.
AcquireRoleID(r) ==
  /\ pc[r] = "role"
  /\ mu[server[r]] = NoReq
  /\ \/ /\ roleID[server[r]]
        /\ Goto(r, "check")
        /\ UNCHANGED <<mu, late>>
     \/ /\ ~roleID[server[r]] /\ ~HasService
        /\ Fail(r, 503)
        /\ UNCHANGED mu
     \/ /\ ~roleID[server[r]] /\ HasService
        /\ mu' = [mu EXCEPT ![server[r]] = r]
        /\ Goto(r, "lookup")
        /\ UNCHANGED late
  /\ UNCHANGED <<roleID, hurried, db, store, assigned, origin, seen>>

\* ResolveRoleID answers and the mutex is released.  A failed lookup leaves
\* the ID unknown, so the next request tries again.
LookupRoleID(r) ==
  /\ pc[r] = "lookup"
  /\ Unlock(r)
  /\ \/ /\ roleID' = [roleID EXCEPT ![server[r]] = TRUE]
        /\ Goto(r, "check")
        /\ UNCHANGED late
     \/ /\ MayTimeOut(r)
        /\ Fail(r, 503)
        /\ UNCHANGED roleID
  /\ UNCHANGED <<hurried, db, store, assigned, origin, seen>>

\* The identity endpoint of the caller's catalog is the one Hermez uses.
IdentityMatches(c) == c.token.catalog /\ c.token.identity = "same"

\* HasProjectRole with the service token, then the caller's identity endpoint.
CheckRole(r) ==
  /\ pc[r] = "check"
  /\ \/ /\ HasService /\ call[r].project \in assigned
        /\ Goto(r, "head")
        /\ UNCHANGED late
     \/ /\ HasService /\ call[r].project \notin assigned
        /\ IdentityMatches(call[r])
        /\ Goto(r, "assign")
        /\ UNCHANGED late
     \/ /\ HasService /\ call[r].project \notin assigned
        /\ ~IdentityMatches(call[r])
        /\ Fail(r, 502)
     \/ /\ ~HasService
        /\ Fail(r, 502)
     \/ r \in Exposed /\ Fail(r, 503)
     \/ MayTimeOut(r) /\ Fail(r, 502)
  /\ UNCHANGED <<roleVars, db, store, assigned, origin, seen>>

\* A Keystone status other than success, as the caller sees it.
MapAssignStatus(status) ==
  CASE status = 403 -> 403
    [] status = 401 -> 401
    [] status = 404 -> 503
    [] OTHER -> 502

\* PUT of the role assignment with the caller's token.
AssignRole(r) ==
  /\ pc[r] = "assign"
  /\ \/ /\ call[r].token.mayAssign
        /\ assigned' = assigned \cup {call[r].project}
        /\ Goto(r, "head")
        /\ UNCHANGED late
     \/ /\ ~call[r].token.mayAssign
        /\ Fail(r, MapAssignStatus(403))
        /\ UNCHANGED assigned
     \/ /\ r \in Exposed
        /\ \E status \in {401, 404, 500} : Fail(r, MapAssignStatus(status))
        /\ UNCHANGED assigned
     \/ /\ MayTimeOut(r) /\ Abandon(r, 502)
        /\ UNCHANGED assigned
  /\ UNCHANGED <<roleVars, db, store, origin, seen>>

RoleStep(r) ==
  \/ AcquireRoleID(r)
  \/ LookupRoleID(r)
  \/ CheckRole(r)
  \/ AssignRole(r)
=============================================================================
