------------------------- MODULE DataplaneProperties --------------------------
(***************************************************************************)
(* What the dataplane-config handlers are to guarantee: properties of      *)
(* DataplaneConfig, the register it implements, and the invariant its      *)
(* theorems are proved with.                                               *)
(***************************************************************************)
EXTENDS DataplaneConfig

\* Every variable has its type.
TypeOK ==
  /\ rows \in [Projects -> Rows]
  /\ took \in [Reqs -> {"no", "changed", "noop"}]
  /\ owner \in [Containers -> {"none", "project", "operator"}]
  /\ read \in [Containers -> SUBSET Entries]
  /\ write \in [Containers -> SUBSET Entries]
  /\ probe \in SUBSET Containers
  /\ assigned \in SUBSET Projects
  /\ roleID \in [Replicas -> BOOLEAN]
  /\ mu \in [Replicas -> Reqs \cup {NoReq}]
  /\ hurried \in SUBSET Reqs
  /\ pc \in [Reqs -> Steps]
  /\ call \in [Reqs -> Calls]
  /\ server \in [Reqs -> Replicas]
  /\ seen \in [Reqs -> Views]
  /\ resp \in [Reqs -> Statuses]
  /\ audit \in [Reqs -> Statuses]
  /\ late \in [Reqs -> Mutating \cup {"none"}]

\* log-router can write to container c: the grants and, where Hermez assigns
\* it, the writer role are in place.
Provisioned(c) ==
  /\ owner[c] # "none"
  /\ {Own, Grant} \subseteq read[c]
  /\ Grant \in write[c]
  /\ Assign => c[1] \in assigned

\* An enabled row always names a container log-router can write to, whatever
\* fails, times out, lands late or crashes: "nothing is saved unless both
\* work" (PutDataplaneConfig).  Stated for runs where nobody undoes it.
EnabledMeansProvisioned ==
  \A p \in Projects : rows[p].enabled => Provisioned(<<p, rows[p].bucket>>)

\* A request that is answered with a refusal has not changed the table and
\* never will, not even by a call it gave up; only 500 leaves that open.
RefusedChangesNothing ==
  \A r \in Reqs :
    pc[r] = "done" /\ resp[r] \notin {0, 200, 204, 500}
      => took[r] = "no" /\ late[r] \notin {"upsert", "delete"}

\* The caller may manage the project's configuration and can be named.
Entitled(c) ==
  /\ c.token.valid /\ c.token.manage /\ c.token.user
  /\ c.token.scope = c.project \/ c.token.viewer

\* The audit trail, the answers and the table agree: every answered PUT of an
\* entitled caller has an event with the status the client got, so has every
\* DELETE that removed a row, and an event that reports success belongs to a
\* change that was made (recordAttempt).
AuditMatchesTable ==
  \A r \in Reqs :
    /\ resp[r] # 0 /\ call[r].method = "PUT" /\ Entitled(call[r])
         => audit[r] = resp[r]
    /\ resp[r] # 0 /\ took[r] = "changed" => audit[r] = resp[r]
    /\ audit[r] \in {200, 204} => took[r] = "changed"

\* The table is changed for entitled callers only, and enabled only with a
\* token of the project itself (authDataplaneConfig, checkEnablePreconditions).
EntitledToChange ==
  \A r \in Reqs : took[r] = "changed" =>
    /\ Entitled(call[r])
    /\ rows[call[r].project].by = r /\ rows[call[r].project].enabled
         => call[r].token.scope = call[r].project

\* The probe object exists only while an enable is about to delete it, or
\* because an enable of that container failed or was lost on the way.
ProbeAccountedFor ==
  \A c \in probe : \E r \in Reqs :
    /\ Container(r) = c /\ took[r] = "no"
    /\ pc[r] = "unprobe" \/ (pc[r] = "done" /\ resp[r] \in {0, 403, 409, 502})

\* A replica's mutex is held by the request that is looking up the role there,
\* while the role ID is unknown, and by nobody else: never by a request that is
\* answered or has died, so whoever waits for it waits for a call that returns
\* (RoleID).
LockGuardsLookup ==
  /\ \A s \in Replicas : mu[s] # NoReq =>
       server[mu[s]] = s /\ pc[mu[s]] = "lookup" /\ ~roleID[s]
  /\ \A r \in Reqs : pc[r] = "lookup" => mu[server[r]] = r

\* No step takes an entry out of a container's ACLs (mergeACL keeps what it
\* finds), as long as nobody else edits them.
KeepsEntries ==
  [][\A c \in Containers : owner[c] # "none" =>
       read[c] \subseteq read'[c] /\ write[c] \subseteq write'[c]]_vars

\* "Nothing is created unless the role is in place": a container appears only
\* in a project where the writer has its role, even by a late call.
CreatedWithRole ==
  [][\A c \in Containers : owner[c] = "none" /\ owner'[c] # "none" =>
       (Assign => c[1] \in assigned)]_vars

\* The enabling calls that have all they need.
Able(c) ==
  /\ c.method = "PUT" /\ c.enabled
  /\ UnauditedRefusal(c) = 0 /\ AuditedRefusal(c) = 0
  /\ AccountRefusal(c) = 0 /\ c.token.mayStore
  /\ Assign => HasService /\ IdentityMatches(c) /\ c.token.mayAssign

\* An enable that meets no failure of its own is failed by the others in one way
\* only, when a hanging lookup of theirs has taken the time it had for its role
\* step (RoleID): not by their probe objects, their ACLs, their half-done work,
\* their crashed replicas or the calls of theirs that land in its middle.
OnlyLookupsFailOthers ==
  \A r \in Reqs \ Exposed :
    pc[r] = "done" /\ resp[r] # 0 /\ Able(call[r]) =>
      resp[r] = 200 \/ (r \in hurried /\ resp[r] \in {502, 503})

\* An enable that finds a container with complete grants succeeds, whoever
\* owns it: no ownership is taken and a migrated container is accepted before
\* its handover (ensureDataplaneBucket).
CompleteContainerAccepted ==
  \A r \in Reqs \ Exposed :
    pc[r] = "done" /\ seen[r].existed /\ Complete(seen[r]) => resp[r] \in {0, 200}

\* How ConfigRegister sees a request.
Phase(r) ==
  IF pc[r] = "idle" THEN "idle"
  ELSE IF pc[r] # "done" THEN "open"
  ELSE IF resp[r] \in {0, 500} THEN "unknown"
  ELSE IF resp[r] \in {200, 204} /\ call[r].method # "GET" THEN "confirmed"
  ELSE "declined"

\* What a request wants of the table; a read wants nothing of it.
Wish(r) ==
  IF Phase(r) \in {"idle", "declined"} THEN "nothing"
  ELSE [project |-> call[r].project,
        doc |-> IF call[r].method = "PUT" THEN Row(r) ELSE NoRow]

\* The handlers implement the register, with the containers log-router can
\* write to as the ready ones.
Register ==
  INSTANCE ConfigRegister WITH
    Docs <- Rows,
    Missing <- NoRow,
    NoWish <- "nothing",
    table <- rows,
    ready <- {c \in Containers : Provisioned(c)},
    phase <- [r \in Reqs |-> Phase(r)],
    wish <- [r \in Reqs |-> Wish(r)],
    applied <- [r \in Reqs |-> took[r] # "no"]

\* ConfigRegister's specification: at most one change per request, to what it
\* asked for, success and refusal told truly, rows enabled only for containers that are ready.
ImplementsRegister == Register!Spec

\* Every request that arrived is answered, unless its replica dies.
EveryRequestAnswered == \A r \in Reqs : Running(r) ~> ~Running(r)

-----------------------------------------------------------------------------
\* The inductive invariant behind the theorems, part by part.

RoleSteps == {"role", "lookup", "check", "assign"}
BucketSteps == {"head", "create", "acl", "probe", "unprobe"}

\* The request has passed the checks of its handler, and the step is one its
\* handler makes.
Fits(r, step) ==
  /\ UnauditedRefusal(call[r]) = 0 /\ AuditedRefusal(call[r]) = 0
  /\ step \in RoleSteps => Assign
  /\ step \in RoleSteps \cup BucketSteps => call[r].method = "PUT" /\ call[r].enabled
  /\ step \in {"upsert", "saved"} => call[r].method = "PUT"
  /\ step \in {"delete", "removed"} => call[r].method = "DELETE"
  /\ step = "get" => call[r].method = "GET"

\* A request makes calls only when it was admitted, and has a late call only
\* when it is finished.
Admitted(r) ==
  /\ Running(r) => Fits(r, pc[r])
  /\ late[r] # "none" => pc[r] = "done" /\ Fits(r, late[r])

CallInv == \A r \in Reqs : Admitted(r)

\* What the table, the answer and the event of a request say of each other.
Ledger(r) ==
  /\ pc[r] # "done" => resp[r] = 0 /\ audit[r] = 0
  /\ pc[r] \notin {"saved", "removed", "done"} => took[r] = "no"
  /\ pc[r] = "saved" => took[r] = "changed"
  /\ pc[r] = "removed" => took[r] # "no"
  /\ late[r] # "none" => took[r] = "no"
  /\ late[r] \in {"upsert", "delete"} => resp[r] \in {0, 500}
  /\ took[r] # "no" => Fits(r, IF call[r].method = "PUT" THEN "saved" ELSE "removed")
  /\ took[r] # "no" /\ pc[r] = "done" => resp[r] \in {0, 200, 204, 500}
  /\ took[r] = "no" /\ resp[r] \in {200, 204} => call[r].method = "GET"
  /\ resp[r] = 500 /\ call[r].method # "GET" => audit[r] = 500
  /\ audit[r] \in {0, resp[r]}
  /\ resp[r] # 0 /\ call[r].method = "PUT" /\ UnauditedRefusal(call[r]) = 0
       => audit[r] = resp[r]
  /\ resp[r] # 0 /\ took[r] = "changed" => audit[r] = resp[r]
  /\ audit[r] \in {200, 204} => took[r] = "changed"

LedgerInv == \A r \in Reqs : Ledger(r)

\* What a request has put in place before the step, while nobody undoes it.
Prepared(r, step) ==
  LET enabling == step \in BucketSteps \/ (step = "upsert" /\ call[r].enabled) IN
  /\ enabling => (Assign => call[r].project \in assigned)
  /\ enabling /\ step \notin {"head", "create"} => owner[Container(r)] # "none"
  /\ enabling /\ step \notin {"head", "create", "acl"} => Provisioned(Container(r))

ProvisioningInv ==
  /\ \A r \in Reqs : Prepared(r, pc[r]) /\ Prepared(r, late[r])
  /\ EnabledMeansProvisioned
  /\ \A p \in Projects : rows[p].enabled => rows[p].bucket \in Buckets

\* Whose PUT has enabled a row: a request that reports the change, with a token
\* of that project.
EnabledBy(p) ==
  LET r == rows[p].by IN
  /\ r \in Reqs /\ took[r] # "no"
  /\ call[r].project = p /\ call[r].token.scope = p

AuthorInv == \A p \in Projects : rows[p].enabled => EnabledBy(p)

\* A request that has put the probe into container c, and has not taken it out
\* again; it will not get as far as the table any more.
LeftProbe(r, c) ==
  /\ Container(r) = c /\ took[r] = "no"
  /\ \/ pc[r] = "unprobe"
     \/ pc[r] = "done" /\ late[r] \in {"none", "unprobe"} /\ resp[r] \in {0, 403, 409, 502}

\* A probe is in a container of the project's own, so an enable that does not
\* find it to delete knows that it is gone.
ProbeInv ==
  /\ \A c \in probe : owner[c] = "project" /\ \E r \in Reqs : LeftProbe(r, c)
  /\ \A r \in Reqs : late[r] \in BucketSteps => resp[r] \in {0, 502}

\* The request replaces the ACLs with what it has seen and the grants.
WillPost(r) == pc[r] \in {"create", "acl"} \/ late[r] = "acl"

\* What it has seen is still there, and nothing but the grants has come since.
ViewHolds(r) ==
  LET c == Container(r) IN
  /\ seen[r].read \subseteq read[c] /\ read[c] \subseteq WantRead(seen[r])
  /\ seen[r].write \subseteq write[c] /\ write[c] \subseteq WantWrite(seen[r])

ViewInv == \A r \in Reqs : WillPost(r) => ViewHolds(r)

\* A request that HEAD has shown complete ACLs.
FoundComplete(r) == seen[r].existed /\ Complete(seen[r])

\* It sends no POST, so a denied probe means that the handover is to come; and
\* only a container of the project's own is probed with success.
Accepting(r) ==
  /\ seen[r].existed =>
       /\ pc[r] \in {"acl", "probe", "unprobe", "upsert", "saved", "done"}
       /\ call[r].token.mayStore
  /\ FoundComplete(r) => ~seen[r].posted /\ pc[r] # "acl"
  /\ FoundComplete(r) /\ r \notin Exposed /\ pc[r] = "done" => resp[r] \in {0, 200}
  /\ pc[r] = "unprobe" => owner[Container(r)] = "project"

AcceptInv == \A r \in Reqs : Accepting(r)

\* Without containers of the operator the object store refuses nothing that an
\* able request asks for in the order it asks.
HealthyInv ==
  /\ \A c \in Containers : owner[c] # "operator"
  /\ \A r \in Reqs \ Exposed :
       pc[r] = "done" /\ Able(call[r]) =>
         resp[r] \in {0, 200} \/ (r \in hurried /\ resp[r] \in {502, 503})

\* The whole of it: each part while nobody does what it cannot bear.
IndInv ==
  /\ TypeOK
  /\ CallInv
  /\ LedgerInv
  /\ AuthorInv
  /\ ProbeInv
  /\ "undo" \notin Disturbances => ProvisioningInv /\ AcceptInv
  /\ {"edit", "undo"} \cap Disturbances = {} => ViewInv
  /\ {"migrate", "undo"} \cap Disturbances = {} => HealthyInv
=============================================================================
