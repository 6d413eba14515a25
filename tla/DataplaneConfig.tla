--------------------------- MODULE DataplaneConfig ----------------------------
(***************************************************************************)
(* The handlers of /v1/projects/{project_id}/dataplane-config on several   *)
(* replicas at once, with the table they write, the calls they give up,    *)
(* the restarts of replicas, and the customer and the operator who change  *)
(* containers and roles meanwhile.                                         *)
(***************************************************************************)
EXTENDS WriterRole, Bucket

\* The handlers without the comparison of path and token project.
AnyScope(c) ==
  IF ~c.token.valid THEN 401
  ELSE IF ~c.token.manage THEN 403
  ELSE IF c.method # "GET" /\ ~c.token.user THEN 401
  ELSE IF c.method # "PUT" /\ c.project = BadProject THEN 400
  ELSE 0

\* The project ID check of a PUT placed before its recordAttempt.
EarlyProjectCheck(c) ==
  IF ~c.token.valid THEN 401
  ELSE IF ~c.token.manage \/ (c.token.scope # c.project /\ ~c.token.viewer) THEN 403
  ELSE IF c.method # "GET" /\ ~c.token.user THEN 401
  ELSE IF c.project = BadProject THEN 400
  ELSE 0

\* authDataplaneConfig, the user_id check, and the project ID check where no
\* event is recorded for it: 0 when the request passes.
UnauditedRefusal(c) ==
  IF ~c.token.valid THEN 401
  ELSE IF ~c.token.manage \/ (c.token.scope # c.project /\ ~c.token.viewer) THEN 403
  ELSE IF c.method # "GET" /\ ~c.token.user THEN 401
  ELSE IF c.method # "PUT" /\ c.project = BadProject THEN 400
  ELSE 0

\* The checks of a PUT that record an event when they fail.
AuditedRefusal(c) ==
  IF c.method # "PUT" THEN 0
  ELSE IF c.project = BadProject THEN 400
  ELSE IF c.form = "otherType" THEN 415
  ELSE IF c.form = "malformed" \/ c.bucket = BadBucket THEN 400
  ELSE IF c.enabled THEN EnableRefusal(c)
  ELSE 0

\* An enable that leaves the role step out.
BucketFirst(c) ==
  CASE c.method = "GET" -> "get"
    [] c.method = "DELETE" -> "delete"
    [] c.method = "PUT" -> IF c.enabled THEN "head" ELSE "upsert"

\* The first remote call of a request that passes the checks.
FirstCall(c) ==
  CASE c.method = "GET" -> "get"
    [] c.method = "DELETE" -> "delete"
    [] c.method = "PUT" /\ ~c.enabled -> "upsert"
    [] c.method = "PUT" /\ c.enabled -> IF Assign THEN "role" ELSE "head"

\* A request reaches its replica, which the load balancer has chosen: all that
\* happens before its first remote call.
Receive(r) ==
  /\ pc[r] = "idle"
  /\ \E c \in Calls :
       /\ call' = [call EXCEPT ![r] = c]
       /\ \/ /\ UnauditedRefusal(c) # 0
             /\ Answer(r, UnauditedRefusal(c), 0)
          \/ /\ UnauditedRefusal(c) = 0 /\ AuditedRefusal(c) # 0
             /\ Answer(r, AuditedRefusal(c), AuditedRefusal(c))
          \/ /\ UnauditedRefusal(c) = 0 /\ AuditedRefusal(c) = 0
             /\ Goto(r, FirstCall(c))
  /\ UNCHANGED <<db, store, assigned, roleVars, server, seen, late>>

-----------------------------------------------------------------------------
\* The table.  NoRow is both the missing row and the default document.

\* The row with the bucket as given, without the default name.
RowAsGiven(r) ==
  [enabled |-> call[r].enabled, bucket |-> call[r].bucket, by |-> r]

Row(r) == [enabled |-> call[r].enabled, bucket |-> Target(call[r]), by |-> r]

UpsertEffect(r) ==
  /\ rows' = [rows EXCEPT ![call[r].project] = Row(r)]
  /\ took' = [took EXCEPT ![r] = "changed"]

DeleteEffect(r) ==
  /\ rows' = [rows EXCEPT ![call[r].project] = NoRow]
  /\ took' = [took EXCEPT ![r] =
                IF rows[call[r].project] = NoRow THEN "noop" ELSE "changed"]

\* The status of a storage error.
BadGateway == 502
StorageError == 500

GetConfig(r) ==
  /\ pc[r] = "get"
  /\ \/ Answer(r, 200, 0)
     \/ r \in Exposed /\ Answer(r, StorageError, 0)
  /\ UNCHANGED <<db, store, assigned, roleVars, origin, seen, late>>

UpsertConfig(r) ==
  /\ pc[r] = "upsert"
  /\ \/ /\ UpsertEffect(r)
        /\ Goto(r, "saved")
        /\ UNCHANGED late
     \/ GiveUp(r, StorageError) /\ UNCHANGED db
  /\ UNCHANGED <<store, assigned, roleVars, origin, seen>>

DeleteConfig(r) ==
  /\ pc[r] = "delete"
  /\ \/ /\ DeleteEffect(r)
        /\ Goto(r, "removed")
        /\ UNCHANGED late
     \/ GiveUp(r, StorageError) /\ UNCHANGED db
  /\ UNCHANGED <<store, assigned, roleVars, origin, seen>>

\* The event of a DELETE: none when there was nothing to remove.
AlwaysAnEvent(r) == 204
DeleteEvent(r) == IF took[r] = "changed" THEN 204 ELSE 0

\* The statement is committed; now the event is recorded and the client told.
RecordChange(r) ==
  /\ \/ pc[r] = "saved" /\ Answer(r, 200, 200)
     \/ pc[r] = "removed" /\ Answer(r, 204, DeleteEvent(r))
  /\ UNCHANGED <<db, store, assigned, roleVars, origin, seen, late>>

TableStep(r) ==
  \/ GetConfig(r)
  \/ UpsertConfig(r)
  \/ DeleteConfig(r)
  \/ RecordChange(r)

RequestStep(r) == RoleStep(r) \/ BucketStep(r) \/ TableStep(r)

-----------------------------------------------------------------------------
\* Calls that outlive their request, and processes that do not.

\* A call that was given up is carried out after all.
Land(r) ==
  /\ late' = [late EXCEPT ![r] = "none"]
  /\ \/ LandBucketCall(r) /\ UNCHANGED <<db, assigned>>
     \/ /\ late[r] = "assign" /\ call[r].token.mayAssign
        /\ assigned' = assigned \cup {call[r].project}
        /\ UNCHANGED <<db, store>>
     \/ late[r] = "upsert" /\ UpsertEffect(r) /\ UNCHANGED <<store, assigned>>
     \/ late[r] = "delete" /\ DeleteEffect(r) /\ UNCHANGED <<store, assigned>>
  /\ UNCHANGED <<roleVars, pc, origin, seen, resp, audit>>

\* What a replica knows of the role ID after resolveAtStartup.
RoleIDAtStartup ==
  IF RoleIDConfigured THEN {TRUE}
  ELSE IF Assign /\ HasService THEN BOOLEAN ELSE {FALSE}

\* A replica dies and comes back.  Its requests get no answer and no event;
\* a call that was on its way may still land.
Restart(s) ==
  LET lost == {r \in Reqs : Running(r) /\ server[r] = s} IN
  /\ "crash" \in Disturbances
  /\ pc' = [r \in Reqs |-> IF r \in lost THEN "done" ELSE pc[r]]
  /\ late' = [r \in Reqs |-> IF r \in lost /\ pc[r] \in Mutating
                             THEN pc[r] ELSE late[r]]
  /\ mu' = [mu EXCEPT ![s] = NoReq]
  /\ \E known \in RoleIDAtStartup : roleID' = [roleID EXCEPT ![s] = known]
  /\ UNCHANGED <<hurried, db, store, assigned, origin, seen, resp, audit>>

-----------------------------------------------------------------------------
\* The customer and the operator.

others == <<db, roleVars, pc, origin, seen, resp, audit, late>>

\* The customer lets somebody else into a container of its own.
EditACL(c) ==
  /\ "edit" \in Disturbances
  /\ owner[c] = "project"
  /\ \E entry \in Others :
       \/ read' = [read EXCEPT ![c] = @ \cup {entry}] /\ UNCHANGED write
       \/ write' = [write EXCEPT ![c] = @ \cup {entry}] /\ UNCHANGED read
  /\ UNCHANGED <<owner, probe, assigned, others>>

\* The customer takes the writer out of the ACLs.
RemoveGrant(c) ==
  /\ "undo" \in Disturbances
  /\ owner[c] = "project"
  /\ read' = [read EXCEPT ![c] = @ \ {Grant}]
  /\ write' = [write EXCEPT ![c] = @ \ {Grant}]
  /\ UNCHANGED <<owner, probe, assigned, others>>

\* The customer deletes the container, which must be empty.
DeleteContainer(c) ==
  /\ "undo" \in Disturbances
  /\ owner[c] = "project" /\ c \notin probe
  /\ owner' = [owner EXCEPT ![c] = "none"]
  /\ read' = [read EXCEPT ![c] = {}]
  /\ write' = [write EXCEPT ![c] = {}]
  /\ UNCHANGED <<probe, assigned, others>>

\* A project admin takes the role from the writer user.
RemoveRole(p) ==
  /\ "undo" \in Disturbances
  /\ assigned' = assigned \ {p}
  /\ UNCHANGED <<store, others>>

\* The operator adds the grants to a container it still owns ...
Migrate(c) ==
  /\ "migrate" \in Disturbances
  /\ owner[c] = "operator"
  /\ read' = [read EXCEPT ![c] = @ \cup {Own, Grant}]
  /\ write' = [write EXCEPT ![c] = @ \cup {Grant}]
  /\ UNCHANGED <<owner, probe, assigned, others>>

\* ... and later makes the project its owner.
HandOver(c) ==
  /\ "migrate" \in Disturbances
  /\ owner[c] = "operator"
  /\ owner' = [owner EXCEPT ![c] = "project"]
  /\ UNCHANGED <<read, write, probe, assigned, others>>

-----------------------------------------------------------------------------

Init ==
  /\ rows = [p \in Projects |-> NoRow]
  /\ took = [r \in Reqs |-> "no"]
  /\ owner \in [Containers -> {"none", "project"} \cup
                  (IF "migrate" \in Disturbances THEN {"operator"} ELSE {})]
  /\ read \in [Containers -> SUBSET Entries]
  /\ write \in [Containers -> SUBSET Entries]
  /\ \A c \in Containers : owner[c] = "none" => read[c] = {} /\ write[c] = {}
  /\ probe = {}
  /\ assigned \in SUBSET Projects
  /\ roleID \in [Replicas -> RoleIDAtStartup]
  /\ mu = [s \in Replicas |-> NoReq]
  /\ hurried = {}
  /\ pc = [r \in Reqs |-> "idle"]
  /\ call = [r \in Reqs |-> CHOOSE c \in Calls : TRUE]
  /\ server \in [Reqs -> Replicas]
  /\ seen = [r \in Reqs |->
               [existed |-> FALSE, posted |-> FALSE, read |-> {}, write |-> {}]]
  /\ resp = [r \in Reqs |-> 0]
  /\ audit = [r \in Reqs |-> 0]
  /\ late = [r \in Reqs |-> "none"]

Next ==
  \/ \E r \in Reqs : Receive(r) \/ AwaitMutex(r) \/ RequestStep(r) \/ Land(r)
  \/ \E s \in Replicas : Restart(s)
  \/ \E c \in Containers :
       EditACL(c) \/ RemoveGrant(c) \/ DeleteContainer(c) \/ Migrate(c) \/ HandOver(c)
  \/ \E p \in Projects : RemoveRole(p)

Spec == Init /\ [][Next]_vars

\* Each remote call of a request returns: Keystone and object store calls have
\* a deadline of 30 seconds, a Postgres call ends with its connection at the
\* latest.  Nothing is assumed of new requests, late calls or restarts.
FairSpec == Spec /\ \A r \in Reqs : WF_vars(RequestStep(r))
=============================================================================
