------------------------ MODULE DataplaneConfig_proofs ------------------------
(***************************************************************************)
(* Theorems about DataplaneConfig for every value of its constants.        *)
(***************************************************************************)
EXTENDS DataplaneProperties, TLAPS

\* A call that passes the checks of its handler names a project, and one that
\* goes on to the table or the object store a bucket that Row and Container
\* can hold.
LEMMA AcceptedCall ==
  ASSUME NEW c \in Calls, UnauditedRefusal(c) = 0, AuditedRefusal(c) = 0
  PROVE  /\ c.project \in Projects
         /\ c.method = "PUT" => Target(c) \in Buckets \cup {NoBucket}
         /\ c.method = "PUT" /\ c.enabled => Target(c) \in Buckets
<1>1. c \in CallSpace
  BY CallsAssumption
<1>2. c.project # BadProject
  BY <1>1 DEF UnauditedRefusal, AuditedRefusal, CallSpace
<1>3. c.method = "PUT" => c.bucket # BadBucket
  BY <1>1, <1>2 DEF AuditedRefusal, CallSpace
<1> QED
  BY <1>1, <1>2, <1>3, NamesAssumption DEF CallSpace, Target

\* The same of a request whose call fits the step it is at.
LEMMA FittingCall ==
  ASSUME TypeOK, NEW r \in Reqs, NEW step, Fits(r, step)
  PROVE  /\ call[r].project \in Projects
         /\ step \in RoleSteps \cup BucketSteps => Container(r) \in Containers
         /\ step \in {"upsert", "saved"} => Row(r) \in Rows
<1>1. call[r] \in Calls /\ call[r] \in CallSpace
  BY CallsAssumption DEF TypeOK
<1>2. UnauditedRefusal(call[r]) = 0 /\ AuditedRefusal(call[r]) = 0
  BY DEF Fits
<1>3. /\ call[r].project \in Projects
      /\ call[r].method = "PUT" => Target(call[r]) \in Buckets \cup {NoBucket}
      /\ call[r].method = "PUT" /\ call[r].enabled => Target(call[r]) \in Buckets
  BY <1>1, <1>2, AcceptedCall
<1>4. step \in RoleSteps \cup BucketSteps => call[r].method = "PUT" /\ call[r].enabled
  BY DEF Fits
<1>5. step \in {"upsert", "saved"} => call[r].method = "PUT"
  BY DEF Fits
<1>6. call[r].enabled \in BOOLEAN
  BY <1>1 DEF CallSpace
<1> QED
  BY <1>3, <1>4, <1>5, <1>6 DEF Container, Containers, Row, Rows

LEMMA InitTypeOK == Init => TypeOK
<1> SUFFICES ASSUME Init PROVE TypeOK
  OBVIOUS
<1>1. NoRow \in Rows
  BY DEF NoRow, Rows
<1>2. RoleIDAtStartup \subseteq BOOLEAN
  BY DEF RoleIDAtStartup
<1>3. (CHOOSE c \in Calls : TRUE) \in Calls
  BY CallsAssumption
<1>4. [existed |-> FALSE, posted |-> FALSE, read |-> {}, write |-> {}] \in Views
  BY DEF Views
<1> QED
  BY <1>1, <1>2, <1>3, <1>4 DEF Init, TypeOK, Steps, Statuses

-----------------------------------------------------------------------------
\* Type correctness.

\* Every status a handler passes on is one of Statuses.
LEMMA MappedStatuses ==
  /\ \A c \in Calls : /\ UnauditedRefusal(c) \in Statuses
                       /\ AuditedRefusal(c) \in Statuses
                       /\ AccountRefusal(c) \in Statuses
  /\ \A status : MapAssignStatus(status) \in Statuses
  /\ \A op, status, existed : MapObjectStoreStatus(op, status, existed) \in Statuses
BY DEF Statuses, UnauditedRefusal, AuditedRefusal, EnableRefusal, AccountRefusal,
       MapAssignStatus, MapObjectStoreStatus

\* The part of TypeOK that the ways to end a step are about.
ReplyTypes ==
  /\ pc \in [Reqs -> Steps]
  /\ resp \in [Reqs -> Statuses]
  /\ audit \in [Reqs -> Statuses]
  /\ late \in [Reqs -> Mutating \cup {"none"}]

\* Goto, Fail and Abandon keep it.
LEMMA ReplyTypesKept ==
  ASSUME ReplyTypes, NEW r \in Reqs
  PROVE  /\ \A step \in Steps : Goto(r, step) /\ UNCHANGED late => ReplyTypes'
         /\ \A status, event \in Statuses :
              Answer(r, status, event) /\ UNCHANGED late => ReplyTypes'
         /\ \A status \in Statuses : Fail(r, status) => ReplyTypes'
         /\ \A status \in Statuses :
              pc[r] \in Mutating /\ Abandon(r, status) => ReplyTypes'
<1>1. "done" \in Steps
  BY DEF Steps
<1> QED
  BY <1>1 DEF ReplyTypes, Goto, Answer, Fail, Abandon

LEMMA ReceiveTypeOK ==
  ASSUME TypeOK, NEW r \in Reqs, Receive(r) PROVE TypeOK'
<1> USE DEF ReplyTypes
<1>1. PICK c \in Calls : /\ call' = [call EXCEPT ![r] = c]
                         /\ \/ Answer(r, UnauditedRefusal(c), 0)
                            \/ Answer(r, AuditedRefusal(c), AuditedRefusal(c))
                            \/ Goto(r, FirstCall(c))
  BY DEF Receive
<1>2. FirstCall(c) \in Steps
  <2>1. c.method \in {"GET", "PUT", "DELETE"} /\ c.enabled \in BOOLEAN
    BY CallsAssumption DEF CallSpace
  <2> QED
    BY <2>1 DEF FirstCall, Steps
<1>3. ReplyTypes'
  BY <1>1, <1>2, MappedStatuses, ReplyTypesKept, SMTT(30) DEF TypeOK, Statuses, Receive
<1> QED
  BY <1>1, <1>3 DEF TypeOK, Receive, db, store, roleVars

LEMMA RoleStepTypeOK ==
  ASSUME TypeOK, CallInv, NEW r \in Reqs, RoleStep(r) PROVE TypeOK'
<1>1. /\ {"check", "lookup", "head", "assign"} \subseteq Steps
      /\ {502, 503} \subseteq Statuses
      /\ "assign" \in Mutating
  BY DEF Steps, Statuses, Mutating
<1>2. ReplyTypes
  BY DEF ReplyTypes, TypeOK
<1>3. ReplyTypes'
  BY <1>1, <1>2, MappedStatuses, ReplyTypesKept
  DEF RoleStep, AcquireRoleID, LookupRoleID, CheckRole, AssignRole
<1>4. /\ roleID' \in [Replicas -> BOOLEAN]
      /\ mu' \in [Replicas -> Reqs \cup {NoReq}]
  BY ZenonT(60) DEF TypeOK, RoleStep, AcquireRoleID, LookupRoleID, CheckRole, AssignRole,
         Unlock, roleVars
<1>5. assigned' \in SUBSET Projects
  <2>1. pc[r] = "assign" => call[r].project \in Projects
    BY FittingCall DEF CallInv, Admitted, Running
  <2> QED
    BY <2>1 DEF TypeOK, RoleStep, AcquireRoleID, LookupRoleID, CheckRole, AssignRole
<1>6. UNCHANGED <<hurried, db, store, origin, seen>>
  BY DEF RoleStep, AcquireRoleID, LookupRoleID, CheckRole, AssignRole, roleVars
<1> QED
  BY <1>3, <1>4, <1>5, <1>6 DEF ReplyTypes, TypeOK, db, store, origin

LEMMA BucketStepTypeOK ==
  ASSUME TypeOK, CallInv, NEW r \in Reqs, BucketStep(r) PROVE TypeOK'
<1> DEFINE c == Container(r)
           view == [existed |-> owner[c] # "none", posted |-> FALSE,
                    read |-> read[c], write |-> write[c]]
<1>1. /\ {"create", "acl", "probe", "unprobe", "upsert"} \subseteq Steps
      /\ 502 \in Statuses
      /\ {"create", "acl", "probe", "unprobe"} \subseteq Mutating
  BY DEF Steps, Statuses, Mutating
<1>2. ReplyTypes
  BY DEF ReplyTypes, TypeOK
<1>3. call[r] \in Calls
  BY DEF TypeOK
<1>4. pc[r] \in BucketSteps /\ c \in Containers
  <2>1. pc[r] \in BucketSteps
    BY DEF BucketStep, HeadContainer, CreateContainer, SetACL, PutProbe, DeleteProbe,
           BucketSteps
  <2> QED
    BY <2>1, FittingCall DEF CallInv, Admitted, Running, BucketSteps
<1>5. ReplyTypes'
  <2>1. CASE HeadContainer(r)
    BY <2>1, <1>1, <1>2, <1>3, MappedStatuses, ReplyTypesKept DEF HeadContainer, Refuse
  <2>2. CASE CreateContainer(r)
    BY <2>2, <1>1, <1>2, <1>3, MappedStatuses, ReplyTypesKept DEF CreateContainer, Refuse,
       GiveUp
  <2>3. CASE SetACL(r)
    BY <2>3, <1>1, <1>2, <1>3, MappedStatuses, ReplyTypesKept DEF SetACL, Refuse, GiveUp
  <2>4. CASE PutProbe(r)
    BY <2>4, <1>1, <1>2, <1>3, MappedStatuses, ReplyTypesKept DEF PutProbe, Refuse, GiveUp
  <2>5. CASE DeleteProbe(r)
    BY <2>5, <1>1, <1>2, <1>3, MappedStatuses, ReplyTypesKept DEF DeleteProbe, Refuse,
       GiveUp
  <2> QED
    BY <2>1, <2>2, <2>3, <2>4, <2>5 DEF BucketStep
<1>6. seen' \in [Reqs -> Views]
  <2>1. view \in Views
    BY <1>4 DEF Views, TypeOK
  <2>2. [seen[r] EXCEPT !.posted = TRUE] \in Views
    BY ZenonT(60) DEF Views, TypeOK
  <2>3. seen' \in {seen, [seen EXCEPT ![r] = view], [seen EXCEPT ![r].posted = TRUE]}
    BY DEF BucketStep, HeadContainer, CreateContainer, SetACL, PutProbe, DeleteProbe,
           Refuse
  <2> QED
    BY <2>1, <2>2, <2>3 DEF TypeOK
<1>7. /\ owner' \in [Containers -> {"none", "project", "operator"}]
      /\ read' \in [Containers -> SUBSET Entries]
      /\ write' \in [Containers -> SUBSET Entries]
      /\ probe' \in SUBSET Containers
  <2>1. WantRead(seen[r]) \in SUBSET Entries /\ WantWrite(seen[r]) \in SUBSET Entries
    BY DEF TypeOK, Views, WantRead, WantWrite, Entries
  <2>2. \/ UNCHANGED store
        \/ CreateEffect(c) \/ ACLEffect(c, seen[r]) \/ ProbeEffect(c) \/ UnprobeEffect(c)
    BY DEF BucketStep, HeadContainer, CreateContainer, SetACL, PutProbe, DeleteProbe,
           Refuse
  <2> QED
    BY <1>4, <2>1, <2>2 DEF TypeOK, store, CreateEffect, ACLEffect, ProbeEffect,
       UnprobeEffect
<1>8. UNCHANGED <<db, assigned, roleVars, origin>>
  BY DEF BucketStep, HeadContainer, CreateContainer, SetACL, PutProbe, DeleteProbe
<1> QED
  BY <1>5, <1>6, <1>7, <1>8 DEF ReplyTypes, TypeOK, db, roleVars, origin

LEMMA TableStepTypeOK ==
  ASSUME TypeOK, CallInv, NEW r \in Reqs, TableStep(r) PROVE TypeOK'
<1>1. /\ {"saved", "removed"} \subseteq Steps
      /\ {0, 200, 204, StorageError, DeleteEvent(r)} \subseteq Statuses
      /\ {"upsert", "delete"} \subseteq Mutating
  BY DEF Steps, Statuses, Mutating, StorageError, DeleteEvent
<1>2. ReplyTypes
  BY DEF ReplyTypes, TypeOK
<1>3. ReplyTypes'
  BY <1>1, <1>2, ReplyTypesKept
  DEF TableStep, GetConfig, UpsertConfig, DeleteConfig, RecordChange, GiveUp
<1>4. /\ rows' \in [Projects -> Rows]
      /\ took' \in [Reqs -> {"no", "changed", "noop"}]
  <2>1. NoRow \in Rows
    BY DEF NoRow, Rows
  <2>2. pc[r] = "upsert" => Row(r) \in Rows
    BY FittingCall DEF CallInv, Admitted, Running
  <2> QED
    BY <2>1, <2>2 DEF TypeOK, TableStep, GetConfig, UpsertConfig, DeleteConfig,
       RecordChange, UpsertEffect, DeleteEffect, db
<1>5. UNCHANGED <<store, assigned, roleVars, origin, seen>>
  BY DEF TableStep, GetConfig, UpsertConfig, DeleteConfig, RecordChange
<1> QED
  BY <1>3, <1>4, <1>5 DEF ReplyTypes, TypeOK, store, roleVars, origin

LEMMA LandTypeOK ==
  ASSUME TypeOK, CallInv, NEW r \in Reqs, Land(r) PROVE TypeOK'
<1> DEFINE c == Container(r)
<1>1. late[r] # "none" => Fits(r, late[r])
  BY DEF CallInv, Admitted
<1>2. late[r] \in BucketSteps => c \in Containers
  BY <1>1, FittingCall DEF BucketSteps
<1>3. late[r] = "assign" => call[r].project \in Projects
  BY <1>1, FittingCall
<1>4. late[r] = "upsert" => Row(r) \in Rows
  BY <1>1, FittingCall
<1>5. WantRead(seen[r]) \in SUBSET Entries /\ WantWrite(seen[r]) \in SUBSET Entries
  BY DEF TypeOK, Views, WantRead, WantWrite, Entries
<1>6. CASE LandBucketCall(r) /\ UNCHANGED <<db, assigned>>
  <2>1. /\ owner' \in [Containers -> {"none", "project", "operator"}]
        /\ read' \in [Containers -> SUBSET Entries]
        /\ write' \in [Containers -> SUBSET Entries]
        /\ probe' \in SUBSET Containers
    BY <1>6, <1>2, <1>5 DEF TypeOK, LandBucketCall, CreateEffect, ACLEffect, ProbeEffect,
       UnprobeEffect, BucketSteps
  <2> QED
    BY <1>6, <2>1 DEF TypeOK, Land, db, roleVars, origin
<1>7. CASE UNCHANGED <<db, store>> /\ assigned' = assigned \cup {call[r].project}
           /\ late[r] = "assign"
  BY <1>7, <1>3 DEF TypeOK, Land, db, store, roleVars, origin
<1>8. CASE /\ UNCHANGED <<store, assigned>>
           /\ (late[r] = "upsert" /\ UpsertEffect(r)) \/ (late[r] = "delete" /\ DeleteEffect(r))
  <2>1. NoRow \in Rows
    BY DEF NoRow, Rows
  <2>2. /\ rows' \in [Projects -> Rows]
        /\ took' \in [Reqs -> {"no", "changed", "noop"}]
    BY <1>8, <1>4, <2>1 DEF TypeOK, UpsertEffect, DeleteEffect
  <2> QED
    BY <1>8, <2>2 DEF TypeOK, Land, store, roleVars, origin
<1> QED
  BY <1>6, <1>7, <1>8 DEF Land

LEMMA RestartTypeOK ==
  ASSUME TypeOK, NEW s \in Replicas, Restart(s) PROVE TypeOK'
<1>1. "done" \in Steps
  BY DEF Steps
<1>2. RoleIDAtStartup \subseteq BOOLEAN
  BY DEF RoleIDAtStartup
<1>3. /\ pc' \in [Reqs -> Steps]
      /\ late' \in [Reqs -> Mutating \cup {"none"}]
  BY <1>1 DEF TypeOK, Restart
<1>4. /\ mu' \in [Replicas -> Reqs \cup {NoReq}]
      /\ roleID' \in [Replicas -> BOOLEAN]
  BY <1>2 DEF TypeOK, Restart
<1> QED
  BY <1>3, <1>4 DEF TypeOK, Restart, db, store, origin

\* The steps of the customer and the operator.
Disturb ==
  \/ \E c \in Containers :
       EditACL(c) \/ RemoveGrant(c) \/ DeleteContainer(c) \/ Migrate(c) \/ HandOver(c)
  \/ \E p \in Projects : RemoveRole(p)

\* All but the requests' deadlines, which is what their wait for the mutex
\* leaves as it is.
rest == <<db, store, assigned, roleID, mu, pc, origin, seen, resp, audit, late>>

\* What a step of the specification is.
LEMMA StepCases ==
  ASSUME [Next]_vars
  PROVE  \/ \E r \in Reqs : Receive(r) \/ RequestStep(r) \/ Land(r)
         \/ \E s \in Replicas : Restart(s)
         \/ Disturb
         \/ UNCHANGED rest /\ (UNCHANGED hurried \/ \E r \in Reqs : hurried' = hurried \cup {r})
<1>1. ASSUME NEW r \in Reqs, AwaitMutex(r)
      PROVE  UNCHANGED rest /\ hurried' = hurried \cup {r}
  BY <1>1 DEF AwaitMutex, rest
<1>2. CASE UNCHANGED vars
  BY <1>2 DEF vars, roleVars, rest
<1> QED
  BY <1>1, <1>2 DEF Next, Disturb

LEMMA DisturbTypeOK == ASSUME TypeOK, Disturb PROVE TypeOK'
<1>1. UNCHANGED others
  BY DEF Disturb, EditACL, RemoveGrant, DeleteContainer, Migrate, HandOver, RemoveRole
<1>2. /\ owner' \in [Containers -> {"none", "project", "operator"}]
      /\ read' \in [Containers -> SUBSET Entries]
      /\ write' \in [Containers -> SUBSET Entries]
      /\ probe' \in SUBSET Containers
      /\ assigned' \in SUBSET Projects
  BY DEF TypeOK, Disturb, EditACL, RemoveGrant, DeleteContainer, Migrate, HandOver,
         RemoveRole, Entries, store
<1> QED
  BY <1>1, <1>2 DEF TypeOK, others, db, roleVars, origin

-----------------------------------------------------------------------------
\* The requests' own records: CallInv and LedgerInv.

\* A step of request r leaves the records of the others alone.
Alone(r) ==
  \A q \in Reqs \ {r} :
    /\ pc'[q] = pc[q] /\ call'[q] = call[q] /\ late'[q] = late[q]
    /\ took'[q] = took[q] /\ resp'[q] = resp[q] /\ audit'[q] = audit[q]

\* So what they say of the others remains true.
LEMMA OthersAdmitted ==
  ASSUME CallInv, LedgerInv, NEW r \in Reqs, Alone(r), Admitted(r)', Ledger(r)'
  PROVE  CallInv' /\ LedgerInv'
<1>1. ASSUME NEW q \in Reqs \ {r} PROVE Admitted(q)' /\ Ledger(q)'
  <2>1. /\ Admitted(q) /\ Ledger(q)
        /\ pc'[q] = pc[q] /\ call'[q] = call[q] /\ late'[q] = late[q]
        /\ took'[q] = took[q] /\ resp'[q] = resp[q] /\ audit'[q] = audit[q]
    BY <1>1 DEF CallInv, LedgerInv, Alone
  <2>2. \A step : Fits(q, step)' <=> Fits(q, step)
    BY <2>1 DEF Fits
  <2> QED
    BY <2>1, <2>2 DEF Admitted, Ledger, Running
<1> QED
  BY <1>1 DEF CallInv, LedgerInv

\* One request after a step that keeps its call.
LEMMA FitsKept ==
  ASSUME NEW r \in Reqs, call'[r] = call[r], NEW step
  PROVE  Fits(r, step)' <=> Fits(r, step)
BY DEF Fits

\* A step that sends a request on to a call its handler makes.
LEMMA GotoAdmitted ==
  ASSUME TypeOK, CallInv, LedgerInv, NEW r \in Reqs, NEW step \in Steps,
         Running(r), pc[r] \notin {"saved", "removed"},
         Goto(r, step), UNCHANGED <<call, late, took>>,
         step \notin {"idle", "done", "saved", "removed"}, Fits(r, step)
  PROVE  CallInv' /\ LedgerInv'
<1>1. Alone(r)
  BY DEF Goto, Alone, TypeOK
<1>2. pc'[r] = step /\ Fits(r, step)'
  BY DEF Goto, TypeOK, Fits
<1>3. Admitted(r) /\ Ledger(r)
  BY DEF CallInv, LedgerInv
<1>4. late[r] = "none"
  BY <1>3 DEF Admitted, Running
<1>5. Admitted(r)'
  BY <1>2, <1>4 DEF Admitted
<1>6. /\ resp'[r] = 0 /\ audit'[r] = 0 /\ took'[r] = "no" /\ late'[r] = "none"
  BY <1>3, <1>4 DEF Ledger, Running, Goto
<1>7. Ledger(r)'
  BY <1>2, <1>6 DEF Ledger
<1> QED
  BY <1>1, <1>5, <1>7, OthersAdmitted

\* A refusal of a request that has not reached the table.
LEMMA FailAdmitted ==
  ASSUME TypeOK, CallInv, LedgerInv, NEW r \in Reqs, NEW status \in Statuses,
         Running(r), pc[r] \notin {"saved", "removed"},
         Answer(r, status, status), UNCHANGED <<call, took>>,
         late' = late \/ (late' = [late EXCEPT ![r] = pc[r]]
                          /\ (pc[r] \in {"upsert", "delete"} => status = 500)),
         status \notin {0, 200, 204}
  PROVE  CallInv' /\ LedgerInv'
<1>1. Alone(r)
  BY DEF Answer, Alone, TypeOK
<1>2. Admitted(r) /\ Ledger(r)
  BY DEF CallInv, LedgerInv
<1>3. late[r] = "none" /\ Fits(r, pc[r]) /\ took[r] = "no"
  BY <1>2 DEF Admitted, Running, Ledger
<1>4. /\ pc'[r] = "done" /\ call'[r] = call[r] /\ took'[r] = "no"
      /\ resp'[r] = status /\ audit'[r] = status
      /\ late'[r] = "none" \/ late'[r] = pc[r]
      /\ late'[r] \in {"upsert", "delete"} => status = 500
  BY <1>3 DEF Answer, TypeOK
<1>5. Admitted(r)'
  <2>1. late'[r] # "none" => Fits(r, late[r])'
    BY <1>3, <1>4 DEF Fits
  <2> QED
    BY <1>4, <2>1 DEF Admitted, Running
<1>6. Ledger(r)'
  BY <1>4 DEF Ledger
<1> QED
  BY <1>1, <1>5, <1>6, OthersAdmitted

LEMMA ReceiveAdmitted ==
  ASSUME TypeOK, CallInv, LedgerInv, NEW r \in Reqs, Receive(r)
  PROVE  CallInv' /\ LedgerInv'
<1>1. PICK c \in Calls :
        /\ call' = [call EXCEPT ![r] = c]
        /\ \/ /\ UnauditedRefusal(c) # 0
              /\ Answer(r, UnauditedRefusal(c), 0)
           \/ /\ UnauditedRefusal(c) = 0 /\ AuditedRefusal(c) # 0
              /\ Answer(r, AuditedRefusal(c), AuditedRefusal(c))
           \/ /\ UnauditedRefusal(c) = 0 /\ AuditedRefusal(c) = 0
              /\ Goto(r, FirstCall(c))
  BY DEF Receive
<1>2. /\ pc[r] = "idle" /\ late[r] = "none" /\ took[r] = "no"
      /\ resp[r] = 0 /\ audit[r] = 0
  BY DEF CallInv, LedgerInv, Admitted, Ledger, Receive
<1>3. /\ late'[r] = "none" /\ took'[r] = "no" /\ call'[r] = c
  BY <1>1, <1>2 DEF Receive, TypeOK, db
<1>4. Alone(r)
  BY <1>1 DEF Receive, Goto, Answer, Alone, TypeOK, db
<1>5. /\ UnauditedRefusal(c) \notin {200, 204, 500}
      /\ AuditedRefusal(c) \notin {200, 204, 500}
  BY DEF UnauditedRefusal, AuditedRefusal, EnableRefusal
<1>6. CASE UnauditedRefusal(c) # 0 /\ Answer(r, UnauditedRefusal(c), 0)
  <2>1. pc'[r] = "done" /\ resp'[r] = UnauditedRefusal(c) /\ audit'[r] = 0
    BY <1>6 DEF Answer, TypeOK
  <2>2. Admitted(r)' /\ Ledger(r)'
    BY <1>3, <1>5, <1>6, <2>1 DEF Admitted, Running, Ledger
  <2> QED
    BY <1>4, <2>2, OthersAdmitted
<1>7. CASE /\ UnauditedRefusal(c) = 0 /\ AuditedRefusal(c) # 0
           /\ Answer(r, AuditedRefusal(c), AuditedRefusal(c))
  <2>1. /\ pc'[r] = "done" /\ resp'[r] = AuditedRefusal(c)
        /\ audit'[r] = AuditedRefusal(c)
    BY <1>7 DEF Answer, TypeOK
  <2>2. Admitted(r)' /\ Ledger(r)'
    BY <1>3, <1>5, <1>7, <2>1 DEF Admitted, Running, Ledger
  <2> QED
    BY <1>4, <2>2, OthersAdmitted
<1>8. CASE /\ UnauditedRefusal(c) = 0 /\ AuditedRefusal(c) = 0
           /\ Goto(r, FirstCall(c))
  <2>1. /\ pc'[r] = FirstCall(c) /\ resp'[r] = 0 /\ audit'[r] = 0
    BY <1>2, <1>8 DEF Goto, TypeOK
  <2>2. c.method \in {"GET", "PUT", "DELETE"} /\ c.enabled \in BOOLEAN
    BY CallsAssumption DEF CallSpace
  <2>3. FirstCall(c) \in {"get", "delete", "upsert", "role", "head"}
    BY <2>2 DEF FirstCall
  <2>4. Fits(r, FirstCall(c))'
    BY <1>3, <1>8, <2>2, ConfigAssumption DEF Fits, FirstCall, RoleSteps, BucketSteps
  <2>5. Fits(r, pc[r])'
    BY <2>1, <2>4, <1>3 DEF Fits
  <2>6. Admitted(r)' /\ Ledger(r)'
    BY <1>3, <2>1, <2>3, <2>5 DEF Admitted, Ledger
  <2> QED
    BY <1>4, <2>6, OthersAdmitted
<1> QED
  BY <1>1, <1>6, <1>7, <1>8

LEMMA RoleStepAdmitted ==
  ASSUME TypeOK, CallInv, LedgerInv, NEW r \in Reqs, RoleStep(r)
  PROVE  CallInv' /\ LedgerInv'
<1>1. pc[r] \in RoleSteps /\ Running(r) /\ Fits(r, pc[r])
  BY DEF RoleStep, AcquireRoleID, LookupRoleID, CheckRole, AssignRole, RoleSteps,
         CallInv, Admitted, Running
<1>2. UNCHANGED <<call, took>>
  BY DEF RoleStep, AcquireRoleID, LookupRoleID, CheckRole, AssignRole, db, origin
<1>3. \A step \in {"lookup", "check", "assign", "head"} : Fits(r, step)
  BY <1>1 DEF Fits, RoleSteps
<1>4. \A status : MapAssignStatus(status) \in Statuses \ {0, 200, 204}
  BY DEF MapAssignStatus, Statuses
<1>5. \/ \E step \in {"lookup", "check", "assign", "head"} : Goto(r, step) /\ UNCHANGED late
      \/ \E status \in Statuses \ {0, 200, 204} :
           /\ Answer(r, status, status)
           /\ late' = late \/ late' = [late EXCEPT ![r] = pc[r]]
  <2>1. {502, 503} \subseteq Statuses \ {0, 200, 204}
    BY DEF Statuses
  <2> QED
    BY <1>4, <2>1 DEF RoleStep, AcquireRoleID, LookupRoleID, CheckRole,
       AssignRole, Fail, Abandon
<1>6. {"lookup", "check", "assign", "head"} \subseteq Steps
  BY DEF Steps
<1>7. pc[r] \notin {"saved", "removed", "upsert", "delete"}
  BY <1>1 DEF RoleSteps
<1>8. CASE \E step \in {"lookup", "check", "assign", "head"} : Goto(r, step) /\ UNCHANGED late
  BY <1>1, <1>2, <1>3, <1>6, <1>7, <1>8, GotoAdmitted
<1>9. CASE \E status \in Statuses \ {0, 200, 204} :
             /\ Answer(r, status, status)
             /\ late' = late \/ late' = [late EXCEPT ![r] = pc[r]]
  BY <1>1, <1>2, <1>7, <1>9, FailAdmitted
<1> QED
  BY <1>5, <1>8, <1>9

LEMMA BucketStepAdmitted ==
  ASSUME TypeOK, CallInv, LedgerInv, NEW r \in Reqs, BucketStep(r)
  PROVE  CallInv' /\ LedgerInv'
<1> DEFINE next == {"create", "acl", "probe", "unprobe", "upsert"}
<1>1. pc[r] \in BucketSteps /\ Running(r) /\ Fits(r, pc[r])
  BY DEF BucketStep, HeadContainer, CreateContainer, SetACL, PutProbe, DeleteProbe,
         BucketSteps, CallInv, Admitted, Running
<1>2. UNCHANGED <<call, took>>
  BY DEF BucketStep, HeadContainer, CreateContainer, SetACL, PutProbe, DeleteProbe,
         db, origin
<1>3. \A step \in next : Fits(r, step)
  BY <1>1 DEF Fits, RoleSteps, BucketSteps
<1>4. /\ \A op, status, existed :
           MapObjectStoreStatus(op, status, existed) \in Statuses \ {0, 200, 204}
      /\ AccountRefusal(call[r]) # 0 => AccountRefusal(call[r]) \in Statuses \ {0, 200, 204}
      /\ 502 \in Statuses \ {0, 200, 204}
  BY DEF MapObjectStoreStatus, AccountRefusal, Statuses
<1>5. \/ \E step \in next : Goto(r, step) /\ UNCHANGED late
      \/ \E status \in Statuses \ {0, 200, 204} :
           /\ Answer(r, status, status)
           /\ late' = late \/ late' = [late EXCEPT ![r] = pc[r]]
  <2>1. CASE HeadContainer(r)
    BY <2>1, <1>4 DEF HeadContainer, Refuse, Fail
  <2>2. CASE CreateContainer(r)
    BY <2>2, <1>4 DEF CreateContainer, Refuse, Fail, GiveUp, Abandon
  <2>3. CASE SetACL(r)
    BY <2>3, <1>4 DEF SetACL, Refuse, Fail, GiveUp, Abandon
  <2>4. CASE PutProbe(r)
    BY <2>4, <1>4 DEF PutProbe, Refuse, Fail, GiveUp, Abandon
  <2>5. CASE DeleteProbe(r)
    BY <2>5, <1>4 DEF DeleteProbe, Refuse, Fail, GiveUp, Abandon
  <2> QED
    BY <2>1, <2>2, <2>3, <2>4, <2>5 DEF BucketStep
<1>6. next \subseteq Steps
  BY DEF Steps
<1>7. pc[r] \notin {"saved", "removed", "upsert", "delete"}
  BY <1>1 DEF BucketSteps
<1>8. CASE \E step \in next : Goto(r, step) /\ UNCHANGED late
  BY <1>1, <1>2, <1>3, <1>6, <1>7, <1>8, GotoAdmitted
<1>9. CASE \E status \in Statuses \ {0, 200, 204} :
             /\ Answer(r, status, status)
             /\ late' = late \/ late' = [late EXCEPT ![r] = pc[r]]
  BY <1>1, <1>2, <1>7, <1>9, FailAdmitted
<1> QED
  BY <1>5, <1>8, <1>9

LEMMA TableStepAdmitted ==
  ASSUME TypeOK, CallInv, LedgerInv, NEW r \in Reqs, TableStep(r)
  PROVE  CallInv' /\ LedgerInv'
<1>1. Admitted(r) /\ Ledger(r)
  BY DEF CallInv, LedgerInv
<1>2. /\ Running(r) /\ Fits(r, pc[r]) /\ late[r] = "none"
      /\ resp[r] = 0 /\ audit[r] = 0
  BY <1>1 DEF TableStep, GetConfig, UpsertConfig, DeleteConfig, RecordChange,
              Admitted, Running, Ledger
<1>3. UNCHANGED call
  BY DEF TableStep, GetConfig, UpsertConfig, DeleteConfig, RecordChange, origin
<1>4. Alone(r)
  BY <1>3 DEF TableStep, GetConfig, UpsertConfig, DeleteConfig, RecordChange, Alone,
     Goto, Answer, GiveUp, Abandon, UpsertEffect, DeleteEffect, TypeOK, db
<1>5. CASE GetConfig(r)
  <2>1. /\ pc'[r] = "done" /\ late'[r] = "none" /\ took'[r] = "no"
        /\ resp'[r] \in {200, 500} /\ audit'[r] = 0 /\ call'[r].method = "GET"
    BY <1>1, <1>2, <1>3, <1>5 DEF GetConfig, Answer, StorageError, Ledger, Fits, TypeOK, db
  <2>2. Admitted(r)' /\ Ledger(r)'
    BY <2>1 DEF Admitted, Running, Ledger
  <2> QED
    BY <1>4, <2>2, OthersAdmitted
<1>6. ASSUME pc[r] \in {"upsert", "delete"}, GiveUp(r, StorageError), UNCHANGED db
      PROVE  CallInv' /\ LedgerInv'
  <2>1. UNCHANGED <<call, took>>
    BY <1>3, <1>6 DEF db
  <2>2. PICK status \in Statuses : status = StorageError /\ status = 500
    BY DEF Statuses, StorageError
  <2>3. /\ Answer(r, status, status)
        /\ \/ late' = late
           \/ late' = [late EXCEPT ![r] = pc[r]]
              /\ (pc[r] \in {"upsert", "delete"} => status = 500)
        /\ status \notin {0, 200, 204}
        /\ pc[r] \notin {"saved", "removed"}
    BY <1>6, <2>2 DEF GiveUp, Abandon
  <2> QED
    BY <1>2, <2>1, <2>2, <2>3, FailAdmitted
<1>7. CASE UpsertConfig(r)
  <2>1. CASE UpsertEffect(r) /\ Goto(r, "saved") /\ UNCHANGED late
    <3>1. /\ pc[r] = "upsert" /\ pc'[r] = "saved" /\ late'[r] = "none"
          /\ took'[r] = "changed" /\ resp'[r] = 0 /\ audit'[r] = 0
      BY <1>2, <1>7, <2>1 DEF UpsertConfig, UpsertEffect, Goto, TypeOK
    <3>2. Fits(r, "saved")' /\ call'[r].method = "PUT"
      BY <1>2, <1>3, <3>1 DEF Fits, RoleSteps, BucketSteps
    <3>3. Fits(r, pc[r])'
      BY <3>1, <3>2 DEF Fits
    <3>4. Admitted(r)' /\ Ledger(r)'
      BY <3>1, <3>2, <3>3 DEF Admitted, Ledger
    <3> QED
      BY <1>4, <3>4, OthersAdmitted
  <2> QED
    BY <1>6, <1>7, <2>1 DEF UpsertConfig
<1>8. CASE DeleteConfig(r)
  <2>1. CASE DeleteEffect(r) /\ Goto(r, "removed") /\ UNCHANGED late
    <3>1. /\ pc[r] = "delete" /\ pc'[r] = "removed" /\ late'[r] = "none"
          /\ took'[r] # "no" /\ resp'[r] = 0 /\ audit'[r] = 0
      BY <1>2, <1>8, <2>1 DEF DeleteConfig, DeleteEffect, Goto, TypeOK
    <3>2. Fits(r, "removed")' /\ call'[r].method = "DELETE"
      BY <1>2, <1>3, <3>1 DEF Fits, RoleSteps, BucketSteps
    <3>3. Fits(r, pc[r])'
      BY <3>1, <3>2 DEF Fits
    <3>4. Admitted(r)' /\ Ledger(r)'
      BY <3>1, <3>2, <3>3 DEF Admitted, Ledger
    <3> QED
      BY <1>4, <3>4, OthersAdmitted
  <2> QED
    BY <1>6, <1>8, <2>1 DEF DeleteConfig
<1>9. CASE RecordChange(r)
  <2>1. /\ pc'[r] = "done" /\ late'[r] = "none" /\ took'[r] = took[r]
        /\ \/ pc[r] = "saved" /\ resp'[r] = 200 /\ audit'[r] = 200
           \/ pc[r] = "removed" /\ resp'[r] = 204 /\ audit'[r] = DeleteEvent(r)
    BY <1>2, <1>9 DEF RecordChange, Answer, TypeOK, db
  <2>2. Fits(r, IF call[r].method = "PUT" THEN "saved" ELSE "removed")'
    BY <1>2, <1>3, <2>1 DEF Fits, RoleSteps, BucketSteps
  <2>3. /\ call'[r].method = "PUT" => pc[r] = "saved"
        /\ took[r] # "no"
        /\ pc[r] = "saved" => took[r] = "changed"
    BY <1>1, <1>2, <1>3, <2>1 DEF Fits, Ledger
  <2>4. DeleteEvent(r) = IF took[r] = "changed" THEN 204 ELSE 0
    BY DEF DeleteEvent
  <2>5. Admitted(r)' /\ Ledger(r)'
    BY <2>1, <2>2, <2>3, <2>4 DEF Admitted, Running, Ledger
  <2> QED
    BY <1>4, <2>5, OthersAdmitted
<1> QED
  BY <1>5, <1>7, <1>8, <1>9 DEF TableStep

LEMMA LandAdmitted ==
  ASSUME TypeOK, CallInv, LedgerInv, NEW r \in Reqs, Land(r)
  PROVE  CallInv' /\ LedgerInv'
<1>1. Admitted(r) /\ Ledger(r)
  BY DEF CallInv, LedgerInv
<1>2. /\ late[r] # "none" /\ pc[r] = "done" /\ took[r] = "no" /\ Fits(r, late[r])
  BY <1>1 DEF Land, LandBucketCall, Admitted, Ledger
<1>3. /\ late'[r] = "none" /\ UNCHANGED <<pc, call, resp, audit>>
  BY DEF Land, TypeOK, origin
<1>4. Alone(r)
  BY <1>3 DEF Land, Alone, UpsertEffect, DeleteEffect, TypeOK, db
<1>5. Admitted(r)'
  BY <1>2, <1>3 DEF Admitted, Running
<1>6. \/ took'[r] = "no"
      \/ took'[r] # "no" /\ late[r] \in {"upsert", "delete"}
  BY <1>2 DEF Land, db, UpsertEffect, DeleteEffect, TypeOK
<1>7. ASSUME took'[r] = "no" PROVE Ledger(r)'
  BY <1>1, <1>2, <1>3, <1>7 DEF Ledger
<1>8. ASSUME took'[r] # "no", late[r] \in {"upsert", "delete"} PROVE Ledger(r)'
  <2>1. resp[r] \in {0, 500} /\ audit[r] \in {0, 500}
    BY <1>1, <1>8 DEF Ledger
  <2>2. Fits(r, IF call[r].method = "PUT" THEN "saved" ELSE "removed")'
    BY <1>2, <1>3, <1>8 DEF Fits, RoleSteps, BucketSteps
  <2>3. call[r].method # "GET"
    BY <1>2, <1>8 DEF Fits
  <2> QED
    BY <1>1, <1>2, <1>3, <1>8, <2>1, <2>2, <2>3 DEF Ledger
<1>9. Ledger(r)'
  BY <1>6, <1>7, <1>8
<1> QED
  BY <1>4, <1>5, <1>9, OthersAdmitted

LEMMA RestartAdmitted ==
  ASSUME TypeOK, CallInv, LedgerInv, NEW s \in Replicas, Restart(s)
  PROVE  CallInv' /\ LedgerInv'
<1>1. ASSUME NEW r \in Reqs PROVE Admitted(r)' /\ Ledger(r)'
  <2>1. Admitted(r) /\ Ledger(r)
    BY DEF CallInv, LedgerInv
  <2>2. UNCHANGED <<call, took, resp, audit>>
    BY DEF Restart, db, origin
  <2>3. \A step : Fits(r, step)' <=> Fits(r, step)
    BY <2>2 DEF Fits
  <2>4. CASE pc'[r] = pc[r] /\ late'[r] = late[r]
    BY <2>1, <2>2, <2>3, <2>4 DEF Admitted, Ledger, Running
  <2>5. CASE /\ Running(r) /\ pc'[r] = "done"
             /\ late'[r] = IF pc[r] \in Mutating THEN pc[r] ELSE late[r]
    <3>1. late[r] = "none" /\ resp[r] = 0 /\ audit[r] = 0 /\ Fits(r, pc[r])
      BY <2>1, <2>5 DEF Admitted, Ledger, Running
    <3>2. pc[r] \in Mutating => took[r] = "no"
      BY <2>1 DEF Ledger, Mutating
    <3>3. Admitted(r)'
      BY <2>3, <2>5, <3>1 DEF Admitted, Running, Fits
    <3>4. Ledger(r)'
      BY <2>1, <2>2, <2>3, <2>5, <3>1, <3>2 DEF Ledger
    <3> QED
      BY <3>3, <3>4
  <2>6. \/ pc'[r] = pc[r] /\ late'[r] = late[r]
        \/ /\ Running(r) /\ pc'[r] = "done"
           /\ late'[r] = IF pc[r] \in Mutating THEN pc[r] ELSE late[r]
    BY DEF Restart, TypeOK
  <2> QED
    BY <2>4, <2>5, <2>6
<1> QED
  BY <1>1 DEF CallInv, LedgerInv

LEMMA DisturbAdmitted ==
  ASSUME CallInv, LedgerInv, UNCHANGED <<db, pc, origin, resp, audit, late>>
  PROVE  CallInv' /\ LedgerInv'
<1> USE DEF db, origin
<1>1. \A r \in Reqs : \A step : Fits(r, step)' <=> Fits(r, step)
  BY DEF Fits
<1> QED
  BY <1>1 DEF CallInv, LedgerInv, Admitted, Ledger, Running

\* All steps together.
LEMMA RecordsInductive ==
  ASSUME TypeOK, CallInv, LedgerInv, [Next]_vars
  PROVE  TypeOK' /\ CallInv' /\ LedgerInv'
<1>1. ASSUME NEW r \in Reqs, Receive(r) PROVE TypeOK' /\ CallInv' /\ LedgerInv'
  BY <1>1, ReceiveTypeOK, ReceiveAdmitted
<1>2. ASSUME NEW r \in Reqs, RequestStep(r) PROVE TypeOK' /\ CallInv' /\ LedgerInv'
  BY <1>2, RoleStepTypeOK, BucketStepTypeOK, TableStepTypeOK,
     RoleStepAdmitted, BucketStepAdmitted, TableStepAdmitted DEF RequestStep
<1>3. ASSUME NEW r \in Reqs, Land(r) PROVE TypeOK' /\ CallInv' /\ LedgerInv'
  BY <1>3, LandTypeOK, LandAdmitted
<1>4. ASSUME NEW s \in Replicas, Restart(s) PROVE TypeOK' /\ CallInv' /\ LedgerInv'
  BY <1>4, RestartTypeOK, RestartAdmitted
<1>5. CASE Disturb
  <2>1. UNCHANGED others
    BY <1>5 DEF Disturb, EditACL, RemoveGrant, DeleteContainer, Migrate, HandOver,
                RemoveRole
  <2> QED
    BY <1>5, <2>1, DisturbTypeOK, DisturbAdmitted DEF others
<1>6. CASE UNCHANGED rest /\ (UNCHANGED hurried \/ \E r \in Reqs : hurried' = hurried \cup {r})
  <2>1. TypeOK'
    BY <1>6 DEF rest, TypeOK, db, store, origin
  <2> QED
    BY <1>6, <2>1, DisturbAdmitted DEF rest
<1> QED
  BY <1>1, <1>2, <1>3, <1>4, <1>5, <1>6, StepCases

LEMMA RecordsInit == Init => TypeOK /\ CallInv /\ LedgerInv
<1> SUFFICES ASSUME Init PROVE TypeOK /\ CallInv /\ LedgerInv
  OBVIOUS
<1>1. \A r \in Reqs : /\ pc[r] = "idle" /\ late[r] = "none" /\ took[r] = "no"
                      /\ resp[r] = 0 /\ audit[r] = 0
  BY DEF Init
<1> QED
  BY <1>1, InitTypeOK DEF CallInv, LedgerInv, Admitted, Ledger, Running

\* Every variable keeps its type: requests stay within the statuses, steps and
\* rows their handlers know, containers within names that passed the checks.
THEOREM TypeCorrect == Spec => []TypeOK
<1>1. TypeOK /\ CallInv /\ LedgerInv /\ [Next]_vars => (TypeOK /\ CallInv /\ LedgerInv)'
  BY RecordsInductive
<1> QED
  BY <1>1, RecordsInit, PTL DEF Spec

\* A refused request changes nothing, now or later (PutDataplaneConfig,
\* DeleteDataplaneConfig).
THEOREM RefusalIsFinal == Spec => []RefusedChangesNothing
<1>1. TypeOK /\ CallInv /\ LedgerInv /\ [Next]_vars => (TypeOK /\ CallInv /\ LedgerInv)'
  BY RecordsInductive
<1>2. LedgerInv => RefusedChangesNothing
  BY DEF LedgerInv, Ledger, RefusedChangesNothing
<1> QED
  BY <1>1, <1>2, RecordsInit, PTL DEF Spec

\* The audit trail, the answers and the table agree (recordAttempt and the
\* event of DeleteDataplaneConfig).
THEOREM AuditIsTrue == Spec => []AuditMatchesTable
<1>1. TypeOK /\ CallInv /\ LedgerInv /\ [Next]_vars => (TypeOK /\ CallInv /\ LedgerInv)'
  BY RecordsInductive
<1>2. LedgerInv => AuditMatchesTable
  <2> SUFFICES ASSUME LedgerInv, NEW r \in Reqs
               PROVE  /\ resp[r] # 0 /\ call[r].method = "PUT" /\ Entitled(call[r])
                           => audit[r] = resp[r]
                      /\ resp[r] # 0 /\ took[r] = "changed" => audit[r] = resp[r]
                      /\ audit[r] \in {200, 204} => took[r] = "changed"
    BY DEF AuditMatchesTable
  <2>1. call[r].method = "PUT" /\ Entitled(call[r]) => UnauditedRefusal(call[r]) = 0
    BY DEF Entitled, UnauditedRefusal
  <2> QED
    BY <2>1 DEF LedgerInv, Ledger
<1> QED
  BY <1>1, <1>2, RecordsInit, PTL DEF Spec

-----------------------------------------------------------------------------
\* Who has written the rows: AuthorInv.

\* A request that has arrived keeps its call.
LEMMA CallsKept ==
  ASSUME TypeOK, [Next]_vars, NEW r \in Reqs, pc[r] # "idle"
  PROVE  call'[r] = call[r] /\ Container(r)' = Container(r)
<1>1. \/ UNCHANGED call
      \/ \E q \in Reqs : Receive(q)
  <2>1. ASSUME NEW q \in Reqs, RoleStep(q) \/ BucketStep(q) PROVE UNCHANGED call
    BY <2>1 DEF RoleStep, AcquireRoleID, LookupRoleID, CheckRole, AssignRole, BucketStep,
       HeadContainer, CreateContainer, SetACL, PutProbe, DeleteProbe, origin
  <2>2. ASSUME NEW q \in Reqs, TableStep(q) \/ Land(q) PROVE UNCHANGED call
    BY <2>2 DEF TableStep, GetConfig, UpsertConfig, DeleteConfig, RecordChange, Land, origin
  <2>3. ASSUME NEW s \in Replicas, Restart(s) PROVE UNCHANGED call
    BY <2>3 DEF Restart, origin
  <2>4. ASSUME Disturb PROVE UNCHANGED call
    BY <2>4 DEF Disturb, EditACL, RemoveGrant, DeleteContainer, Migrate, HandOver,
       RemoveRole, others, origin
  <2>5. CASE UNCHANGED rest
    BY <2>5 DEF rest, origin
  <2> QED
    BY <2>1, <2>2, <2>3, <2>4, <2>5, StepCases DEF RequestStep
<1>2. ASSUME NEW q \in Reqs, Receive(q) PROVE call'[r] = call[r]
  BY <1>2 DEF Receive, TypeOK
<1> QED
  BY <1>1, <1>2 DEF Container

\* What a step may do to the table.
LEMMA TableSteps ==
  ASSUME CallInv, [Next]_vars
  PROVE  \/ UNCHANGED db
         \/ \E r \in Reqs : /\ Fits(r, "upsert") /\ UpsertEffect(r)
                            /\ pc[r] # "idle" /\ UNCHANGED <<call, store, assigned>>
         \/ \E r \in Reqs : Fits(r, "delete") /\ DeleteEffect(r) /\ pc[r] # "idle"
<1>1. ASSUME NEW r \in Reqs, TableStep(r) \/ Land(r)
      PROVE  \/ UNCHANGED db
             \/ /\ Fits(r, "upsert") /\ UpsertEffect(r)
                /\ pc[r] # "idle" /\ UNCHANGED <<call, store, assigned>>
             \/ Fits(r, "delete") /\ DeleteEffect(r) /\ pc[r] # "idle"
  <2>1. Admitted(r)
    BY DEF CallInv
  <2> QED
    BY <1>1, <2>1 DEF TableStep, GetConfig, UpsertConfig, DeleteConfig, RecordChange,
       Land, Admitted, Running, origin
<1>2. ASSUME NEW r \in Reqs, Receive(r) \/ RoleStep(r) \/ BucketStep(r)
      PROVE  UNCHANGED db
  BY <1>2 DEF Receive, RoleStep, AcquireRoleID, LookupRoleID, CheckRole, AssignRole,
     BucketStep, HeadContainer, CreateContainer, SetACL, PutProbe, DeleteProbe
<1>3. ASSUME NEW s \in Replicas, Restart(s) PROVE UNCHANGED db
  BY <1>3 DEF Restart
<1>4. ASSUME Disturb PROVE UNCHANGED db
  BY <1>4 DEF Disturb, EditACL, RemoveGrant, DeleteContainer, Migrate, HandOver,
     RemoveRole, others
<1>5. CASE UNCHANGED rest
  BY <1>5 DEF rest
<1> QED
  BY <1>1, <1>2, <1>3, <1>4, <1>5, StepCases DEF RequestStep

\* A change of the table that was made is not made undone.
LEMMA ChangesStay ==
  ASSUME TypeOK, CallInv, LedgerInv, [Next]_vars, NEW r \in Reqs, took[r] # "no"
  PROVE  took'[r] # "no" /\ call'[r] = call[r]
<1>1. pc[r] # "idle"
  BY DEF LedgerInv, Ledger
<1>2. call'[r] = call[r]
  BY <1>1, CallsKept
<1>3. took'[r] # "no"
  BY TableSteps DEF UpsertEffect, DeleteEffect, TypeOK, db
<1> QED
  BY <1>2, <1>3

LEMMA AuthorInductive ==
  ASSUME TypeOK, CallInv, LedgerInv, AuthorInv, [Next]_vars
  PROVE  AuthorInv'
<1> SUFFICES ASSUME NEW p \in Projects, rows'[p].enabled PROVE EnabledBy(p)'
  BY DEF AuthorInv
<1>1. CASE rows'[p] = rows[p]
  BY <1>1, ChangesStay DEF AuthorInv, EnabledBy
<1>2. CASE rows'[p] # rows[p]
  <2>1. PICK r \in Reqs : /\ Fits(r, "upsert") /\ UpsertEffect(r)
                          /\ pc[r] # "idle" /\ UNCHANGED call
    BY <1>2, TableSteps DEF DeleteEffect, NoRow, TypeOK, db
  <2>2. p = call[r].project /\ rows'[p] = Row(r) /\ took'[r] = "changed"
    BY <1>2, <2>1 DEF UpsertEffect, TypeOK
  <2>3. rows'[p].by = r /\ call[r].enabled
    BY <2>2 DEF Row
  <2>4. call[r].token.scope = call[r].project
    BY <2>1, <2>3 DEF Fits, AuditedRefusal, EnableRefusal
  <2> QED
    BY <2>1, <2>2, <2>3, <2>4 DEF EnabledBy
<1> QED
  BY <1>1, <1>2

\* The table is changed for entitled callers only, and enabled only with a token
\* of the project itself; the change may be a late one, and grants, roles and
\* containers may have gone meanwhile (authDataplaneConfig,
\* checkEnablePreconditions).
THEOREM OnlyEntitledCallersChange == Spec => []EntitledToChange
<1> DEFINE I == TypeOK /\ CallInv /\ LedgerInv /\ AuthorInv
<1>1. Init => I
  BY RecordsInit DEF AuthorInv, Init, NoRow
<1>2. I /\ [Next]_vars => I'
  BY RecordsInductive, AuthorInductive
<1>3. I => EntitledToChange
  <2> SUFFICES ASSUME I, NEW r \in Reqs, took[r] = "changed"
               PROVE  /\ Entitled(call[r])
                      /\ rows[call[r].project].by = r /\ rows[call[r].project].enabled
                           => call[r].token.scope = call[r].project
    BY DEF EntitledToChange
  <2>1. Fits(r, IF call[r].method = "PUT" THEN "saved" ELSE "removed")
    BY DEF LedgerInv, Ledger
  <2>2. UnauditedRefusal(call[r]) = 0 /\ call[r].method # "GET"
    BY <2>1 DEF Fits
  <2>3. Entitled(call[r])
    BY <2>2 DEF UnauditedRefusal, Entitled
  <2>4. call[r].project \in Projects
    BY <2>1, FittingCall
  <2> QED
    BY <2>3, <2>4 DEF AuthorInv, EnabledBy
<1> QED
  BY <1>1, <1>2, <1>3, PTL DEF Spec

-----------------------------------------------------------------------------
\* The mutex.

\* A request whose step is not about the mutex.
LEMMA LockUntouched ==
  ASSUME TypeOK, LockGuardsLookup, UNCHANGED <<roleID, mu, server>>,
         \A r \in Reqs : pc'[r] = pc[r] \/ (pc[r] # "lookup" /\ pc'[r] # "lookup")
  PROVE  LockGuardsLookup'
<1>1. \A r \in Reqs : pc[r] = "lookup" <=> pc'[r] = "lookup"
  OBVIOUS
<1>2. \A s \in Replicas : mu[s] # NoReq => mu[s] \in Reqs
  BY DEF TypeOK
<1> QED
  BY <1>1, <1>2 DEF LockGuardsLookup

LEMMA LockTaken ==
  ASSUME TypeOK, LockGuardsLookup, NEW r \in Reqs, AcquireRoleID(r)
  PROVE  LockGuardsLookup'
<1> DEFINE s == server[r]
<1>1. /\ s \in Replicas /\ mu[s] = NoReq /\ pc[r] = "role"
      /\ UNCHANGED <<roleID, server>>
  BY DEF AcquireRoleID, TypeOK, origin
<1>2. CASE ~roleID[s] /\ mu' = [mu EXCEPT ![s] = r] /\ pc' = [pc EXCEPT ![r] = "lookup"]
  <2>1. ASSUME NEW t \in Replicas, mu'[t] # NoReq
        PROVE  server[mu'[t]] = t /\ pc'[mu'[t]] = "lookup" /\ ~roleID[t]
    <3>1. CASE t = s
      BY <1>1, <1>2, <3>1 DEF TypeOK
    <3>2. CASE t # s
      <4>1. mu'[t] = mu[t] /\ mu[t] \in Reqs /\ mu[t] # NoReq
        BY <1>2, <2>1, <3>2 DEF TypeOK
      <4>2. pc[mu[t]] = "lookup" /\ server[mu[t]] = t /\ ~roleID[t]
        BY <4>1 DEF LockGuardsLookup
      <4>3. pc'[mu[t]] = "lookup"
        BY <1>1, <1>2, <4>1, <4>2 DEF TypeOK
      <4> QED
        BY <4>1, <4>2, <4>3
    <3> QED
      BY <3>1, <3>2
  <2>2. ASSUME NEW q \in Reqs, pc'[q] = "lookup" PROVE mu'[server[q]] = q
    <3>1. CASE q = r
      BY <1>1, <1>2, <3>1 DEF TypeOK
    <3>2. CASE q # r
      <4>1. pc[q] = "lookup" /\ mu[server[q]] = q
        BY <1>2, <2>2, <3>2 DEF TypeOK, LockGuardsLookup
      <4>2. server[q] # s
        BY <1>1, <4>1, NamesAssumption
      <4> QED
        BY <1>2, <4>1, <4>2 DEF TypeOK
    <3> QED
      BY <3>1, <3>2
  <2> QED
    BY <1>1, <2>1, <2>2 DEF LockGuardsLookup
<1>3. CASE UNCHANGED mu /\ pc' \in {[pc EXCEPT ![r] = "check"], [pc EXCEPT ![r] = "done"]}
  BY <1>1, <1>3, LockUntouched DEF TypeOK
<1> QED
  BY <1>2, <1>3 DEF AcquireRoleID, Goto, Fail, Answer

LEMMA LockReleased ==
  ASSUME TypeOK, LockGuardsLookup, NEW r \in Reqs, LookupRoleID(r)
  PROVE  LockGuardsLookup'
<1> DEFINE s == server[r]
<1>1. /\ s \in Replicas /\ mu[s] = r /\ pc[r] = "lookup"
      /\ mu' = [mu EXCEPT ![s] = NoReq] /\ UNCHANGED server
      /\ \A t \in Replicas \ {s} : roleID'[t] = roleID[t]
  BY DEF LookupRoleID, LockGuardsLookup, Unlock, TypeOK, origin
<1>2. pc'[r] # "lookup" /\ \A q \in Reqs \ {r} : pc'[q] = pc[q]
  BY DEF LookupRoleID, Goto, Fail, Answer, TypeOK
<1>3. ASSUME NEW t \in Replicas, mu'[t] # NoReq
      PROVE  server[mu'[t]] = t /\ pc'[mu'[t]] = "lookup" /\ ~roleID'[t]
  <2>1. t # s /\ mu'[t] = mu[t] /\ mu[t] \in Reqs
    BY <1>1, <1>3 DEF TypeOK
  <2>2. pc[mu[t]] = "lookup" /\ server[mu[t]] = t /\ ~roleID[t]
    BY <1>3, <2>1 DEF LockGuardsLookup
  <2> QED
    BY <1>1, <1>2, <2>1, <2>2
<1>4. ASSUME NEW q \in Reqs, pc'[q] = "lookup" PROVE mu'[server[q]] = q
  <2>1. pc[q] = "lookup" /\ q # r
    BY <1>2, <1>4
  <2>2. mu[server[q]] = q
    BY <2>1 DEF LockGuardsLookup
  <2> QED
    BY <1>1, <2>1, <2>2 DEF TypeOK
<1> QED
  BY <1>1, <1>3, <1>4 DEF LockGuardsLookup

LEMMA LockOfTheDead ==
  ASSUME TypeOK, LockGuardsLookup, NEW s \in Replicas, Restart(s)
  PROVE  LockGuardsLookup'
<1>1. /\ mu' = [mu EXCEPT ![s] = NoReq] /\ UNCHANGED server
      /\ \A t \in Replicas \ {s} : roleID'[t] = roleID[t]
      /\ \A r \in Reqs : pc'[r] = IF Running(r) /\ server[r] = s THEN "done" ELSE pc[r]
  BY DEF Restart, TypeOK, origin
<1>2. ASSUME NEW t \in Replicas, mu'[t] # NoReq
      PROVE  server[mu'[t]] = t /\ pc'[mu'[t]] = "lookup" /\ ~roleID'[t]
  <2>1. t # s /\ mu'[t] = mu[t] /\ mu[t] \in Reqs
    BY <1>1, <1>2 DEF TypeOK
  <2>2. pc[mu[t]] = "lookup" /\ server[mu[t]] = t /\ ~roleID[t]
    BY <1>2, <2>1 DEF LockGuardsLookup
  <2> QED
    BY <1>1, <2>1, <2>2
<1>3. ASSUME NEW r \in Reqs, pc'[r] = "lookup" PROVE mu'[server[r]] = r
  <2>1. pc[r] = "lookup" /\ server[r] # s
    BY <1>1, <1>3 DEF Running
  <2> QED
    BY <1>1, <2>1 DEF LockGuardsLookup, TypeOK
<1> QED
  BY <1>1, <1>2, <1>3 DEF LockGuardsLookup

\* The mutex of a replica is held for a lookup of the role ID there and for
\* nothing else, whatever fails, is given up or dies (RoleID).
THEOREM LockIsGivenBack == Spec => []LockGuardsLookup
<1>1. Init => LockGuardsLookup
  BY DEF Init, LockGuardsLookup
<1>2. ASSUME TypeOK, LockGuardsLookup, [Next]_vars PROVE LockGuardsLookup'
  <2>1. ASSUME NEW r \in Reqs, Receive(r) PROVE LockGuardsLookup'
    <3>1. pc[r] = "idle" /\ UNCHANGED <<roleID, mu, server>>
      BY <2>1 DEF Receive, roleVars
    <3>2. PICK c \in Calls :
            pc' \in {[pc EXCEPT ![r] = "done"], [pc EXCEPT ![r] = FirstCall(c)]}
      BY <2>1 DEF Receive, Answer, Goto
    <3>3. FirstCall(c) # "lookup"
      BY CallsAssumption DEF FirstCall, CallSpace
    <3> QED
      BY <1>2, <3>1, <3>2, <3>3, LockUntouched DEF TypeOK
  <2>2. ASSUME NEW r \in Reqs, RoleStep(r) PROVE LockGuardsLookup'
    <3>1. CASE CheckRole(r) \/ AssignRole(r)
      <4>1. /\ pc[r] \in {"check", "assign"} /\ UNCHANGED <<roleID, mu, server>>
            /\ pc' \in {[pc EXCEPT ![r] = step] : step \in {"assign", "head", "done"}}
        BY <3>1 DEF CheckRole, AssignRole, Goto, Fail, GiveUp, Abandon, Answer, origin,
           roleVars
      <4> QED
        BY <1>2, <4>1, LockUntouched DEF TypeOK
    <3> QED
      BY <1>2, <2>2, <3>1, LockTaken, LockReleased DEF RoleStep
  <2>3. ASSUME NEW r \in Reqs, BucketStep(r) PROVE LockGuardsLookup'
    <3>1. /\ pc[r] \in BucketSteps /\ UNCHANGED <<roleID, mu, server>>
          /\ pc' \in {[pc EXCEPT ![r] = step] :
                      step \in {"create", "acl", "probe", "unprobe", "upsert", "done"}}
      BY <2>3 DEF BucketStep, HeadContainer, CreateContainer, SetACL, PutProbe,
         DeleteProbe, Refuse, Goto, Fail, GiveUp, Abandon, Answer, BucketSteps, origin,
         roleVars
    <3> QED
      BY <1>2, <3>1, LockUntouched DEF TypeOK, BucketSteps
  <2>4. ASSUME NEW r \in Reqs, TableStep(r) PROVE LockGuardsLookup'
    <3>1. /\ pc[r] # "lookup" /\ UNCHANGED <<roleID, mu, server>>
          /\ pc' \in {[pc EXCEPT ![r] = step] : step \in {"saved", "removed", "done"}}
      BY <2>4 DEF TableStep, GetConfig, UpsertConfig, DeleteConfig, RecordChange, Goto,
         GiveUp, Abandon, Answer, origin, roleVars
    <3> QED
      BY <1>2, <3>1, LockUntouched DEF TypeOK
  <2>5. ASSUME UNCHANGED <<roleID, mu, server, pc>> PROVE LockGuardsLookup'
    BY <1>2, <2>5, LockUntouched
  <2>6. ASSUME NEW r \in Reqs, Land(r) PROVE LockGuardsLookup'
    BY <2>5, <2>6 DEF Land, origin, roleVars
  <2>7. CASE Disturb
    BY <2>5, <2>7 DEF Disturb, EditACL, RemoveGrant, DeleteContainer, Migrate, HandOver,
       RemoveRole, others, origin, roleVars
  <2>8. CASE UNCHANGED rest
    BY <2>5, <2>8 DEF rest, origin
  <2> QED
    BY <1>2, <2>1, <2>2, <2>3, <2>4, <2>6, <2>7, <2>8, LockOfTheDead, StepCases
    DEF RequestStep
<1> QED
  BY <1>1, <1>2, TypeCorrect, PTL DEF Spec

-----------------------------------------------------------------------------
\* What is in place stays in place, as long as nobody undoes it.

Grows ==
  /\ assigned \subseteq assigned'
  /\ \A c \in Containers : /\ owner[c] # "none" => owner'[c] # "none"
                           /\ Provisioned(c) => Provisioned(c)'

LEMMA UnchangedGrows == ASSUME UNCHANGED <<store, assigned>> PROVE Grows
BY DEF Grows, Provisioned, store

LEMMA AssignGrows ==
  ASSUME UNCHANGED store, NEW p, assigned' = assigned \cup {p} PROVE Grows
BY DEF Grows, Provisioned, store

\* The effects of the object store's calls, landed in time or late.
LEMMA EffectGrows ==
  ASSUME TypeOK, NEW r \in Reqs, UNCHANGED assigned,
         \/ CreateEffect(Container(r)) \/ ACLEffect(Container(r), seen[r])
         \/ ProbeEffect(Container(r)) \/ UnprobeEffect(Container(r))
  PROVE  Grows
<1>1. {Own, Grant} \subseteq WantRead(seen[r]) /\ Grant \in WantWrite(seen[r])
  BY DEF WantRead, WantWrite
<1>2. CASE CreateEffect(Container(r))
  BY <1>2 DEF CreateEffect, Grows, Provisioned, TypeOK
<1>3. CASE ACLEffect(Container(r), seen[r])
  BY <1>1, <1>3 DEF ACLEffect, Grows, Provisioned, TypeOK
<1>4. CASE ProbeEffect(Container(r)) \/ UnprobeEffect(Container(r))
  BY <1>4 DEF ProbeEffect, UnprobeEffect, Grows, Provisioned
<1> QED
  BY <1>2, <1>3, <1>4

LEMMA DisturbGrows ==
  ASSUME TypeOK, "undo" \notin Disturbances, Disturb PROVE Grows
<1>1. CASE \E c \in Containers : EditACL(c)
  BY <1>1 DEF EditACL, Grows, Provisioned, TypeOK
<1>2. CASE \E c \in Containers : Migrate(c)
  BY <1>2 DEF Migrate, Grows, Provisioned, TypeOK
<1>3. CASE \E c \in Containers : HandOver(c)
  BY <1>3 DEF HandOver, Grows, Provisioned, TypeOK
<1> QED
  BY <1>1, <1>2, <1>3 DEF Disturb, RemoveGrant, DeleteContainer, RemoveRole

\* A request is as prepared for a step as it was before.
LEMMA PreparedKept ==
  ASSUME TypeOK, Grows, NEW r \in Reqs, call'[r] = call[r], NEW step,
         step = "none" \/ Fits(r, step), Prepared(r, step)
  PROVE  Prepared(r, step)'
<1>1. CASE step \in BucketSteps \/ (step = "upsert" /\ call[r].enabled)
  <2>1. call[r].method = "PUT" /\ call[r].enabled
    BY <1>1 DEF Fits, BucketSteps
  <2>2. Fits(r, "head") \/ step \notin BucketSteps
    BY <1>1 DEF Fits, BucketSteps, RoleSteps
  <2>3. Container(r) \in Containers
    <3>1. call[r] \in Calls
      BY DEF TypeOK
    <3>2. UnauditedRefusal(call[r]) = 0 /\ AuditedRefusal(call[r]) = 0
      BY <1>1 DEF Fits, BucketSteps
    <3> QED
      BY <2>1, <3>1, <3>2, AcceptedCall DEF Container, Containers
  <2>4. Container(r)' = Container(r)
    BY DEF Container
  <2> QED
    BY <2>3, <2>4 DEF Prepared, Grows, Provisioned
<1>2. CASE ~(step \in BucketSteps \/ (step = "upsert" /\ call[r].enabled))
  BY <1>2 DEF Prepared
<1> QED
  BY <1>1, <1>2

\* The rows are as the invariant wants them.
RowsReady ==
  \A p \in Projects : rows[p].enabled =>
    rows[p].bucket \in Buckets /\ Provisioned(<<p, rows[p].bucket>>)

\* So a step of request r has to be looked at for r and for the table only.
LEMMA OthersPrepared ==
  ASSUME TypeOK, CallInv, ProvisioningInv, Grows, NEW r \in Reqs, Alone(r),
         Prepared(r, pc[r])', Prepared(r, late[r])', RowsReady'
  PROVE  ProvisioningInv'
<1>1. ASSUME NEW q \in Reqs \ {r} PROVE Prepared(q, pc[q])' /\ Prepared(q, late[q])'
  <2>1. /\ pc'[q] = pc[q] /\ call'[q] = call[q] /\ late'[q] = late[q]
        /\ Prepared(q, pc[q]) /\ Prepared(q, late[q])
    BY <1>1 DEF Alone, ProvisioningInv
  <2>2. late[q] = "none" \/ Fits(q, late[q])
    BY <1>1 DEF CallInv, Admitted
  <2>3. Prepared(q, late[q])'
    <3>1. ASSUME NEW step, step = late[q] PROVE Prepared(q, step)'
      BY <1>1, <2>1, <2>2, <3>1, PreparedKept
    <3> QED
      BY <2>1, <3>1 DEF Prepared, Provisioned, Container
  <2>4. CASE Running(q)
    <3>1. ASSUME NEW step, step = pc[q] PROVE Prepared(q, step)'
      <4>1. Fits(q, step)
        BY <1>1, <2>4, <3>1 DEF CallInv, Admitted
      <4> QED
        BY <1>1, <2>1, <3>1, <4>1, PreparedKept
    <3>2. Prepared(q, pc[q])'
      BY <2>1, <3>1 DEF Prepared, Provisioned, Container
    <3> QED
      BY <2>3, <3>2
  <2>5. CASE ~Running(q)
    BY <2>1, <2>3, <2>5 DEF Running, Prepared, BucketSteps
  <2> QED
    BY <2>4, <2>5
<1> QED
  BY <1>1 DEF ProvisioningInv, RowsReady, EnabledMeansProvisioned

\* Rows that stay as they are stay ready.
LEMMA RowsKept ==
  ASSUME ProvisioningInv, Grows, NEW p \in Projects, rows'[p] = rows[p],
         rows'[p].enabled
  PROVE  rows'[p].bucket \in Buckets /\ Provisioned(<<p, rows[p].bucket>>)'
<1> DEFINE c == <<p, rows[p].bucket>>
<1>1. c \in Containers /\ Provisioned(c)
  BY DEF ProvisioningInv, EnabledMeansProvisioned, Containers
<1>2. ASSUME NEW d, d = c PROVE Provisioned(d)'
  BY <1>1, <1>2 DEF Grows
<1> QED
  BY <1>1, <1>2 DEF Provisioned, ProvisioningInv

LEMMA AllRowsKept ==
  ASSUME ProvisioningInv, Grows, UNCHANGED rows PROVE RowsReady'
BY RowsKept DEF RowsReady

\* The row a request writes is ready.
LEMMA UpsertReady ==
  ASSUME TypeOK, ProvisioningInv, Grows, NEW r \in Reqs, UpsertEffect(r),
         UNCHANGED <<call, store, assigned>>,
         Fits(r, "upsert"), Prepared(r, "upsert")
  PROVE  RowsReady'
<1>1. call[r] \in Calls /\ call[r].project \in Projects
  BY FittingCall DEF TypeOK
<1>2. call[r].enabled => Target(call[r]) \in Buckets
  BY <1>1, AcceptedCall DEF Fits
<1>3. rows'[call[r].project] = Row(r)
  BY <1>1 DEF UpsertEffect, TypeOK
<1>4. call[r].enabled => Provisioned(<<call[r].project, Target(call[r])>>)
  BY DEF Prepared, Container
<1>5. ASSUME NEW p \in Projects, p # call[r].project, rows'[p].enabled
      PROVE  rows'[p].bucket \in Buckets /\ Provisioned(<<p, rows[p].bucket>>)'
  <2>1. rows'[p] = rows[p]
    BY <1>5 DEF UpsertEffect, TypeOK
  <2> QED
    BY <1>5, <2>1, RowsKept
<1>6. ASSUME NEW p \in Projects, p = call[r].project, rows'[p].enabled
      PROVE  rows'[p].bucket \in Buckets /\ Provisioned(<<p, rows[p].bucket>>)'
  <2>1. rows'[p].bucket = Target(call[r]) /\ call[r].enabled
    BY <1>3, <1>6 DEF Row
  <2> QED
    BY <1>2, <1>4, <1>6, <2>1 DEF Provisioned, store
<1> QED
  BY <1>5, <1>6 DEF RowsReady

LEMMA DeleteReady ==
  ASSUME TypeOK, ProvisioningInv, Grows, NEW r \in Reqs, DeleteEffect(r)
  PROVE  RowsReady'
<1>1. ASSUME NEW p \in Projects, rows'[p].enabled PROVE rows'[p] = rows[p]
  BY <1>1 DEF DeleteEffect, NoRow, TypeOK
<1> QED
  BY <1>1, RowsKept DEF RowsReady

LEMMA ReceivePrepares ==
  ASSUME TypeOK, CallInv, LedgerInv, ProvisioningInv, NEW r \in Reqs, Receive(r)
  PROVE  ProvisioningInv'
<1>1. PICK c \in Calls :
        /\ call' = [call EXCEPT ![r] = c]
        /\ pc' = [pc EXCEPT ![r] = "done"] \/ pc' = [pc EXCEPT ![r] = FirstCall(c)]
  BY DEF Receive, Answer, Goto
<1>2. Grows
  BY UnchangedGrows DEF Receive
<1>3. Alone(r)
  BY DEF Receive, Goto, Answer, Alone, TypeOK, db
<1>4. late'[r] = "none" /\ call'[r] = c /\ UNCHANGED rows
  BY <1>1 DEF Receive, CallInv, Admitted, TypeOK, db
<1>5. c.method \in {"GET", "PUT", "DELETE"} /\ c.enabled \in BOOLEAN /\ Assign \in BOOLEAN
  BY CallsAssumption, ConfigAssumption DEF CallSpace
<1>6. Prepared(r, late[r])'
  BY <1>4 DEF Prepared, BucketSteps
<1>7. pc'[r] = "done" \/ pc'[r] = FirstCall(c)
  BY <1>1 DEF TypeOK
<1>8. Prepared(r, pc[r])'
  <2>1. CASE pc'[r] = "done"
    BY <2>1 DEF Prepared, BucketSteps
  <2>2. CASE pc'[r] = FirstCall(c)
    BY <1>4, <1>5, <2>2 DEF Prepared, BucketSteps, FirstCall
  <2> QED
    BY <1>7, <2>1, <2>2
<1> QED
  BY <1>2, <1>3, <1>4, <1>6, <1>8, AllRowsKept, OthersPrepared

LEMMA RoleStepPrepares ==
  ASSUME TypeOK, CallInv, LedgerInv, ProvisioningInv, NEW r \in Reqs, RoleStep(r)
  PROVE  ProvisioningInv'
<1>1. UNCHANGED <<call, rows, store>>
  BY DEF RoleStep, AcquireRoleID, LookupRoleID, CheckRole, AssignRole, db, origin
<1>2. Grows
  BY UnchangedGrows, AssignGrows, ZenonT(60)
  DEF RoleStep, AcquireRoleID, LookupRoleID, CheckRole, AssignRole
<1>3. Alone(r)
  BY DEF RoleStep, AcquireRoleID, LookupRoleID, CheckRole, AssignRole, Goto, Answer,
         Fail, GiveUp, Abandon, Alone, TypeOK, db, origin
<1>4. late[r] = "none"
  BY DEF RoleStep, AcquireRoleID, LookupRoleID, CheckRole, AssignRole, CallInv, Admitted
<1>5. late'[r] \in {"none", "assign"}
  BY <1>4 DEF RoleStep, AcquireRoleID, LookupRoleID, CheckRole, AssignRole, Goto,
     Fail, GiveUp, Abandon, TypeOK
<1>6. \/ pc'[r] \in RoleSteps \cup {"done"}
      \/ pc'[r] = "head" /\ call[r].project \in assigned'
  BY DEF RoleStep, AcquireRoleID, LookupRoleID, CheckRole, AssignRole, Goto, Answer,
     Fail, GiveUp, Abandon, TypeOK, RoleSteps
<1>7. Prepared(r, late[r])'
  BY <1>5 DEF Prepared, BucketSteps
<1>8. Prepared(r, pc[r])'
  BY <1>1, <1>6 DEF Prepared, BucketSteps, RoleSteps
<1> QED
  BY <1>1, <1>2, <1>3, <1>7, <1>8, AllRowsKept, OthersPrepared

LEMMA BucketStepPrepares ==
  ASSUME TypeOK, CallInv, LedgerInv, ProvisioningInv, NEW r \in Reqs, BucketStep(r)
  PROVE  ProvisioningInv'
<1> DEFINE c == Container(r)
<1>1. UNCHANGED <<call, rows, took, assigned>>
  BY DEF BucketStep, HeadContainer, CreateContainer, SetACL, PutProbe, DeleteProbe,
         db, origin
<1>2. /\ pc[r] \in BucketSteps /\ Fits(r, pc[r]) /\ late[r] = "none"
      /\ Prepared(r, pc[r]) /\ call[r].enabled
  BY DEF BucketStep, HeadContainer, CreateContainer, SetACL, PutProbe, DeleteProbe,
         BucketSteps, CallInv, Admitted, Running, ProvisioningInv, Fits
<1>3. c \in Containers
  BY <1>2, FittingCall
<1>4. Grows
  <2>1. \/ UNCHANGED store
        \/ CreateEffect(c) \/ ACLEffect(c, seen[r]) \/ ProbeEffect(c) \/ UnprobeEffect(c)
    BY DEF BucketStep, HeadContainer, CreateContainer, SetACL, PutProbe, DeleteProbe,
           Refuse
  <2> QED
    BY <1>1, <2>1, UnchangedGrows, EffectGrows
<1>5. \/ late'[r] = "none"
      \/ late'[r] = pc[r]
  BY <1>2 DEF BucketStep, HeadContainer, CreateContainer, SetACL, PutProbe, DeleteProbe,
     Refuse, Fail, GiveUp, Abandon, TypeOK
<1>6. Alone(r)
  <2>1. \A q \in Reqs \ {r} : /\ pc'[q] = pc[q] /\ late'[q] = late[q]
                              /\ resp'[q] = resp[q] /\ audit'[q] = audit[q]
    BY DEF BucketStep, HeadContainer, CreateContainer, SetACL, PutProbe, DeleteProbe,
           Refuse, Goto, Answer, Fail, GiveUp, Abandon, TypeOK
  <2> QED
    BY <1>1, <2>1 DEF Alone
<1>7. Prepared(r, late[r])'
  <2>1. ASSUME NEW step, step = pc[r] PROVE Prepared(r, step)'
    BY <1>1, <1>2, <1>4, <2>1, PreparedKept
  <2>2. CASE late'[r] = pc[r]
    BY <2>1, <2>2 DEF Prepared, Provisioned, Container
  <2>3. CASE late'[r] = "none"
    BY <2>3 DEF Prepared, BucketSteps
  <2> QED
    BY <1>5, <2>2, <2>3
<1>8. Assign => call[r].project \in assigned
  BY <1>2 DEF Prepared
<1>9. PICK d \in Containers : d = c
  BY <1>3
<1>10. d[1] = call[r].project /\ Container(r)' = d
  BY <1>1, <1>9 DEF Container
<1>11. \/ pc'[r] \in {"done", "create"}
       \/ pc'[r] = "acl" /\ owner'[d] # "none"
       \/ pc'[r] \in {"probe", "unprobe", "upsert"} /\ Provisioned(d)'
  <2>1. CASE HeadContainer(r)
    <3>1. UNCHANGED <<owner, read, write>>
      BY <2>1 DEF HeadContainer, store
    <3>2. \/ pc' = [pc EXCEPT ![r] = "done"]
          \/ pc' = [pc EXCEPT ![r] = "create"]
          \/ owner[d] # "none" /\ pc' = [pc EXCEPT ![r] = "acl"]
          \/ /\ owner[d] # "none" /\ pc' = [pc EXCEPT ![r] = "probe"]
             /\ {Own, Grant} \subseteq read[d] /\ Grant \in write[d]
      BY <2>1, <1>9 DEF HeadContainer, Refuse, Fail, Answer, Goto, Complete,
         WantRead, WantWrite
    <3> QED
      BY <1>1, <1>8, <1>10, <3>1, <3>2 DEF TypeOK, Provisioned
  <2>2. CASE CreateContainer(r)
    BY <1>9, <2>2 DEF CreateContainer, CreateEffect, Refuse, Goto, Answer, Fail,
       GiveUp, Abandon, TypeOK
  <2>3. CASE SetACL(r)
    <3>1. {Own, Grant} \subseteq WantRead(seen[r]) /\ Grant \in WantWrite(seen[r])
      BY DEF WantRead, WantWrite
    <3>2. owner[d] # "none"
      BY <1>2, <1>9, <2>3 DEF SetACL, Prepared, BucketSteps
    <3>3. CASE ACLEffect(d, seen[r]) /\ Goto(r, "probe")
      <4>1. pc'[r] = "probe" /\ owner' = owner
        BY <3>3 DEF ACLEffect, Goto, TypeOK
      <4>2. {Own, Grant} \subseteq read'[d] /\ Grant \in write'[d]
        BY <1>9, <3>1, <3>3 DEF ACLEffect, TypeOK
      <4> QED
        BY <1>1, <1>8, <1>10, <3>2, <4>1, <4>2 DEF Provisioned
    <3>4. CASE pc' = [pc EXCEPT ![r] = "done"]
      BY <3>4 DEF TypeOK
    <3> QED
      BY <1>9, <2>3, <3>3, <3>4 DEF SetACL, Refuse, Answer, Fail, GiveUp, Abandon
  <2>4. CASE PutProbe(r) \/ DeleteProbe(r)
    <3>1. Provisioned(d)
      BY <1>2, <1>9, <2>4 DEF PutProbe, DeleteProbe, Prepared, BucketSteps
    <3>2. Provisioned(d)'
      BY <1>4, <1>9, <3>1 DEF Grows
    <3>3. pc'[r] \in {"done", "unprobe", "upsert"}
      BY <2>4 DEF PutProbe, DeleteProbe, Refuse, Goto, Answer, Fail, GiveUp, Abandon, TypeOK
    <3> QED
      BY <3>2, <3>3
  <2> QED
    BY <2>1, <2>2, <2>3, <2>4 DEF BucketStep
<1>12. Prepared(r, pc[r])'
  <2>1. CASE pc'[r] \in {"done", "create"}
    BY <1>1, <1>8, <2>1 DEF Prepared, BucketSteps
  <2>2. CASE pc'[r] = "acl" /\ owner'[d] # "none"
    BY <1>1, <1>8, <1>10, <2>2 DEF Prepared, BucketSteps
  <2>3. CASE pc'[r] \in {"probe", "unprobe", "upsert"} /\ Provisioned(d)'
    BY <1>1, <1>8, <1>10, <2>3 DEF Prepared, Provisioned
  <2> QED
    BY <1>11, <2>1, <2>2, <2>3
<1> QED
  BY <1>1, <1>4, <1>6, <1>7, <1>12, AllRowsKept, OthersPrepared

LEMMA TableStepPrepares ==
  ASSUME TypeOK, CallInv, LedgerInv, ProvisioningInv, NEW r \in Reqs, TableStep(r)
  PROVE  ProvisioningInv'
<1>1. UNCHANGED <<call, store, assigned>>
  BY DEF TableStep, GetConfig, UpsertConfig, DeleteConfig, RecordChange, origin
<1>2. Grows
  BY <1>1, UnchangedGrows
<1>3. Alone(r)
  BY <1>1 DEF TableStep, GetConfig, UpsertConfig, DeleteConfig, RecordChange, Alone,
     Goto, Answer, GiveUp, Abandon, UpsertEffect, DeleteEffect, TypeOK, db
<1>4. /\ Running(r) /\ Fits(r, pc[r]) /\ late[r] = "none"
      /\ Prepared(r, pc[r])
  BY DEF TableStep, GetConfig, UpsertConfig, DeleteConfig, RecordChange,
         CallInv, Admitted, Running, ProvisioningInv
<1>5. pc'[r] \in {"saved", "removed", "done"}
  BY DEF TableStep, GetConfig, UpsertConfig, DeleteConfig, RecordChange, Goto, Answer,
         GiveUp, Abandon, TypeOK
<1>6. Prepared(r, pc[r])'
  BY <1>5 DEF Prepared, BucketSteps
<1>7. late'[r] \in {"none", "upsert", "delete"} /\ (late'[r] = "upsert" => pc[r] = "upsert")
  BY <1>4 DEF TableStep, GetConfig, UpsertConfig, DeleteConfig, RecordChange, Goto,
     Answer, GiveUp, Abandon, TypeOK
<1>8. Prepared(r, late[r])'
  <2>1. CASE late'[r] = "upsert"
    <3>1. ASSUME NEW step, step = pc[r] PROVE Prepared(r, step)'
      BY <1>1, <1>2, <1>4, <3>1, PreparedKept
    <3> QED
      BY <1>7, <2>1, <3>1 DEF Prepared, Provisioned, Container
  <2>2. CASE late'[r] # "upsert"
    BY <1>7, <2>2 DEF Prepared, BucketSteps
  <2> QED
    BY <2>1, <2>2
<1>9. RowsReady'
  <2>1. \/ UNCHANGED rows
        \/ pc[r] = "upsert" /\ UpsertEffect(r)
        \/ DeleteEffect(r)
    BY DEF TableStep, GetConfig, UpsertConfig, DeleteConfig, RecordChange, db
  <2> QED
    BY <1>1, <1>2, <1>4, <2>1, AllRowsKept, UpsertReady, DeleteReady
<1> QED
  BY <1>2, <1>3, <1>6, <1>8, <1>9, OthersPrepared

LEMMA LandPrepares ==
  ASSUME TypeOK, CallInv, LedgerInv, ProvisioningInv, NEW r \in Reqs, Land(r)
  PROVE  ProvisioningInv'
<1>1. /\ pc[r] = "done" /\ Fits(r, late[r]) /\ Prepared(r, late[r])
  BY DEF Land, LandBucketCall, CallInv, Admitted, ProvisioningInv
<1>2. Grows
  BY UnchangedGrows, AssignGrows, EffectGrows DEF Land, LandBucketCall
<1>3. Alone(r)
  BY DEF Land, Alone, UpsertEffect, DeleteEffect, TypeOK, db, origin
<1>4. pc'[r] = "done" /\ late'[r] = "none"
  BY <1>1 DEF Land, TypeOK
<1>5. Prepared(r, pc[r])' /\ Prepared(r, late[r])'
  BY <1>4 DEF Prepared, BucketSteps
<1>6. RowsReady'
  <2>1. \/ UNCHANGED rows
        \/ /\ late[r] = "upsert" /\ UpsertEffect(r)
           /\ UNCHANGED <<call, store, assigned>>
        \/ DeleteEffect(r)
    BY DEF Land, db, origin
  <2> QED
    BY <1>1, <1>2, <2>1, AllRowsKept, UpsertReady, DeleteReady
<1> QED
  BY <1>2, <1>3, <1>5, <1>6, OthersPrepared

LEMMA RestartPrepares ==
  ASSUME TypeOK, CallInv, LedgerInv, ProvisioningInv, NEW s \in Replicas, Restart(s)
  PROVE  ProvisioningInv'
<1>1. UNCHANGED <<call, rows, store, assigned>>
  BY DEF Restart, db, origin
<1>2. Grows /\ RowsReady'
  BY <1>1, UnchangedGrows, AllRowsKept
<1>3. ASSUME NEW r \in Reqs PROVE Prepared(r, pc[r])' /\ Prepared(r, late[r])'
  <2>1. /\ Prepared(r, pc[r]) /\ Prepared(r, late[r])
        /\ pc'[r] \in {pc[r], "done"} /\ late'[r] \in {pc[r], late[r]}
    BY DEF ProvisioningInv, Restart, TypeOK
  <2>2. ASSUME NEW step, Prepared(r, step) PROVE Prepared(r, step)'
    BY <1>1, <2>2 DEF Prepared, Provisioned, Container, store
  <2>3. Prepared(r, "done")
    BY DEF Prepared, BucketSteps
  <2>4. Prepared(r, pc[r])'
    BY <1>1, <2>1, <2>2, <2>3 DEF Prepared, Provisioned, Container
  <2>5. Prepared(r, late[r])'
    BY <1>1, <2>1, <2>2 DEF Prepared, Provisioned, Container
  <2> QED
    BY <2>4, <2>5
<1> QED
  BY <1>2, <1>3 DEF ProvisioningInv, RowsReady, EnabledMeansProvisioned

LEMMA DisturbPrepares ==
  ASSUME TypeOK, CallInv, LedgerInv, ProvisioningInv, Grows,
         UNCHANGED <<rows, pc, call, late>>
  PROVE  ProvisioningInv'
<1>1. RowsReady'
  BY AllRowsKept
<1>2. ASSUME NEW r \in Reqs PROVE Prepared(r, pc[r])' /\ Prepared(r, late[r])'
  <2>1. /\ Prepared(r, pc[r]) /\ Prepared(r, late[r])
        /\ pc[r] \in {"idle", "done"} \/ Fits(r, pc[r])
        /\ late[r] = "none" \/ Fits(r, late[r])
    BY DEF ProvisioningInv, CallInv, Admitted, Running
  <2>2. ASSUME NEW step, Prepared(r, step), step = "none" \/ Fits(r, step)
        PROVE  Prepared(r, step)'
    BY <2>2, PreparedKept
  <2>3. Prepared(r, late[r])'
    BY <2>1, <2>2 DEF Prepared, Provisioned, Container
  <2>4. CASE pc[r] \in {"idle", "done"}
    BY <2>3, <2>4 DEF Prepared, BucketSteps
  <2>5. CASE Fits(r, pc[r])
    <3>1. Prepared(r, pc[r])'
      BY <2>1, <2>2, <2>5 DEF Prepared, Provisioned, Container
    <3> QED
      BY <2>3, <3>1
  <2> QED
    BY <2>1, <2>4, <2>5
<1> QED
  BY <1>1, <1>2 DEF ProvisioningInv, RowsReady, EnabledMeansProvisioned

\* All steps together.
LEMMA ProvisioningInductive ==
  ASSUME TypeOK, CallInv, LedgerInv, ProvisioningInv, [Next]_vars,
         "undo" \notin Disturbances
  PROVE  ProvisioningInv'
<1>1. ASSUME NEW r \in Reqs, Receive(r) \/ RequestStep(r) \/ Land(r)
      PROVE  ProvisioningInv'
  BY <1>1, ReceivePrepares, RoleStepPrepares, BucketStepPrepares, TableStepPrepares,
     LandPrepares DEF RequestStep
<1>2. ASSUME NEW s \in Replicas, Restart(s) PROVE ProvisioningInv'
  BY <1>2, RestartPrepares
<1>3. CASE Disturb
  <2>1. UNCHANGED others
    BY <1>3 DEF Disturb, EditACL, RemoveGrant, DeleteContainer, Migrate, HandOver,
                RemoveRole
  <2> QED
    BY <1>3, <2>1, DisturbGrows, DisturbPrepares DEF others, db, origin
<1>4. CASE UNCHANGED rest
  BY <1>4, UnchangedGrows, DisturbPrepares DEF rest, db, origin
<1> QED
  BY <1>1, <1>2, <1>3, <1>4, StepCases

LEMMA ProvisioningInit == Init => ProvisioningInv
<1> SUFFICES ASSUME Init PROVE ProvisioningInv
  OBVIOUS
<1>1. \A r \in Reqs : pc[r] = "idle" /\ late[r] = "none"
  BY DEF Init
<1>2. \A p \in Projects : ~rows[p].enabled
  BY DEF Init, NoRow
<1> QED
  BY <1>1, <1>2 DEF ProvisioningInv, Prepared, BucketSteps, EnabledMeansProvisioned

\* The invariant of the specification.
Inv == TypeOK /\ CallInv /\ LedgerInv /\ ProvisioningInv

LEMMA InvInvariant ==
  ASSUME "undo" \notin Disturbances PROVE Spec => []Inv
<1>1. Init => Inv
  BY RecordsInit, ProvisioningInit DEF Inv
<1>2. Inv /\ [Next]_vars => Inv'
  BY RecordsInductive, ProvisioningInductive DEF Inv
<1> QED
  BY <1>1, <1>2, PTL DEF Spec

\* An enabled row names a container log-router can write to, as long as nobody
\* takes that away: whatever fails, times out, lands late or crashes
\* (PutDataplaneConfig, ensureDataplaneBucket, ensureDataplaneWriterRole).
THEOREM EnabledIsProvisioned ==
  ASSUME "undo" \notin Disturbances PROVE Spec => []EnabledMeansProvisioned
<1>1. Inv => EnabledMeansProvisioned
  BY DEF Inv, ProvisioningInv
<1> QED
  BY <1>1, InvInvariant, PTL

\* No container is created before the writer has its role in the project
\* (the order of the steps in PutDataplaneConfig).
THEOREM RoleBeforeContainer ==
  ASSUME "undo" \notin Disturbances PROVE Spec => CreatedWithRole
<1>1. ASSUME Inv, [Next]_vars, NEW c \in Containers, owner[c] = "none", owner'[c] # "none"
      PROVE  Assign => c[1] \in assigned
  <2>1. PICK r \in Reqs : \/ pc[r] = "create" /\ CreateEffect(Container(r))
                          \/ late[r] = "create" /\ CreateEffect(Container(r))
    <3>1. ~UNCHANGED store /\ owner # owner'
      BY <1>1 DEF store
    <3>2. ASSUME NEW r \in Reqs, Receive(r) \/ RequestStep(r) \/ Land(r)
          PROVE  \/ pc[r] = "create" /\ CreateEffect(Container(r))
                 \/ late[r] = "create" /\ CreateEffect(Container(r))
      BY <3>1, <3>2 DEF Receive, RequestStep, Land, RoleStep, AcquireRoleID,
         LookupRoleID, CheckRole, AssignRole, TableStep, GetConfig, UpsertConfig,
         DeleteConfig, RecordChange, BucketStep, HeadContainer, CreateContainer, SetACL,
         PutProbe, DeleteProbe, Refuse, LandBucketCall, ACLEffect, ProbeEffect,
         UnprobeEffect, store
    <3>3. ASSUME NEW s \in Replicas, Restart(s) PROVE FALSE
      BY <3>1, <3>3 DEF Restart
    <3>4. ASSUME Disturb PROVE FALSE
      BY <1>1, <3>1, <3>4 DEF Disturb, EditACL, RemoveGrant, DeleteContainer, Migrate,
         HandOver, RemoveRole, Inv, TypeOK, store
    <3> QED
      BY <1>1, <3>1, <3>2, <3>3, <3>4, StepCases DEF rest
  <2>2. Prepared(r, "create")
    BY <1>1, <2>1 DEF Inv, ProvisioningInv
  <2>3. Assign => call[r].project \in assigned
    BY <2>2 DEF Prepared, BucketSteps
  <2>4. c = Container(r)
    BY <1>1, <2>1 DEF CreateEffect, Inv, TypeOK
  <2> QED
    BY <2>3, <2>4 DEF Container
<1>2. Inv /\ [Next]_vars => [\A c \in Containers :
        owner[c] = "none" /\ owner'[c] # "none" => (Assign => c[1] \in assigned)]_vars
  BY <1>1
<1> QED
  BY <1>2, InvInvariant, PTL DEF Spec, CreatedWithRole
=============================================================================
