----------------------- MODULE DataplaneEnables_proofs ------------------------
(***************************************************************************)
(* Theorems about enables that meet no failure of their own: what others   *)
(* do at the same time, or have left behind, does not fail them, except by *)
(* the time a hanging lookup of the role ID takes.                         *)
(***************************************************************************)
EXTENDS DataplaneContainer_proofs

\* What a request at a call of an enable relies on.
LEMMA AtBucketStep ==
  ASSUME TypeOK, CallInv, ProvisioningInv, NEW r \in Reqs, pc[r] \in BucketSteps
  PROVE  /\ Container(r) \in Containers
         /\ pc[r] \in {"acl", "probe", "unprobe"} => owner[Container(r)] # "none"
         /\ late[r] = "none"
<1>1. Fits(r, pc[r]) /\ late[r] = "none"
  BY DEF CallInv, Admitted, Running, BucketSteps
<1>2. Prepared(r, pc[r])
  BY DEF ProvisioningInv
<1> QED
  BY <1>1, <1>2, FittingCall DEF Prepared

\* A container of the project's own remains one.
LEMMA OwnStays ==
  ASSUME TypeOK, CallInv, [Next]_vars, "undo" \notin Disturbances,
         NEW c \in Containers, owner[c] = "project"
  PROVE  owner'[c] = "project"
<1>1. CASE UNCHANGED store
  BY <1>1 DEF store
<1>2. ASSUME NEW r \in Reqs, NEW step, Carried(r, step) PROVE owner'[c] = "project"
  BY <1>2 DEF Carried, CreateEffect, ACLEffect, ProbeEffect, UnprobeEffect, TypeOK
<1>3. CASE Disturb
  BY <1>3 DEF Disturb, EditACL, RemoveGrant, DeleteContainer, Migrate, HandOver,
     RemoveRole, TypeOK, store
<1> QED
  BY <1>1, <1>2, <1>3, StoreSteps

\* Without faults of its own, a request with a token that the object store takes
\* is refused only for the state of the container.
LEMMA OnlyOwnRefusals ==
  ASSUME NEW r \in Reqs, r \notin Exposed, call[r].token.mayStore, NEW own
  PROVE  Refusals(r, own) = own /\ (Accepted(r, own) <=> own = {})
BY DEF Refusals, Accepted

\* Such a request is through with the probe when it leaves it.
LEMMA DeleteProbePasses ==
  ASSUME TypeOK, NEW r \in Reqs, r \notin Exposed, call[r].token.mayStore,
         owner[Container(r)] = "project", DeleteProbe(r)
  PROVE  pc'[r] = "upsert"
<1>1. UnprobeRefusal(Container(r)) \in {{}, {404}}
  BY DEF UnprobeRefusal, ChangeRefusal
<1>2. ~GiveUp(r, 502)
  BY DEF GiveUp, Abandon
<1>3. Goto(r, "upsert")
  BY <1>1, <1>2, OnlyOwnRefusals DEF DeleteProbe, ProbeGone
<1> QED
  BY <1>3 DEF Goto, TypeOK

-----------------------------------------------------------------------------
\* Containers whose ACLs were complete.

\* HEAD sends a request that finds complete ACLs straight to the probe.
LEMMA HeadAccepting ==
  ASSUME TypeOK, NEW r \in Reqs, Accepting(r), HeadContainer(r), call'[r] = call[r]
  PROVE  Accepting(r)'
<1> DEFINE c == Container(r)
           view == [existed |-> owner[c] # "none", posted |-> FALSE,
                    read |-> read[c], write |-> write[c]]
<1>1. pc[r] = "head" /\ ~seen[r].existed
  BY DEF HeadContainer, Accepting
<1>2. CASE seen' = seen /\ Answer(r, resp'[r], audit'[r])
  <2>1. pc'[r] = "done" /\ ~seen'[r].existed
    BY <1>1, <1>2 DEF Answer, TypeOK
  <2> QED
    BY <2>1 DEF Accepting, FoundComplete
<1>3. CASE /\ seen' = [seen EXCEPT ![r] = view] /\ call[r].token.mayStore
           /\ Goto(r, CASE ~view.existed -> "create"
                        [] view.existed /\ Complete(view) -> "probe"
                        [] view.existed /\ ~Complete(view) -> "acl")
  <2>1. seen'[r] = view
    BY <1>3 DEF TypeOK
  <2>2. /\ view.existed \in BOOLEAN /\ ~view.posted
        /\ Complete(view) \in BOOLEAN
    BY DEF Complete
  <2>3. CASE ~view.existed
    <3>1. pc'[r] = "create"
      BY <1>3, <2>2, <2>3 DEF Goto, TypeOK
    <3> QED
      BY <2>1, <2>3, <3>1 DEF Accepting, FoundComplete
  <2>4. CASE view.existed /\ Complete(view)
    <3>1. pc'[r] = "probe"
      BY <1>3, <2>2, <2>4 DEF Goto, TypeOK
    <3> QED
      BY <1>3, <2>1, <2>2, <3>1 DEF Accepting, FoundComplete
  <2>5. CASE view.existed /\ ~Complete(view)
    <3>1. pc'[r] = "acl"
      BY <1>3, <2>2, <2>5 DEF Goto, TypeOK
    <3>2. ~FoundComplete(r)'
      BY <2>1, <2>5 DEF FoundComplete, Complete, WantRead, WantWrite
    <3> QED
      BY <1>3, <2>1, <3>1, <3>2 DEF Accepting
  <2> QED
    BY <2>2, <2>3, <2>4, <2>5
<1>4. \/ seen' = seen /\ Answer(r, resp'[r], audit'[r])
      \/ /\ seen' = [seen EXCEPT ![r] = view] /\ call[r].token.mayStore
         /\ Goto(r, CASE ~view.existed -> "create"
                      [] view.existed /\ Complete(view) -> "probe"
                      [] view.existed /\ ~Complete(view) -> "acl")
  BY DEF HeadContainer, Refuse, Fail, Answer, Accepted, TypeOK
<1> QED
  BY <1>2, <1>3, <1>4

\* The calls that follow.  A denied probe is no failure when the ACLs were
\* complete, and an object that is gone is none either.
LEMMA BucketAccepting ==
  ASSUME TypeOK, CallInv, ProvisioningInv, NEW r \in Reqs, Accepting(r), call'[r] = call[r],
         CreateContainer(r) \/ SetACL(r) \/ PutProbe(r) \/ DeleteProbe(r)
  PROVE  Accepting(r)'
<1>1. CASE CreateContainer(r)
  <2>1. ~seen'[r].existed /\ pc'[r] # "unprobe"
    BY <1>1 DEF CreateContainer, Refuse, Goto, Fail, GiveUp, Abandon, Answer,
       Accepting, TypeOK
  <2> QED
    BY <2>1 DEF Accepting, FoundComplete
<1>2. CASE SetACL(r)
  <2>1. /\ seen'[r].existed = seen[r].existed
        /\ seen'[r].read = seen[r].read /\ seen'[r].write = seen[r].write
    BY <1>2 DEF SetACL, Refuse, TypeOK, Views
  <2>2. ~FoundComplete(r)'
    BY <1>2, <2>1 DEF SetACL, Accepting, FoundComplete, Complete, WantRead, WantWrite
  <2>3. pc'[r] \in {"probe", "done"}
    BY <1>2 DEF SetACL, Refuse, Goto, Fail, GiveUp, Abandon, Answer, TypeOK
  <2> QED
    BY <2>1, <2>2, <2>3 DEF Accepting
<1>3. CASE PutProbe(r)
  <2>1. seen'[r] = seen[r] /\ pc'[r] \in {"unprobe", "upsert", "done"}
    BY <1>3 DEF PutProbe, Refuse, Goto, Fail, GiveUp, Abandon, Answer, TypeOK
  <2>2. owner[Container(r)] \in {"project", "operator"}
    BY <1>3, AtBucketStep DEF PutProbe, BucketSteps, TypeOK
  <2>3. FoundComplete(r) /\ r \notin Exposed => pc'[r] # "done"
    <3> SUFFICES ASSUME FoundComplete(r), r \notin Exposed PROVE pc'[r] # "done"
      OBVIOUS
    <3>1. call[r].token.mayStore /\ seen[r].existed /\ ~seen[r].posted
      BY DEF Accepting, FoundComplete
    <3>2. ChangeRefusal(Container(r)) \in {{}, {403}}
      BY <2>2 DEF ChangeRefusal
    <3>3. Goto(r, "unprobe") \/ Goto(r, "upsert")
      BY <1>3, <3>1, <3>2, OnlyOwnRefusals DEF PutProbe, NotHandedOver, GiveUp, Abandon
    <3> QED
      BY <3>3 DEF Goto, TypeOK
  <2>4. pc'[r] = "unprobe" => owner'[Container(r)] = "project"
    <3> SUFFICES ASSUME pc'[r] = "unprobe" PROVE owner'[Container(r)] = "project"
      OBVIOUS
    <3>1. ChangeRefusal(Container(r)) = {} /\ UNCHANGED owner
      BY <1>3 DEF PutProbe, Accepted, ProbeEffect, Refuse, Goto, Fail, GiveUp, Abandon,
         Answer, TypeOK
    <3> QED
      BY <2>2, <3>1 DEF ChangeRefusal
  <2>5. Container(r)' = Container(r)
    BY DEF Container
  <2> QED
    BY <1>3, <2>1, <2>3, <2>4, <2>5 DEF Accepting, FoundComplete, Complete, WantRead,
       WantWrite, PutProbe
<1>4. CASE DeleteProbe(r)
  <2>1. seen'[r] = seen[r] /\ pc'[r] \in {"upsert", "done"}
    BY <1>4 DEF DeleteProbe, Refuse, Goto, Fail, GiveUp, Abandon, Answer, TypeOK
  <2>2. FoundComplete(r) /\ r \notin Exposed => pc'[r] # "done"
    BY <1>4, DeleteProbePasses DEF DeleteProbe, Accepting, FoundComplete
  <2> QED
    BY <1>4, <2>1, <2>2 DEF Accepting, FoundComplete, Complete, WantRead, WantWrite,
       DeleteProbe
<1> QED
  BY <1>1, <1>2, <1>3, <1>4

LEMMA AcceptInductive ==
  ASSUME TypeOK, CallInv, LedgerInv, ProvisioningInv, AcceptInv, [Next]_vars,
         "undo" \notin Disturbances
  PROVE  AcceptInv'
<1> SUFFICES ASSUME NEW r \in Reqs PROVE Accepting(r)'
  BY DEF AcceptInv
<1>1. Admitted(r) /\ Ledger(r) /\ Accepting(r)
  BY DEF CallInv, LedgerInv, AcceptInv
<1>2. pc[r] = "unprobe" => Container(r) \in Containers /\ owner'[Container(r)] = "project"
  BY <1>1, AtBucketStep, OwnStays DEF Accepting, BucketSteps
<1>3. pc[r] # "idle" => call'[r] = call[r] /\ Container(r)' = Container(r)
  BY CallsKept
<1>4. CASE seen'[r] = seen[r] /\ ~seen[r].existed /\ pc'[r] # "unprobe"
  BY <1>4 DEF Accepting, FoundComplete
<1>5. CASE Untouched(r)
  <2>1. pc[r] = "unprobe" => Container(r)' = Container(r)
    BY <1>3
  <2>2. FoundComplete(r)' <=> FoundComplete(r)
    BY <1>5 DEF Untouched, FoundComplete, Complete, WantRead, WantWrite
  <2> QED
    BY <1>1, <1>2, <1>5, <2>1, <2>2 DEF Untouched, Accepting
<1>6. CASE Lost(r)
  <2>1. pc'[r] = "done" /\ resp'[r] = 0 /\ seen'[r] = seen[r] /\ call'[r] = call[r]
    BY <1>1, <1>6 DEF Lost, Ledger, Running, origin
  <2>2. FoundComplete(r)' <=> FoundComplete(r)
    BY <2>1 DEF FoundComplete, Complete, WantRead, WantWrite
  <2> QED
    BY <1>1, <2>1, <2>2 DEF Accepting
<1>7. CASE Receive(r)
  <2>1. ~seen[r].existed /\ seen'[r] = seen[r]
    BY <1>1, <1>7 DEF Receive, Accepting
  <2>2. pc'[r] # "unprobe"
    <3>1. ASSUME NEW d \in Calls PROVE FirstCall(d) # "unprobe"
      <4>1. d.method \in {"GET", "PUT", "DELETE"} /\ d.enabled \in BOOLEAN
        BY CallsAssumption DEF CallSpace
      <4> QED
        BY <4>1 DEF FirstCall
    <3> QED
      BY <1>7, <3>1 DEF Receive, Goto, Answer, TypeOK
  <2> QED
    BY <1>4, <2>1, <2>2
<1>8. CASE RoleStep(r)
  <2>1. ~seen[r].existed /\ seen'[r] = seen[r] /\ pc'[r] # "unprobe"
    BY <1>1, <1>8 DEF RoleStep, AcquireRoleID, LookupRoleID, CheckRole, AssignRole,
       Goto, Answer, Fail, GiveUp, Abandon, Accepting, TypeOK
  <2> QED
    BY <1>4, <2>1
<1>9. CASE BucketStep(r)
  <2>1. call'[r] = call[r]
    BY <1>3, <1>9 DEF BucketStep, HeadContainer, CreateContainer, SetACL, PutProbe, DeleteProbe
  <2> QED
    BY <1>1, <1>9, <2>1, HeadAccepting, BucketAccepting DEF BucketStep
<1>10. CASE TableStep(r)
  <2>1. /\ pc[r] \in {"get", "upsert", "saved", "delete", "removed"}
        /\ pc'[r] \in {"saved", "removed", "done"} /\ seen'[r] = seen[r]
    BY <1>10 DEF TableStep, GetConfig, UpsertConfig, DeleteConfig, RecordChange, Goto,
       GiveUp, Abandon, Answer, TypeOK
  <2>2. call'[r] = call[r]
    BY <1>3, <2>1
  <2>3. FoundComplete(r)' <=> FoundComplete(r)
    BY <2>1 DEF FoundComplete, Complete, WantRead, WantWrite
  <2>4. CASE seen[r].existed
    <3>1. pc[r] \in {"upsert", "saved"}
      BY <1>1, <2>1, <2>4 DEF Accepting
    <3>2. \/ pc'[r] = "saved"
          \/ pc'[r] = "done" /\ (r \in Exposed \/ resp'[r] = 200)
      BY <1>10, <3>1 DEF TableStep, GetConfig, UpsertConfig, DeleteConfig, RecordChange,
         Goto, GiveUp, Abandon, Answer, TypeOK
    <3> QED
      BY <1>1, <2>1, <2>2, <2>3, <3>2 DEF Accepting
  <2>5. CASE ~seen[r].existed
    BY <1>4, <2>1, <2>5
  <2> QED
    BY <2>4, <2>5
<1>11. CASE Land(r)
  <2>1. /\ pc[r] = "done" /\ pc'[r] = "done" /\ seen'[r] = seen[r]
        /\ resp'[r] = resp[r] /\ call'[r] = call[r]
    BY <1>1, <1>11 DEF Land, LandBucketCall, Admitted, origin
  <2>2. FoundComplete(r)' <=> FoundComplete(r)
    BY <2>1 DEF FoundComplete, Complete, WantRead, WantWrite
  <2> QED
    BY <1>1, <2>1, <2>2 DEF Accepting
<1> QED
  BY <1>5, <1>6, <1>7, <1>8, <1>9, <1>10, <1>11, OneRequest DEF RequestStep

\* An enable that finds complete ACLs succeeds unless it meets a failure of its
\* own, also in a container that the operator still owns or hands over
\* meanwhile, and whatever other enables do to the probe (ensureDataplaneBucket).
THEOREM CompleteContainersAreAccepted ==
  ASSUME "undo" \notin Disturbances PROVE Spec => []CompleteContainerAccepted
<1>1. Init => AcceptInv
  <2> SUFFICES ASSUME Init, NEW r \in Reqs PROVE Accepting(r)
    BY DEF AcceptInv
  <2>1. pc[r] = "idle"
    BY DEF Init
  <2>2. seen = [q \in Reqs |->
                  [existed |-> FALSE, posted |-> FALSE, read |-> {}, write |-> {}]]
    BY DEF Init
  <2>3. ~seen[r].existed
    BY <2>2
  <2> QED
    BY <2>1, <2>3 DEF Accepting, FoundComplete
<1>2. Inv /\ AcceptInv /\ [Next]_vars => AcceptInv'
  BY AcceptInductive DEF Inv
<1>3. AcceptInv => CompleteContainerAccepted
  BY DEF AcceptInv, Accepting, FoundComplete, CompleteContainerAccepted
<1> QED
  BY <1>1, <1>2, <1>3, InvInvariant, PTL DEF Spec

-----------------------------------------------------------------------------
\* Enables that have all they need.

\* Nothing makes the operator the owner of a container.
LEMMA NoOperator ==
  ASSUME TypeOK, CallInv, [Next]_vars, NEW c \in Containers, owner[c] # "operator"
  PROVE  owner'[c] # "operator"
<1>1. CASE UNCHANGED store
  BY <1>1 DEF store
<1>2. ASSUME NEW r \in Reqs, NEW step, Carried(r, step) PROVE owner'[c] # "operator"
  BY <1>2 DEF Carried, CreateEffect, ACLEffect, ProbeEffect, UnprobeEffect, TypeOK
<1>3. CASE Disturb
  BY <1>3 DEF Disturb, EditACL, RemoveGrant, DeleteContainer, Migrate, HandOver,
     RemoveRole, TypeOK, store
<1> QED
  BY <1>1, <1>2, <1>3, StoreSteps

\* An able request is not refused before its first call.
LEMMA AbleIsReceived ==
  ASSUME TypeOK, NEW r \in Reqs, Receive(r), Able(call'[r])
  PROVE  pc'[r] # "done"
<1>1. PICK c \in Calls :
        /\ call' = [call EXCEPT ![r] = c]
        /\ \/ UnauditedRefusal(c) # 0
           \/ AuditedRefusal(c) # 0
           \/ Goto(r, FirstCall(c))
  BY DEF Receive
<1>2. Able(c)
  BY <1>1 DEF TypeOK
<1>3. Goto(r, FirstCall(c)) /\ c.method = "PUT" /\ c.enabled
  BY <1>1, <1>2 DEF Able
<1>4. FirstCall(c) # "done"
  BY <1>3, ConfigAssumption DEF FirstCall
<1> QED
  BY <1>3, <1>4 DEF Goto, TypeOK

\* Nor at Keystone, unless its time is up after the wait for the mutex: it may
\* assign the role, and there is a service user to look for it with.
LEMMA AblePassesRole ==
  ASSUME TypeOK, CallInv, NEW r \in Reqs, r \notin Exposed, Able(call[r]), RoleStep(r)
  PROVE  pc'[r] # "done" \/ (r \in hurried /\ resp'[r] \in {502, 503})
<1>1. Assign
  BY DEF RoleStep, AcquireRoleID, LookupRoleID, CheckRole, AssignRole, CallInv, Admitted,
         Running, Fits, RoleSteps
<1>2. HasService /\ IdentityMatches(call[r]) /\ call[r].token.mayAssign
  BY <1>1 DEF Able
<1>3. \/ \E step \in {"lookup", "check", "assign", "head"} : Goto(r, step)
      \/ r \in hurried /\ \E status \in {502, 503} : Answer(r, status, status)
  BY <1>2 DEF RoleStep, AcquireRoleID, LookupRoleID, CheckRole, AssignRole, MayTimeOut, Fail,
     Abandon
<1> QED
  BY <1>3 DEF Goto, Answer, TypeOK

\* Nor at the object store, where each call finds what the calls before it need.
LEMMA AblePassesBucket ==
  ASSUME TypeOK, CallInv, ProvisioningInv, NEW r \in Reqs, r \notin Exposed,
         Able(call[r]), owner[Container(r)] # "operator", BucketStep(r)
  PROVE  pc'[r] # "done"
<1> DEFINE c == Container(r)
<1>1. AccountRefusal(call[r]) = 0 /\ call[r].token.mayStore
  BY DEF Able
<1>2. pc[r] \in BucketSteps
  BY DEF BucketStep, HeadContainer, CreateContainer, SetACL, PutProbe, DeleteProbe,
         BucketSteps
<1>3. /\ HeadRefusal(c) = {} /\ CreateRefusal(c) = {}
      /\ pc[r] \in {"acl", "probe", "unprobe"} =>
           owner[c] = "project" /\ ChangeRefusal(c) = {}
  BY <1>2, AtBucketStep DEF HeadRefusal, CreateRefusal, ChangeRefusal, TypeOK
<1>4. ~GiveUp(r, 502)
  BY DEF GiveUp, Abandon
<1>5. CASE HeadContainer(r)
  <2>1. \E step \in {"create", "probe", "acl"} : Goto(r, step)
    <3> DEFINE view == [existed |-> owner[c] # "none", posted |-> FALSE,
                        read |-> read[c], write |-> write[c]]
    <3>1. view.existed \in BOOLEAN /\ Complete(view) \in BOOLEAN
      BY DEF Complete
    <3>2. Goto(r, CASE ~view.existed -> "create"
                    [] view.existed /\ Complete(view) -> "probe"
                    [] view.existed /\ ~Complete(view) -> "acl")
      BY <1>1, <1>3, <1>5, OnlyOwnRefusals DEF HeadContainer
    <3> QED
      BY <3>1, <3>2
  <2> QED
    BY <2>1 DEF Goto, TypeOK
<1>6. CASE CreateContainer(r)
  <2>1. Goto(r, "acl")
    BY <1>1, <1>3, <1>4, <1>6, OnlyOwnRefusals DEF CreateContainer
  <2> QED
    BY <2>1 DEF Goto, TypeOK
<1>7. CASE SetACL(r)
  <2>1. Goto(r, "probe")
    BY <1>1, <1>3, <1>4, <1>7, OnlyOwnRefusals DEF SetACL
  <2> QED
    BY <2>1 DEF Goto, TypeOK
<1>8. CASE PutProbe(r)
  <2>1. Goto(r, "unprobe")
    BY <1>1, <1>3, <1>4, <1>8, OnlyOwnRefusals DEF PutProbe
  <2> QED
    BY <2>1 DEF Goto, TypeOK
<1>9. CASE DeleteProbe(r)
  BY <1>1, <1>3, <1>9, DeleteProbePasses DEF DeleteProbe
<1> QED
  BY <1>5, <1>6, <1>7, <1>8, <1>9 DEF BucketStep

\* At the table it is told 200.
LEMMA AblePassesTable ==
  ASSUME TypeOK, CallInv, NEW r \in Reqs, r \notin Exposed, Able(call[r]), TableStep(r),
         pc'[r] = "done"
  PROVE  resp'[r] = 200
<1>1. pc[r] \in {"upsert", "saved"}
  BY DEF TableStep, GetConfig, UpsertConfig, DeleteConfig, RecordChange, CallInv,
         Admitted, Running, Fits, Able
<1>2. ~GiveUp(r, StorageError)
  BY DEF GiveUp, Abandon
<1> QED
  BY <1>1, <1>2 DEF TableStep, GetConfig, UpsertConfig, DeleteConfig, RecordChange, Goto,
     Answer, TypeOK

\* Time that was lost is not won back.
LEMMA HurriedStays ==
  ASSUME [Next]_vars PROVE hurried \subseteq hurried'
<1>1. ASSUME NEW r \in Reqs, Receive(r) \/ RequestStep(r) \/ Land(r) PROVE UNCHANGED hurried
  BY <1>1 DEF Receive, RequestStep, RoleStep, AcquireRoleID, LookupRoleID, CheckRole,
     AssignRole, BucketStep, HeadContainer, CreateContainer, SetACL, PutProbe, DeleteProbe,
     TableStep, GetConfig, UpsertConfig, DeleteConfig, RecordChange, Land, roleVars
<1>2. ASSUME NEW s \in Replicas, Restart(s) PROVE UNCHANGED hurried
  BY <1>2 DEF Restart
<1>3. CASE Disturb
  BY <1>3 DEF Disturb, EditACL, RemoveGrant, DeleteContainer, Migrate, HandOver, RemoveRole,
     others, roleVars
<1> QED
  BY <1>1, <1>2, <1>3, StepCases

LEMMA HealthyInductive ==
  ASSUME TypeOK, CallInv, LedgerInv, ProvisioningInv, HealthyInv, [Next]_vars
  PROVE  HealthyInv'
<1>1. \A c \in Containers : owner'[c] # "operator"
  BY NoOperator DEF HealthyInv
<1>2. ASSUME NEW r \in Reqs \ Exposed, pc'[r] = "done", Able(call'[r])
      PROVE  resp'[r] \in {0, 200} \/ (r \in hurried' /\ resp'[r] \in {502, 503})
  <2>0. r \in hurried => r \in hurried'
    BY HurriedStays
  <2>1. Admitted(r) /\ Ledger(r)
    BY DEF CallInv, LedgerInv
  <2>2. pc[r] = "done" /\ Able(call[r]) =>
          resp[r] \in {0, 200} \/ (r \in hurried /\ resp[r] \in {502, 503})
    BY DEF HealthyInv
  <2>3. pc[r] # "idle" => Able(call[r])
    BY <1>2, CallsKept
  <2>4. CASE Untouched(r)
    BY <1>2, <2>0, <2>2, <2>4 DEF Untouched
  <2>5. CASE Lost(r)
    BY <2>1, <2>5 DEF Lost, Ledger, Running
  <2>6. CASE Land(r)
    BY <2>0, <2>1, <2>2, <2>3, <2>6 DEF Land, LandBucketCall, Admitted
  <2>7. CASE Receive(r)
    BY <1>2, <2>7, AbleIsReceived
  <2>8. CASE RoleStep(r)
    <3>1. pc[r] # "idle"
      BY <2>8 DEF RoleStep, AcquireRoleID, LookupRoleID, CheckRole, AssignRole
    <3> QED
      BY <1>2, <2>0, <2>3, <2>8, <3>1, AblePassesRole
  <2>9. CASE BucketStep(r)
    <3>1. pc[r] \in BucketSteps /\ pc[r] # "idle"
      BY <2>9 DEF BucketStep, HeadContainer, CreateContainer, SetACL, PutProbe,
         DeleteProbe, BucketSteps
    <3>2. owner[Container(r)] # "operator"
      BY <3>1, AtBucketStep DEF HealthyInv
    <3> QED
      BY <1>2, <2>3, <2>9, <3>1, <3>2, AblePassesBucket
  <2>10. CASE TableStep(r)
    <3>1. pc[r] # "idle"
      BY <2>10 DEF TableStep, GetConfig, UpsertConfig, DeleteConfig, RecordChange
    <3> QED
      BY <1>2, <2>3, <2>10, <3>1, AblePassesTable
  <2> QED
    BY <2>4, <2>5, <2>6, <2>7, <2>8, <2>9, <2>10, OneRequest DEF RequestStep
<1> QED
  BY <1>1, <1>2 DEF HealthyInv

\* An enable that has all it needs and meets no failure of its own answers 200,
\* however many enables share its container and its probe object, wherever they
\* fail, crash or land late, unless it has waited for the mutex of its replica
\* behind another one's lookup that may hang: then its time may be up, and the
\* answer 502 or 503 (ensureDataplaneBucket, ensureDataplaneWriterRole, RoleID).
THEOREM HealthyEnablesSucceed ==
  ASSUME {"migrate", "undo"} \cap Disturbances = {}
  PROVE  Spec => []OnlyLookupsFailOthers
<1>1. "undo" \notin Disturbances /\ "migrate" \notin Disturbances
  OBVIOUS
<1>2. Init => HealthyInv
  BY <1>1 DEF Init, HealthyInv
<1>3. Inv /\ HealthyInv /\ [Next]_vars => HealthyInv'
  BY HealthyInductive DEF Inv
<1>4. HealthyInv => OnlyLookupsFailOthers
  BY DEF HealthyInv, OnlyLookupsFailOthers
<1> QED
  BY <1>1, <1>2, <1>3, <1>4, InvInvariant, PTL DEF Spec
=============================================================================
