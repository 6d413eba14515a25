---------------------- MODULE DataplaneContainer_proofs -----------------------
(***************************************************************************)
(* Theorems about what requests that run side by side, late calls and      *)
(* restarts leave in a container: its probe object and its ACLs.           *)
(***************************************************************************)
EXTENDS DataplaneConfig_proofs

\* A step that says nothing of request r.
Untouched(r) ==
  /\ pc'[r] = pc[r] /\ call'[r] = call[r] /\ late'[r] = late[r]
  /\ took'[r] = took[r] /\ resp'[r] = resp[r] /\ seen'[r] = seen[r]

\* The replica of request r dies.
Lost(r) ==
  /\ Running(r) /\ pc'[r] = "done"
  /\ late'[r] = IF pc[r] \in Mutating THEN pc[r] ELSE late[r]
  /\ UNCHANGED <<db, store, assigned, origin, seen, resp>>

\* What a step may do to one request.
LEMMA OneRequest ==
  ASSUME TypeOK, [Next]_vars, NEW r \in Reqs
  PROVE  \/ Untouched(r)
         \/ Receive(r) \/ RequestStep(r) \/ Land(r)
         \/ Lost(r)
<1>1. ASSUME NEW q \in Reqs \ {r}, Receive(q) PROVE Untouched(r)
  BY <1>1 DEF Receive, Goto, Answer, Untouched, TypeOK, db
<1>2. ASSUME NEW q \in Reqs \ {r}, RoleStep(q) PROVE Untouched(r)
  BY <1>2 DEF RoleStep, AcquireRoleID, LookupRoleID, CheckRole, AssignRole, Goto, Answer,
     Fail, GiveUp, Abandon, Untouched, TypeOK, db, origin
<1>3. ASSUME NEW q \in Reqs \ {r}, BucketStep(q) PROVE Untouched(r)
  BY <1>3 DEF BucketStep, HeadContainer, CreateContainer, SetACL, PutProbe, DeleteProbe,
     Refuse, Goto, Answer, Fail, GiveUp, Abandon, Untouched, TypeOK, db, origin
<1>4. ASSUME NEW q \in Reqs \ {r}, TableStep(q) PROVE Untouched(r)
  BY <1>4 DEF TableStep, GetConfig, UpsertConfig, DeleteConfig, RecordChange, UpsertEffect,
     DeleteEffect, Goto, Answer, GiveUp, Abandon, Untouched, TypeOK, db, origin
<1>5. ASSUME NEW q \in Reqs \ {r}, Land(q) PROVE Untouched(r)
  BY <1>5 DEF Land, UpsertEffect, DeleteEffect, Untouched, TypeOK, db, origin
<1>6. ASSUME NEW s \in Replicas, Restart(s) PROVE Untouched(r) \/ Lost(r)
  BY <1>6 DEF Restart, Untouched, Lost, TypeOK, db, origin
<1>7. ASSUME Disturb PROVE Untouched(r)
  BY <1>7 DEF Disturb, EditACL, RemoveGrant, DeleteContainer, Migrate, HandOver,
     RemoveRole, others, Untouched, db, origin
<1>8. CASE UNCHANGED rest
  BY <1>8 DEF rest, Untouched, db, origin
<1> QED
  BY <1>1, <1>2, <1>3, <1>4, <1>5, <1>6, <1>7, <1>8, StepCases DEF RequestStep

\* A call of request r is carried out at the object store, in time or late.
Carried(r, step) ==
  LET c == Container(r) IN
  \/ step = "create" /\ owner[c] # "operator" /\ CreateEffect(c)
  \/ step = "acl" /\ owner[c] = "project" /\ ACLEffect(c, seen[r])
  \/ step = "probe" /\ owner[c] = "project" /\ ProbeEffect(c)
  \/ step = "unprobe" /\ owner[c] = "project" /\ UnprobeEffect(c)

\* What a request's own call does to the containers.
LEMMA OwnCall ==
  ASSUME TypeOK, CallInv, NEW r \in Reqs, Receive(r) \/ RequestStep(r) \/ Land(r)
  PROVE  \/ UNCHANGED store
         \/ \E step \in BucketSteps : /\ step = pc[r] \/ step = late[r]
                                      /\ Fits(r, step) /\ Carried(r, step)
<1>1. CASE Receive(r) \/ RoleStep(r) \/ TableStep(r)
  BY <1>1 DEF Receive, RoleStep, AcquireRoleID, LookupRoleID, CheckRole, AssignRole,
     TableStep, GetConfig, UpsertConfig, DeleteConfig, RecordChange
<1>2. ASSUME NEW step \in BucketSteps, step = pc[r] \/ step = late[r]
      PROVE  Fits(r, step) /\ Container(r) \in Containers
  <2>1. Fits(r, step)
    BY <1>2 DEF CallInv, Admitted, Running, BucketSteps
  <2> QED
    BY <2>1, FittingCall
<1>3. ASSUME NEW c \in Containers
      PROVE  /\ CreateRefusal(c) = {} => owner[c] # "operator"
             /\ ChangeRefusal(c) = {} => owner[c] = "project"
             /\ UnprobeRefusal(c) = {} => owner[c] = "project"
  BY ZenonT(60) DEF CreateRefusal, ChangeRefusal, UnprobeRefusal, TypeOK
<1>4. CASE BucketStep(r)
  <2>1. pc[r] \in BucketSteps
    BY <1>4 DEF BucketStep, HeadContainer, CreateContainer, SetACL, PutProbe, DeleteProbe,
       BucketSteps
  <2>2. UNCHANGED store \/ Carried(r, pc[r])
    BY <1>2, <1>3, <1>4, <2>1 DEF BucketStep, HeadContainer, CreateContainer, SetACL, PutProbe,
       DeleteProbe, Refuse, Accepted, Carried
  <2> QED
    BY <1>2, <2>1, <2>2
<1>5. CASE Land(r)
  <2>1. UNCHANGED store \/ LandBucketCall(r)
    BY <1>5 DEF Land
  <2>2. LandBucketCall(r) => late[r] \in BucketSteps
    BY DEF LandBucketCall, BucketSteps
  <2>3. LandBucketCall(r) => Carried(r, late[r])
    BY <1>2, <1>3, <2>2 DEF LandBucketCall, Accepted, Carried
  <2> QED
    BY <1>2, <2>1, <2>2, <2>3
<1> QED
  BY <1>1, <1>4, <1>5 DEF RequestStep

\* What a step may do to the containers.
LEMMA StoreSteps ==
  ASSUME TypeOK, CallInv, [Next]_vars
  PROVE  \/ UNCHANGED store
         \/ \E r \in Reqs : \E step \in BucketSteps :
              /\ Receive(r) \/ RequestStep(r) \/ Land(r)
              /\ step = pc[r] \/ step = late[r]
              /\ Fits(r, step) /\ Carried(r, step)
         \/ Disturb
<1>1. ASSUME NEW s \in Replicas, Restart(s) PROVE UNCHANGED store
  BY <1>1 DEF Restart
<1>2. CASE UNCHANGED rest
  BY <1>2 DEF rest
<1> QED
  BY <1>1, <1>2, OwnCall, StepCases DEF Disturb

-----------------------------------------------------------------------------
\* The probe object.

\* A request whose call to the object store is late was told 502 or nothing.
LEMMA LateCallsUnanswered ==
  ASSUME TypeOK, CallInv, LedgerInv, ProbeInv, [Next]_vars, NEW r \in Reqs,
         late'[r] \in BucketSteps
  PROVE  resp'[r] \in {0, 502}
<1>1. Admitted(r) /\ Ledger(r) /\ (late[r] \in BucketSteps => resp[r] \in {0, 502})
  BY DEF CallInv, LedgerInv, ProbeInv
<1>2. CASE Untouched(r)
  BY <1>1, <1>2 DEF Untouched
<1>3. CASE Receive(r)
  BY <1>1, <1>3 DEF Receive, Admitted, BucketSteps
<1>4. CASE RoleStep(r)
  <2>1. late'[r] \in {"none", "assign"}
    BY <1>1, <1>4 DEF RoleStep, AcquireRoleID, LookupRoleID, CheckRole, AssignRole,
       Fail, GiveUp, Abandon, Admitted, TypeOK
  <2> QED
    BY <2>1 DEF BucketSteps
<1>5. CASE BucketStep(r)
  <2>1. late[r] = "none"
    BY <1>1, <1>5 DEF BucketStep, HeadContainer, CreateContainer, SetACL, PutProbe,
       DeleteProbe, Admitted
  <2>2. UNCHANGED late \/ GiveUp(r, 502)
    BY <1>5 DEF BucketStep, HeadContainer, CreateContainer, SetACL, PutProbe, DeleteProbe,
       Refuse, Fail
  <2> QED
    BY <2>1, <2>2 DEF GiveUp, Abandon, Answer, BucketSteps, TypeOK
<1>6. CASE TableStep(r)
  <2>1. late'[r] \in {"none", "upsert", "delete"}
    BY <1>1, <1>6 DEF TableStep, GetConfig, UpsertConfig, DeleteConfig, RecordChange,
       GiveUp, Abandon, Admitted, TypeOK
  <2> QED
    BY <2>1 DEF BucketSteps
<1>7. CASE Land(r)
  BY <1>7 DEF Land, BucketSteps, TypeOK
<1>8. CASE Lost(r)
  BY <1>1, <1>8 DEF Lost, Running, Ledger
<1> QED
  BY <1>2, <1>3, <1>4, <1>5, <1>6, <1>7, <1>8, OneRequest DEF RequestStep

\* A request accounts for a probe until somebody has deleted it: it moves on
\* only when the object is gone.
LEMMA ProbeStaysAccounted ==
  ASSUME TypeOK, CallInv, LedgerInv, ProbeInv, [Next]_vars, NEW r \in Reqs,
         NEW c \in probe, c \in probe', LeftProbe(r, c)
  PROVE  LeftProbe(r, c)'
<1>1. /\ Admitted(r) /\ Ledger(r) /\ owner[c] = "project"
      /\ Container(r) = c /\ took[r] = "no" /\ pc[r] \in {"unprobe", "done"}
  BY DEF CallInv, LedgerInv, ProbeInv, LeftProbe
<1>2. Container(r)' = c
  BY <1>1, CallsKept
<1>3. CASE Untouched(r)
  BY <1>2, <1>3 DEF Untouched, LeftProbe
<1>4. CASE DeleteProbe(r)
  <2>1. /\ pc[r] = "unprobe" /\ UNCHANGED took /\ late[r] = "none"
    BY <1>1, <1>4 DEF DeleteProbe, Admitted, db
  <2>2. UnprobeRefusal(c) = {} /\ 404 \notin Refusals(r, UnprobeRefusal(c))
    BY <1>1 DEF UnprobeRefusal, ChangeRefusal, Refusals, Faults
  <2>3. CASE UnprobeEffect(c)
    BY <2>3 DEF UnprobeEffect
  <2>4. CASE \E status \in Refusals(r, UnprobeRefusal(c)) : Refuse(r, "probe", status)
    <3>1. \A status : MapObjectStoreStatus("probe", status, seen[r].existed) \in {403, 409, 502}
      BY DEF MapObjectStoreStatus
    <3>2. pc'[r] = "done" /\ resp'[r] \in {403, 409, 502} /\ late' = late
      BY <2>4, <3>1 DEF Refuse, Fail, Answer, TypeOK
    <3> QED
      BY <1>1, <1>2, <2>1, <3>2 DEF LeftProbe
  <2>5. CASE GiveUp(r, 502)
    <3>1. pc'[r] = "done" /\ resp'[r] = 502 /\ late'[r] = "unprobe"
      BY <2>1, <2>5 DEF GiveUp, Abandon, Answer, TypeOK
    <3> QED
      BY <1>1, <1>2, <2>1, <3>1 DEF LeftProbe
  <2> QED
    BY <1>1, <1>4, <2>2, <2>3, <2>4, <2>5 DEF DeleteProbe, ProbeGone
<1>5. CASE Land(r)
  <2>1. late[r] = "unprobe" /\ pc[r] = "done"
    BY <1>1, <1>5 DEF Land, LandBucketCall, LeftProbe, Admitted
  <2> QED
    BY <1>1, <1>5, <2>1 DEF Land, LandBucketCall, UnprobeEffect
<1>6. CASE Lost(r)
  <2>1. pc[r] = "unprobe" /\ resp[r] = 0
    BY <1>1, <1>6 DEF Lost, Running, Ledger
  <2> QED
    BY <1>1, <1>2, <1>6, <2>1 DEF Lost, LeftProbe, Mutating, db
<1>7. ~Receive(r) /\ ~RoleStep(r) /\ ~TableStep(r) /\ (BucketStep(r) => DeleteProbe(r))
  BY <1>1 DEF Receive, RoleStep, AcquireRoleID, LookupRoleID, CheckRole, AssignRole,
     BucketStep, HeadContainer, CreateContainer, SetACL, PutProbe,
     TableStep, GetConfig, UpsertConfig, DeleteConfig, RecordChange
<1> QED
  BY <1>3, <1>4, <1>5, <1>6, <1>7, OneRequest DEF RequestStep

\* A container with a probe stays the project's own: it can neither be deleted
\* nor come back to the operator.
LEMMA ProbedStaysOwn ==
  ASSUME TypeOK, CallInv, ProbeInv, [Next]_vars, NEW c \in probe
  PROVE  owner'[c] = "project"
<1>1. owner[c] = "project" /\ c \in Containers
  BY DEF ProbeInv, TypeOK
<1>2. CASE UNCHANGED store
  BY <1>1, <1>2 DEF store
<1>3. ASSUME NEW r \in Reqs, NEW step, Carried(r, step) PROVE owner'[c] = "project"
  BY <1>1, <1>3 DEF Carried, CreateEffect, ACLEffect, ProbeEffect, UnprobeEffect, TypeOK
<1>4. CASE Disturb
  BY <1>1, <1>4 DEF Disturb, EditACL, RemoveGrant, DeleteContainer, Migrate, HandOver,
     RemoveRole, TypeOK, store
<1> QED
  BY <1>2, <1>3, <1>4, StoreSteps

\* Whoever puts a new probe there accounts for it.
LEMMA NewProbe ==
  ASSUME TypeOK, CallInv, LedgerInv, ProbeInv, [Next]_vars,
         NEW c \in probe', c \notin probe
  PROVE  owner'[c] = "project" /\ \E r \in Reqs : LeftProbe(r, c)'
<1>1. ~UNCHANGED probe
  OBVIOUS
<1>2. ~Disturb
  BY <1>1 DEF Disturb, EditACL, RemoveGrant, DeleteContainer, Migrate, HandOver,
     RemoveRole, store
<1>3. PICK r \in Reqs, step \in BucketSteps :
        /\ Receive(r) \/ RequestStep(r) \/ Land(r)
        /\ step = pc[r] \/ step = late[r]
        /\ Fits(r, step) /\ Carried(r, step)
  BY <1>1, <1>2, StoreSteps DEF store
<1>4. /\ step = "probe" /\ c = Container(r) /\ owner[c] = "project"
      /\ UNCHANGED owner
  BY <1>1, <1>3 DEF Carried, CreateEffect, ACLEffect, ProbeEffect, UnprobeEffect
<1>5. Admitted(r) /\ Ledger(r) /\ (late[r] \in BucketSteps => resp[r] \in {0, 502})
  BY DEF CallInv, LedgerInv, ProbeInv
<1>6. pc[r] # "idle"
  BY <1>3, <1>4, <1>5 DEF Admitted
<1>7. Container(r)' = c
  BY <1>4, <1>6, CallsKept
<1>8. LeftProbe(r, c)'
  <2>1. CASE pc[r] = "probe"
    <3>1. PutProbe(r)
      BY <1>3, <1>5, <2>1 DEF Receive, RequestStep, RoleStep, AcquireRoleID, LookupRoleID,
         CheckRole, AssignRole, BucketStep, HeadContainer, CreateContainer, SetACL,
         DeleteProbe, TableStep, GetConfig, UpsertConfig, DeleteConfig, RecordChange,
         Land, LandBucketCall, Admitted
    <3>2. pc'[r] = "unprobe" /\ UNCHANGED took
      BY <1>1, <3>1 DEF PutProbe, Refuse, Goto, TypeOK, store, db
    <3> QED
      BY <1>5, <1>7, <2>1, <3>2 DEF LeftProbe, Ledger
  <2>2. CASE late[r] = "probe"
    <3>1. pc[r] = "done" /\ took[r] = "no" /\ resp[r] \in {0, 502}
      BY <1>5, <2>2 DEF Admitted, Ledger, BucketSteps
    <3>2. Land(r)
      BY <1>3, <3>1 DEF Receive, RequestStep, RoleStep, AcquireRoleID, LookupRoleID,
         CheckRole, AssignRole, BucketStep, HeadContainer, CreateContainer, SetACL,
         PutProbe, DeleteProbe, TableStep, GetConfig, UpsertConfig, DeleteConfig, RecordChange
    <3>3. /\ pc'[r] = "done" /\ resp'[r] = resp[r] /\ took'[r] = "no"
          /\ late'[r] = "none"
      BY <2>2, <3>1, <3>2 DEF Land, TypeOK, db
    <3> QED
      BY <1>7, <3>1, <3>3 DEF LeftProbe
  <2> QED
    BY <1>3, <1>4, <2>1, <2>2
<1> QED
  BY <1>4, <1>8

LEMMA ProbeInductive ==
  ASSUME TypeOK, CallInv, LedgerInv, ProbeInv, [Next]_vars
  PROVE  ProbeInv'
<1>1. ASSUME NEW c \in probe', c \in probe
      PROVE  owner'[c] = "project" /\ \E r \in Reqs : LeftProbe(r, c)'
  <2>1. PICK r \in Reqs : LeftProbe(r, c)
    BY <1>1 DEF ProbeInv
  <2>2. LeftProbe(r, c)'
    BY <1>1, <2>1, ProbeStaysAccounted
  <2> QED
    BY <1>1, <2>2, ProbedStaysOwn
<1>2. ASSUME NEW c \in probe', c \notin probe
      PROVE  owner'[c] = "project" /\ \E r \in Reqs : LeftProbe(r, c)'
  BY <1>2, NewProbe
<1> QED
  BY <1>1, <1>2, LateCallsUnanswered DEF ProbeInv

\* Whatever fails, crashes, lands late or is deleted by somebody else, a probe
\* object in a container has a reason: an enable that is about to delete it, or
\* one that did not come to its end (ensureDataplaneBucket).
THEOREM ProbesHaveAReason == Spec => []ProbeAccountedFor
<1> DEFINE I == TypeOK /\ CallInv /\ LedgerInv /\ ProbeInv
<1>1. Init => I
  BY RecordsInit DEF ProbeInv, Init, BucketSteps
<1>2. I /\ [Next]_vars => I'
  BY RecordsInductive, ProbeInductive
<1>3. I => ProbeAccountedFor
  BY DEF ProbeInv, LeftProbe, ProbeAccountedFor
<1> QED
  BY <1>1, <1>2, <1>3, PTL DEF Spec

-----------------------------------------------------------------------------
\* The ACLs.  POST replaces both lists with what HEAD has shown an arbitrarily
\* long time before; ViewInv says why nothing is lost by it all the same.

NobodyEdits == {"edit", "undo"} \cap Disturbances = {}

\* A POST writes the entries its request has seen, and the grants.
LEMMA PostedLists ==
  ASSUME TypeOK, CallInv, ViewInv, NobodyEdits, [Next]_vars, NEW c \in Containers
  PROVE  \/ read'[c] = read[c] /\ write'[c] = write[c]
         \/ read'[c] = read[c] \cup {Own, Grant} /\ write'[c] = write[c] \cup {Grant}
         \/ \E r \in Reqs : /\ c = Container(r) /\ ViewHolds(r)
                            /\ read'[c] = WantRead(seen[r])
                            /\ write'[c] = WantWrite(seen[r])
<1>1. CASE UNCHANGED store
  BY <1>1 DEF store
<1>2. ASSUME NEW r \in Reqs, NEW step \in BucketSteps, step = pc[r] \/ step = late[r],
             Carried(r, step)
      PROVE  \/ read'[c] = read[c] /\ write'[c] = write[c]
             \/ /\ c = Container(r) /\ ViewHolds(r)
                /\ read'[c] = WantRead(seen[r]) /\ write'[c] = WantWrite(seen[r])
  <2>1. CASE step = "acl"
    <3>1. ViewHolds(r)
      BY <1>2, <2>1 DEF ViewInv, WillPost
    <3> QED
      BY <1>2, <2>1, <3>1 DEF Carried, ACLEffect, TypeOK
  <2>2. CASE step # "acl"
    BY <1>2, <2>2 DEF Carried, CreateEffect, ProbeEffect, UnprobeEffect
  <2> QED
    BY <2>1, <2>2
<1>3. CASE Disturb
  BY <1>3 DEF Disturb, EditACL, RemoveGrant, DeleteContainer, Migrate, HandOver,
     RemoveRole, NobodyEdits, TypeOK, store
<1> QED
  BY <1>1, <1>2, <1>3, StoreSteps

\* No entry goes.
LEMMA EntriesStay ==
  ASSUME TypeOK, CallInv, ViewInv, NobodyEdits, [Next]_vars, NEW c \in Containers
  PROVE  read[c] \subseteq read'[c] /\ write[c] \subseteq write'[c]
BY PostedLists DEF ViewHolds

\* Two requests that are to post have the same in mind, so neither of them
\* brings in an entry that the other one would take away.
LEMMA ViewKept ==
  ASSUME TypeOK, CallInv, ViewInv, NobodyEdits, [Next]_vars,
         NEW r \in Reqs, WillPost(r), seen'[r].read = seen[r].read,
         seen'[r].write = seen[r].write
  PROVE  ViewHolds(r)'
<1> DEFINE c == Container(r)
<1>1. ViewHolds(r) /\ pc[r] # "idle"
  BY DEF ViewInv, WillPost, CallInv, Admitted
<1>2. c \in Containers
  BY FittingCall DEF WillPost, CallInv, Admitted, Running, BucketSteps
<1>3. Container(r)' = c
  BY <1>1, CallsKept
<1>4. PICK d \in Containers : d = c
  BY <1>2
<1>5. read[d] \subseteq read'[d] /\ write[d] \subseteq write'[d]
  BY EntriesStay
<1>6. read'[d] \subseteq WantRead(seen[r]) /\ write'[d] \subseteq WantWrite(seen[r])
  <2>1. read[d] \subseteq WantRead(seen[r]) /\ write[d] \subseteq WantWrite(seen[r])
    BY <1>1, <1>4 DEF ViewHolds
  <2>2. ASSUME NEW q \in Reqs, d = Container(q), ViewHolds(q)
        PROVE  /\ WantRead(seen[q]) \subseteq WantRead(seen[r])
               /\ WantWrite(seen[q]) \subseteq WantWrite(seen[r])
    BY <2>1, <2>2 DEF ViewHolds, WantRead, WantWrite
  <2>3. {Own, Grant} \subseteq WantRead(seen[r]) /\ Grant \in WantWrite(seen[r])
    BY DEF WantRead, WantWrite
  <2> QED
    BY <2>1, <2>2, <2>3, PostedLists
<1>7. WantRead(seen[r])' = WantRead(seen[r]) /\ WantWrite(seen[r])' = WantWrite(seen[r])
  BY DEF WantRead, WantWrite
<1>8. /\ seen[r].read \subseteq read[d] /\ seen[r].write \subseteq write[d]
  BY <1>1, <1>4 DEF ViewHolds
<1> QED
  BY <1>3, <1>4, <1>5, <1>6, <1>7, <1>8 DEF ViewHolds

LEMMA ViewInductive ==
  ASSUME TypeOK, CallInv, ViewInv, NobodyEdits, [Next]_vars
  PROVE  ViewInv'
<1> SUFFICES ASSUME NEW r \in Reqs, WillPost(r)' PROVE ViewHolds(r)'
  BY DEF ViewInv
<1>1. Admitted(r)
  BY DEF CallInv
<1>2. CASE Untouched(r)
  <2>1. WillPost(r) /\ seen'[r] = seen[r]
    BY <1>2 DEF Untouched, WillPost
  <2> QED
    BY <2>1, ViewKept
<1>3. CASE Lost(r)
  <2>1. WillPost(r) /\ seen'[r] = seen[r]
    BY <1>1, <1>3 DEF Lost, WillPost, Admitted, Mutating
  <2> QED
    BY <2>1, ViewKept
<1>4. CASE HeadContainer(r)
  <2>1. late'[r] = "none" /\ UNCHANGED <<read, write>> /\ Container(r)' = Container(r)
    BY <1>1, <1>4, CallsKept DEF HeadContainer, Refuse, Fail, Admitted, store
  <2>2. pc'[r] \in {"create", "acl"}
    BY <2>1 DEF WillPost
  <2>3. seen'[r].read = read[Container(r)] /\ seen'[r].write = write[Container(r)]
    BY <1>4, <2>2 DEF HeadContainer, Refuse, Fail, Answer, TypeOK
  <2> QED
    BY <2>1, <2>3 DEF ViewHolds, WantRead, WantWrite
<1>5. CASE CreateContainer(r)
  <2>1. WillPost(r) /\ seen'[r] = seen[r]
    BY <1>5 DEF CreateContainer, Refuse, WillPost
  <2> QED
    BY <2>1, ViewKept
<1>6. CASE SetACL(r)
  <2>1. /\ WillPost(r) /\ seen'[r].read = seen[r].read /\ seen'[r].write = seen[r].write
    BY <1>6 DEF SetACL, Refuse, WillPost, TypeOK, Views
  <2> QED
    BY <2>1, ViewKept
<1>7. ~PutProbe(r) /\ ~DeleteProbe(r)
  BY <1>1 DEF PutProbe, DeleteProbe, Refuse, Goto, Answer, Fail, GiveUp, Abandon, WillPost,
     Admitted, TypeOK
<1>8. ~RoleStep(r)
  BY <1>1 DEF RoleStep, AcquireRoleID, LookupRoleID, CheckRole, AssignRole, Goto, Answer,
     Fail, GiveUp, Abandon, WillPost, Admitted, TypeOK
<1>9. ~TableStep(r)
  BY <1>1 DEF TableStep, GetConfig, UpsertConfig, DeleteConfig, RecordChange, Goto,
     Answer, GiveUp, Abandon, WillPost, Admitted, TypeOK
<1>10. ~Land(r)
  BY <1>1 DEF Land, LandBucketCall, WillPost, Admitted, TypeOK
<1>11. ~Receive(r)
  <2>1. ASSUME NEW d \in Calls PROVE FirstCall(d) \notin {"create", "acl"}
    <3>1. d.method \in {"GET", "PUT", "DELETE"} /\ d.enabled \in BOOLEAN
      BY CallsAssumption DEF CallSpace
    <3> QED
      BY <3>1 DEF FirstCall
  <2> QED
    BY <1>1, <2>1 DEF Receive, Goto, Answer, WillPost, Admitted, TypeOK
<1> QED
  BY <1>2, <1>3, <1>4, <1>5, <1>6, <1>7, <1>8, <1>9, <1>10, <1>11, OneRequest
  DEF RequestStep, BucketStep

\* No step takes an entry out of an ACL, as long as the customer does not edit
\* them: enables that overtake each other, land late or meet the operator's
\* migration leave each other's entries in place (ensureDataplaneBucket,
\* mergeACL).
THEOREM EntriesAreKept ==
  ASSUME {"edit", "undo"} \cap Disturbances = {} PROVE Spec => KeepsEntries
<1> DEFINE I == TypeOK /\ CallInv /\ LedgerInv /\ ViewInv
<1>1. NobodyEdits
  BY DEF NobodyEdits
<1>2. Init => I
  BY RecordsInit DEF ViewInv, WillPost, Init
<1>3. I /\ [Next]_vars => I'
  BY <1>1, RecordsInductive, ViewInductive
<1>4. I /\ [Next]_vars => [\A c \in Containers : owner[c] # "none" =>
        read[c] \subseteq read'[c] /\ write[c] \subseteq write'[c]]_vars
  BY <1>1, EntriesStay
<1> QED
  BY <1>2, <1>3, <1>4, PTL DEF Spec, KeepsEntries
=============================================================================
