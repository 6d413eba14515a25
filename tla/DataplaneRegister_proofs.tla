----------------------- MODULE DataplaneRegister_proofs -----------------------
(***************************************************************************)
(* The handlers implement ConfigRegister: every step of DataplaneConfig is *)
(* a step of the register or leaves the register as it is.                 *)
(***************************************************************************)
EXTENDS DataplaneConfig_proofs

Ready == {c \in Containers : Provisioned(c)}

LEMMA RegisterInit == Init => Register!Init
<1> SUFFICES ASSUME Init PROVE Register!Init
  OBVIOUS
<1>1. \A r \in Reqs : Phase(r) = "idle" /\ Wish(r) = "nothing" /\ took[r] = "no"
  BY DEF Init, Phase, Wish
<1>2. ASSUME NEW c \in Containers
      PROVE  c \in Projects \X {doc.bucket : doc \in Rows}
  <2>1. PICK p \in Projects, b \in Buckets : c = <<p, b>>
    BY <1>2 DEF Containers
  <2>2. [enabled |-> FALSE, bucket |-> b, by |-> NoReq] \in Rows
    BY DEF Rows
  <2>3. b \in {doc.bucket : doc \in Rows}
    BY <2>2
  <2> QED
    BY <2>1, <2>3
<1>3. rows = [p \in Projects |-> NoRow]
  BY DEF Init
<1>4. {c \in Containers : Provisioned(c)}
        \in SUBSET (Projects \X {doc.bucket : doc \in Rows})
  BY <1>2
<1>5. /\ [r \in Reqs |-> Phase(r)] = [r \in Reqs |-> "idle"]
      /\ [r \in Reqs |-> Wish(r)] = [r \in Reqs |-> "nothing"]
      /\ [r \in Reqs |-> took[r] # "no"] = [r \in Reqs |-> FALSE]
  BY <1>1
<1> QED
  BY <1>3, <1>4, <1>5 DEF Register!Init

-----------------------------------------------------------------------------
\* One lemma per action of the register: what a step has to do to be one.

\* The register sees nothing of a step but that containers became ready.
LEMMA ToPrepare ==
  ASSUME Grows, UNCHANGED rows,
         \A q \in Reqs : /\ Phase(q)' = Phase(q) /\ Wish(q)' = Wish(q)
                         /\ took'[q] = took[q]
  PROVE  Register!Next
<1>1. Ready \subseteq Ready'
  BY DEF Ready, Grows
<1>2. Register!Prepare
  BY <1>1 DEF Register!Prepare, Ready
<1> QED
  BY <1>2 DEF Register!Next

\* How the register sees the requests that a step leaves alone.
LEMMA OthersMapped ==
  ASSUME NEW r \in Reqs, Alone(r), NEW q \in Reqs, q # r
  PROVE  Phase(q)' = Phase(q) /\ Wish(q)' = Wish(q) /\ took'[q] = took[q]
BY DEF Alone, Phase, Wish, Row, Target

LEMMA ToOpen ==
  ASSUME NEW r \in Reqs, Alone(r), UNCHANGED <<rows, store, assigned>>,
         Phase(r) = "idle", Phase(r)' = "open", took'[r] = took[r],
         NEW p \in Projects, NEW doc \in Rows, Wish(r)' = [project |-> p, doc |-> doc]
  PROVE  Register!Next
<1>1. /\ [q \in Reqs |-> Phase(q)]' = [[q \in Reqs |-> Phase(q)] EXCEPT ![r] = "open"]
      /\ [q \in Reqs |-> Wish(q)]'
           = [[q \in Reqs |-> Wish(q)] EXCEPT ![r] = [project |-> p, doc |-> doc]]
      /\ [q \in Reqs |-> took[q] # "no"]' = [q \in Reqs |-> took[q] # "no"]
  BY OthersMapped
<1>2. {c \in Containers : Provisioned(c)}' = {c \in Containers : Provisioned(c)}
  BY DEF Provisioned, store
<1>3. Register!Open(r)
  BY <1>1, <1>2 DEF Register!Open
<1> QED
  BY <1>3 DEF Register!Next

LEMMA ToDecline ==
  ASSUME NEW r \in Reqs, Alone(r), UNCHANGED <<rows, store, assigned>>,
         Phase(r) \in {"idle", "open"}, Phase(r)' = "declined",
         took[r] = "no", took'[r] = "no"
  PROVE  Register!Next
<1>1. Wish(r)' = "nothing"
  BY DEF Wish
<1>2. Register!Decline(r)
  BY <1>1, OthersMapped DEF Register!Decline, Provisioned, store
<1> QED
  BY <1>2 DEF Register!Next

LEMMA ToConfirm ==
  ASSUME NEW r \in Reqs, Alone(r), UNCHANGED <<rows, store, assigned>>,
         Phase(r) = "open", Phase(r)' = "confirmed",
         took[r] # "no", took'[r] = took[r], Wish(r)' = Wish(r)
  PROVE  Register!Next
<1>1. Register!Confirm(r)
  BY OthersMapped DEF Register!Confirm, Provisioned, store
<1> QED
  BY <1>1 DEF Register!Next

LEMMA ToLose ==
  ASSUME NEW lost \in SUBSET Reqs, UNCHANGED <<rows, store, assigned>>,
         \A r \in Reqs : took'[r] = took[r] /\ Wish(r)' = Wish(r),
         \A r \in lost : Phase(r) = "open" /\ Phase(r)' = "unknown",
         \A r \in Reqs \ lost : Phase(r)' = Phase(r)
  PROVE  Register!Next
<1>1. Register!Lose(lost)
  BY DEF Register!Lose, Provisioned, store
<1> QED
  BY <1>1 DEF Register!Next

LEMMA ToApply ==
  ASSUME NEW r \in Reqs, Alone(r), UNCHANGED <<store, assigned>>,
         Phase(r) \in {"open", "unknown"}, Phase(r)' = Phase(r), Wish(r)' = Wish(r),
         took[r] = "no", took'[r] # "no",
         NEW p \in Projects, NEW doc \in Rows, Wish(r) = [project |-> p, doc |-> doc],
         doc.enabled => <<p, doc.bucket>> \in Ready,
         rows' = [rows EXCEPT ![p] = doc]
  PROVE  Register!Next
<1>1. /\ [q \in Reqs |-> Phase(q)]' = [q \in Reqs |-> Phase(q)]
      /\ [q \in Reqs |-> Wish(q)]' = [q \in Reqs |-> Wish(q)]
      /\ [q \in Reqs |-> took[q] # "no"]'
           = [[q \in Reqs |-> took[q] # "no"] EXCEPT ![r] = TRUE]
  BY OthersMapped
<1>2. {c \in Containers : Provisioned(c)}' = {c \in Containers : Provisioned(c)}
  BY DEF Provisioned, store
<1>3. /\ [q \in Reqs |-> Phase(q)][r] \in {"open", "unknown"}
      /\ ~[q \in Reqs |-> took[q] # "no"][r]
  OBVIOUS
<1>4. [q \in Reqs |-> Wish(q)][r] = [project |-> p, doc |-> doc]
  OBVIOUS
<1>5. /\ doc.enabled => <<p, doc.bucket>> \in {c \in Containers : Provisioned(c)}
      /\ [project |-> p, doc |-> doc].project = p
      /\ [project |-> p, doc |-> doc].doc = doc
  BY DEF Ready
<1>6. Register!Apply(r)
  BY <1>1, <1>2, <1>3, <1>4, <1>5 DEF Register!Apply
<1> QED
  BY <1>6 DEF Register!Next

-----------------------------------------------------------------------------
\* The steps of the handlers.

\* A step within a handler that does not touch the table.
LEMMA GotoMapped ==
  ASSUME NEW r \in Reqs, Alone(r), Grows, UNCHANGED <<rows, took, call>>,
         Running(r), pc'[r] \notin {"idle", "done"}
  PROVE  Register!Next
<1>1. Phase(r)' = Phase(r) /\ Wish(r)' = Wish(r) /\ took'[r] = took[r]
  BY DEF Phase, Wish, Running, Row, Target
<1>2. \A q \in Reqs : /\ Phase(q)' = Phase(q) /\ Wish(q)' = Wish(q)
                      /\ took'[q] = took[q]
  BY <1>1, OthersMapped
<1> QED
  BY <1>2, ToPrepare

\* A refusal.
LEMMA FailMapped ==
  ASSUME NEW r \in Reqs, Alone(r), UNCHANGED <<rows, took, store, assigned>>,
         Running(r), took[r] = "no",
         pc'[r] = "done", resp'[r] \notin {0, 200, 204, 500}
  PROVE  Register!Next
<1>1. Phase(r) = "open" /\ Phase(r)' = "declined"
  BY DEF Phase, Running
<1> QED
  BY <1>1, ToDecline

LEMMA ReceiveMapped ==
  ASSUME Inv, NEW r \in Reqs, Receive(r) PROVE Register!Next
<1>1. PICK c \in Calls :
        /\ call' = [call EXCEPT ![r] = c]
        /\ \/ /\ UnauditedRefusal(c) # 0
              /\ Answer(r, UnauditedRefusal(c), 0)
           \/ /\ UnauditedRefusal(c) = 0 /\ AuditedRefusal(c) # 0
              /\ Answer(r, AuditedRefusal(c), AuditedRefusal(c))
           \/ /\ UnauditedRefusal(c) = 0 /\ AuditedRefusal(c) = 0
              /\ Goto(r, FirstCall(c))
  BY DEF Receive
<1>2. /\ Phase(r) = "idle" /\ took[r] = "no" /\ call'[r] = c
      /\ UNCHANGED <<rows, took, store, assigned>>
  BY <1>1 DEF Receive, Phase, Inv, LedgerInv, Ledger, TypeOK, db
<1>3. Alone(r)
  BY <1>1 DEF Receive, Goto, Answer, Alone, Inv, TypeOK, db
<1>4. /\ UnauditedRefusal(c) \notin {200, 204, 500}
      /\ AuditedRefusal(c) \notin {200, 204, 500}
  BY DEF UnauditedRefusal, AuditedRefusal, EnableRefusal
<1>5. CASE \E status, event :
             Answer(r, status, event) /\ status \notin {0, 200, 204, 500}
  <2>1. Phase(r)' = "declined"
    BY <1>5 DEF Answer, Phase, Inv, TypeOK
  <2> QED
    BY <1>2, <1>3, <2>1, ToDecline
<1>6. CASE UnauditedRefusal(c) = 0 /\ AuditedRefusal(c) = 0 /\ Goto(r, FirstCall(c))
  <2>1. c.method \in {"GET", "PUT", "DELETE"} /\ c.enabled \in BOOLEAN
    BY CallsAssumption DEF CallSpace
  <2>2. pc'[r] \notin {"idle", "done"}
    BY <1>6, <2>1 DEF Goto, FirstCall, Inv, TypeOK
  <2>3. Phase(r)' = "open"
    BY <2>2 DEF Phase
  <2>4. PICK doc \in Rows : doc = IF c.method = "PUT" THEN Row(r)' ELSE NoRow
    <3>1. c.method = "PUT" => Target(c) \in Buckets \cup {NoBucket}
      BY <1>6, AcceptedCall
    <3>2. Row(r)' = [enabled |-> c.enabled, bucket |-> Target(c), by |-> r]
      BY <1>2 DEF Row
    <3>3. c.method = "PUT" => Row(r)' \in Rows
      BY <2>1, <3>1, <3>2 DEF Rows
    <3>4. NoRow \in Rows
      BY DEF NoRow, Rows
    <3> QED
      BY <3>3, <3>4
  <2>5. Wish(r)' = [project |-> c.project, doc |-> doc]
    BY <1>2, <2>3, <2>4 DEF Wish
  <2>6. c.project \in Projects
    BY <1>6, AcceptedCall
  <2> QED
    BY <1>2, <1>3, <2>3, <2>5, <2>6, ToOpen
<1> QED
  BY <1>1, <1>4, <1>5, <1>6

LEMMA RoleStepMapped ==
  ASSUME Inv, NEW r \in Reqs, RoleStep(r) PROVE Register!Next
<1>1. UNCHANGED <<rows, took, call, store>> /\ Running(r) /\ took[r] = "no"
  BY DEF RoleStep, AcquireRoleID, LookupRoleID, CheckRole, AssignRole, db, origin,
         Running, Inv, LedgerInv, Ledger
<1>2. Alone(r)
  BY <1>1 DEF RoleStep, AcquireRoleID, LookupRoleID, CheckRole, AssignRole, Goto, Answer,
     Fail, GiveUp, Abandon, Alone, Inv, TypeOK
<1>3. Grows
  BY UnchangedGrows, AssignGrows
  DEF RoleStep, AcquireRoleID, LookupRoleID, CheckRole, AssignRole
<1>4. \A status : MapAssignStatus(status) \notin {0, 200, 204, 500}
  BY DEF MapAssignStatus
<1>5. \/ pc'[r] \notin {"idle", "done"}
      \/ /\ UNCHANGED assigned
         /\ pc'[r] = "done" /\ resp'[r] \notin {0, 200, 204, 500}
  BY <1>4 DEF RoleStep, AcquireRoleID, LookupRoleID, CheckRole, AssignRole, Goto, Answer,
     Fail, GiveUp, Abandon, Inv, TypeOK
<1> QED
  BY <1>1, <1>2, <1>3, <1>5, GotoMapped, FailMapped

LEMMA BucketStepMapped ==
  ASSUME Inv, NEW r \in Reqs, BucketStep(r) PROVE Register!Next
<1>1. UNCHANGED <<rows, took, call, assigned>> /\ Running(r) /\ took[r] = "no"
  BY DEF BucketStep, HeadContainer, CreateContainer, SetACL, PutProbe, DeleteProbe,
         db, origin, Running, Inv, LedgerInv, Ledger
<1>2. Alone(r)
  <2>1. \A q \in Reqs \ {r} : /\ pc'[q] = pc[q] /\ late'[q] = late[q]
                              /\ resp'[q] = resp[q] /\ audit'[q] = audit[q]
    BY DEF BucketStep, HeadContainer, CreateContainer, SetACL, PutProbe, DeleteProbe,
           Refuse, Goto, Answer, Fail, GiveUp, Abandon, Inv, TypeOK
  <2> QED
    BY <1>1, <2>1 DEF Alone
<1>3. Grows
  <2>1. \/ UNCHANGED store
        \/ CreateEffect(Container(r)) \/ ACLEffect(Container(r), seen[r])
        \/ ProbeEffect(Container(r)) \/ UnprobeEffect(Container(r))
    BY DEF BucketStep, HeadContainer, CreateContainer, SetACL, PutProbe, DeleteProbe,
           Refuse
  <2> QED
    BY <1>1, <2>1, UnchangedGrows, EffectGrows DEF Inv
<1>4. /\ \A op, status, existed :
           MapObjectStoreStatus(op, status, existed) \notin {0, 200, 204, 500}
      /\ AccountRefusal(call[r]) \notin {200, 204, 500}
  BY DEF MapObjectStoreStatus, AccountRefusal
<1>5. \/ pc'[r] \notin {"idle", "done"}
      \/ /\ UNCHANGED store
         /\ pc'[r] = "done" /\ resp'[r] \notin {0, 200, 204, 500}
  <2>1. \/ \E step \in BucketSteps \cup {"upsert"} : Goto(r, step)
        \/ UNCHANGED store /\ \E status : Answer(r, status, status)
                                          /\ status \notin {0, 200, 204, 500}
    <3>1. CASE HeadContainer(r)
      BY <1>4, <3>1 DEF HeadContainer, Refuse, Fail, BucketSteps
    <3>2. CASE CreateContainer(r)
      BY <1>4, <3>2 DEF CreateContainer, Refuse, Fail, GiveUp, Abandon, BucketSteps
    <3>3. CASE SetACL(r)
      BY <1>4, <3>3 DEF SetACL, Refuse, Fail, GiveUp, Abandon, BucketSteps
    <3>4. CASE PutProbe(r)
      BY <1>4, <3>4 DEF PutProbe, Refuse, Fail, GiveUp, Abandon, BucketSteps
    <3>5. CASE DeleteProbe(r)
      BY <1>4, <3>5 DEF DeleteProbe, Refuse, Fail, GiveUp, Abandon, BucketSteps
    <3> QED
      BY <3>1, <3>2, <3>3, <3>4, <3>5 DEF BucketStep
  <2> QED
    BY <2>1 DEF Goto, Answer, BucketSteps, Inv, TypeOK
<1> QED
  BY <1>1, <1>2, <1>3, <1>5, GotoMapped, FailMapped

\* What a request wants while it is open or lost.
LEMMA WishOf ==
  ASSUME Inv, NEW r \in Reqs, Phase(r) \in {"open", "unknown"}, NEW step, Fits(r, step),
         step \in {"upsert", "delete"}
  PROVE  /\ call[r].project \in Projects
         /\ step = "upsert" => /\ Wish(r) = [project |-> call[r].project, doc |-> Row(r)]
                               /\ Row(r) \in Rows
         /\ step = "delete" => /\ Wish(r) = [project |-> call[r].project, doc |-> NoRow]
                               /\ NoRow \in Rows
<1>1. /\ call[r].project \in Projects
      /\ step \in {"upsert", "saved"} => Row(r) \in Rows
  BY FittingCall DEF Inv
<1>2. NoRow \in Rows
  BY DEF NoRow, Rows
<1> QED
  BY <1>1, <1>2 DEF Fits, Wish

\* The statement of a request is the step at which the register changes.
LEMMA UpsertMapped ==
  ASSUME Inv, NEW r \in Reqs, Alone(r), Fits(r, "upsert"), Prepared(r, "upsert"),
         UpsertEffect(r), UNCHANGED <<store, assigned, call>>, took[r] = "no",
         Phase(r) \in {"open", "unknown"}, Phase(r)' = Phase(r)
  PROVE  Register!Next
<1>1. /\ call[r].project \in Projects /\ Row(r) \in Rows
      /\ Wish(r) = [project |-> call[r].project, doc |-> Row(r)]
  BY WishOf
<1>2. took'[r] # "no" /\ rows' = [rows EXCEPT ![call[r].project] = Row(r)]
  BY DEF UpsertEffect, Inv, TypeOK
<1>3. Wish(r)' = Wish(r)
  BY DEF Wish, Row, Target
<1>4. Row(r).enabled => <<call[r].project, Row(r).bucket>> \in Ready
  <2>1. Row(r).enabled = call[r].enabled /\ Row(r).bucket = Target(call[r])
    BY DEF Row
  <2>2. Row(r).enabled => Row(r).bucket \in Buckets
    <3>1. call[r] \in Calls
      BY DEF Inv, TypeOK
    <3> QED
      BY <2>1, <3>1, AcceptedCall DEF Fits
  <2>3. call[r].enabled => Provisioned(Container(r))
    BY DEF Prepared
  <2> QED
    BY <1>1, <2>1, <2>2, <2>3 DEF Ready, Container, Containers
<1> QED
  BY <1>1, <1>2, <1>3, <1>4, ToApply

LEMMA DeleteMapped ==
  ASSUME Inv, NEW r \in Reqs, Alone(r), Fits(r, "delete"),
         DeleteEffect(r), UNCHANGED <<store, assigned, call>>, took[r] = "no",
         Phase(r) \in {"open", "unknown"}, Phase(r)' = Phase(r)
  PROVE  Register!Next
<1>1. /\ call[r].project \in Projects /\ NoRow \in Rows
      /\ Wish(r) = [project |-> call[r].project, doc |-> NoRow]
  BY WishOf
<1>2. took'[r] # "no" /\ rows' = [rows EXCEPT ![call[r].project] = NoRow]
  BY DEF DeleteEffect, Inv, TypeOK
<1>3. Wish(r)' = Wish(r)
  BY DEF Wish, Row, Target
<1>4. ~NoRow.enabled
  BY DEF NoRow
<1> QED
  BY <1>1, <1>2, <1>3, <1>4, ToApply

\* A request that ends without telling what has become of it.
LEMMA LostMapped ==
  ASSUME Inv, NEW r \in Reqs, Alone(r), UNCHANGED <<rows, took, call, store, assigned>>,
         Running(r), pc'[r] = "done", resp'[r] \in {0, 500}
  PROVE  Register!Next
<1>1. Phase(r) = "open" /\ Phase(r)' = "unknown"
  BY DEF Phase, Running
<1>2. Wish(r)' = Wish(r)
  BY <1>1 DEF Wish, Row, Target
<1>3. \A q \in Reqs \ {r} : /\ Phase(q)' = Phase(q) /\ Wish(q)' = Wish(q)
                            /\ took'[q] = took[q]
  BY OthersMapped
<1>4. /\ \A q \in Reqs : took'[q] = took[q] /\ Wish(q)' = Wish(q)
      /\ \A q \in {r} : Phase(q) = "open" /\ Phase(q)' = "unknown"
      /\ \A q \in Reqs \ {r} : Phase(q)' = Phase(q)
      /\ {r} \in SUBSET Reqs
  BY <1>1, <1>2, <1>3
<1> QED
  BY <1>4, ToLose

LEMMA TableStepMapped ==
  ASSUME Inv, NEW r \in Reqs, TableStep(r) PROVE Register!Next
<1>1. /\ UNCHANGED <<call, store, assigned>> /\ Running(r) /\ Phase(r) = "open"
      /\ Fits(r, pc[r]) /\ Prepared(r, pc[r])
  BY DEF TableStep, GetConfig, UpsertConfig, DeleteConfig, RecordChange, origin,
         Running, Phase, Inv, CallInv, Admitted, ProvisioningInv
<1>2. Alone(r)
  BY <1>1 DEF TableStep, GetConfig, UpsertConfig, DeleteConfig, RecordChange, Alone,
     Goto, Answer, GiveUp, Abandon, UpsertEffect, DeleteEffect, Inv, TypeOK, db
<1>3. CASE /\ UNCHANGED db
           /\ pc' = [pc EXCEPT ![r] = "done"] /\ resp' = [resp EXCEPT ![r] = 500]
  BY <1>1, <1>2, <1>3, LostMapped DEF Inv, TypeOK, db
<1>4. CASE pc[r] = "get" /\ Answer(r, 200, 0) /\ UNCHANGED db
  <2>1. call[r].method = "GET" /\ took[r] = "no"
    BY <1>1, <1>4 DEF Fits, Inv, LedgerInv, Ledger
  <2>2. Phase(r)' = "declined"
    BY <1>1, <1>4, <2>1 DEF Phase, Answer, Inv, TypeOK
  <2> QED
    BY <1>1, <1>2, <1>4, <2>1, <2>2, ToDecline DEF db
<1>5. CASE pc[r] = "upsert" /\ UpsertEffect(r) /\ Goto(r, "saved")
  <2>1. took[r] = "no" /\ Phase(r)' = Phase(r)
    BY <1>1, <1>5 DEF Goto, Phase, Inv, TypeOK, LedgerInv, Ledger
  <2> QED
    BY <1>1, <1>2, <1>5, <2>1, UpsertMapped
<1>6. CASE pc[r] = "delete" /\ DeleteEffect(r) /\ Goto(r, "removed")
  <2>1. took[r] = "no" /\ Phase(r)' = Phase(r)
    BY <1>1, <1>6 DEF Goto, Phase, Inv, TypeOK, LedgerInv, Ledger
  <2> QED
    BY <1>1, <1>2, <1>6, <2>1, DeleteMapped
<1>7. CASE RecordChange(r)
  <2>1. took[r] # "no" /\ call[r].method # "GET"
    BY <1>1, <1>7 DEF RecordChange, Fits, Inv, LedgerInv, Ledger
  <2>2. pc'[r] = "done" /\ resp'[r] \in {200, 204}
    BY <1>7 DEF RecordChange, Answer, Inv, TypeOK
  <2>3. Phase(r)' = "confirmed"
    BY <1>1, <2>1, <2>2 DEF Phase
  <2>4. Wish(r)' = Wish(r)
    BY <1>1, <2>3 DEF Wish, Row, Target
  <2> QED
    BY <1>1, <1>2, <1>7, <2>1, <2>3, <2>4, ToConfirm DEF RecordChange, db
<1> QED
  BY <1>3, <1>4, <1>5, <1>6, <1>7 DEF TableStep, GetConfig, UpsertConfig, DeleteConfig,
     GiveUp, Abandon, Answer, StorageError

LEMMA LandMapped ==
  ASSUME Inv, NEW r \in Reqs, Land(r) PROVE Register!Next
<1>1. /\ pc[r] = "done" /\ Fits(r, late[r]) /\ Prepared(r, late[r]) /\ took[r] = "no"
      /\ UNCHANGED <<call, pc, resp>>
  BY DEF Land, LandBucketCall, Inv, CallInv, Admitted, ProvisioningInv, LedgerInv, Ledger,
     origin
<1>2. Alone(r)
  BY DEF Land, Alone, UpsertEffect, DeleteEffect, Inv, TypeOK, db, origin
<1>3. Phase(r)' = Phase(r) /\ Wish(r)' = Wish(r)
  BY <1>1 DEF Phase, Wish, Row, Target
<1>4. CASE UNCHANGED db
  <2>1. Grows
    BY UnchangedGrows, AssignGrows, EffectGrows DEF Land, LandBucketCall, Inv
  <2>2. \A q \in Reqs : /\ Phase(q)' = Phase(q) /\ Wish(q)' = Wish(q)
                        /\ took'[q] = took[q]
    BY <1>2, <1>3, <1>4, OthersMapped DEF db
  <2> QED
    BY <1>4, <2>1, <2>2, ToPrepare DEF db
<1>5. late[r] \in {"upsert", "delete"} => Phase(r) = "unknown"
  BY <1>1 DEF Phase, Inv, LedgerInv, Ledger
<1>6. CASE late[r] = "upsert" /\ UpsertEffect(r) /\ UNCHANGED <<store, assigned>>
  BY <1>1, <1>2, <1>3, <1>5, <1>6, UpsertMapped
<1>7. CASE late[r] = "delete" /\ DeleteEffect(r) /\ UNCHANGED <<store, assigned>>
  BY <1>1, <1>2, <1>3, <1>5, <1>7, DeleteMapped
<1> QED
  BY <1>4, <1>6, <1>7 DEF Land, db

LEMMA RestartMapped ==
  ASSUME Inv, NEW s \in Replicas, Restart(s) PROVE Register!Next
<1> DEFINE lost == {r \in Reqs : Running(r) /\ server[r] = s}
<1>1. UNCHANGED <<rows, took, call, resp, store, assigned>>
  BY DEF Restart, db, origin
<1>2. \A r \in lost : pc'[r] = "done" /\ resp'[r] = 0 /\ Running(r)
  BY <1>1 DEF Restart, Inv, LedgerInv, Ledger, Running
<1>3. \A r \in Reqs \ lost : pc'[r] = pc[r]
  BY DEF Restart
<1>4. \A r \in lost : Phase(r) = "open" /\ Phase(r)' = "unknown"
  BY <1>2 DEF Phase, Running
<1>5. \A r \in Reqs \ lost : Phase(r)' = Phase(r)
  BY <1>1, <1>3 DEF Phase
<1>6. \A r \in Reqs : took'[r] = took[r] /\ Wish(r)' = Wish(r)
  BY <1>1, <1>4, <1>5 DEF Wish, Row, Target
<1> QED
  BY <1>1, <1>4, <1>5, <1>6, ToLose

LEMMA DisturbMapped ==
  ASSUME Grows, UNCHANGED <<rows, took, pc, call, resp>> PROVE Register!Next
<1>1. \A q \in Reqs : /\ Phase(q)' = Phase(q) /\ Wish(q)' = Wish(q)
                      /\ took'[q] = took[q]
  BY DEF Phase, Wish, Row, Target
<1> QED
  BY <1>1, ToPrepare

\* The handlers implement the register, as long as nobody undoes what enables
\* have put in place: whatever fails, lands late or crashes, a request changes
\* the table at most once and is told the truth about it, and an enabled row is
\* never visible to log-router before its container is ready.
THEOREM RegisterImplemented ==
  ASSUME "undo" \notin Disturbances PROVE Spec => ImplementsRegister
<1>1. ASSUME Inv, [Next]_vars PROVE [Register!Next]_(Register!vars)
  <2>1. ASSUME NEW r \in Reqs, Receive(r) \/ RequestStep(r) \/ Land(r)
        PROVE  Register!Next
    BY <1>1, <2>1, ReceiveMapped, RoleStepMapped, BucketStepMapped, TableStepMapped,
       LandMapped DEF RequestStep
  <2>2. ASSUME NEW s \in Replicas, Restart(s) PROVE Register!Next
    BY <1>1, <2>2, RestartMapped
  <2>3. CASE Disturb
    <3>1. UNCHANGED others
      BY <2>3 DEF Disturb, EditACL, RemoveGrant, DeleteContainer, Migrate, HandOver,
                  RemoveRole
    <3> QED
      BY <1>1, <2>3, <3>1, DisturbGrows, DisturbMapped DEF others, db, origin, Inv
  <2>4. CASE UNCHANGED rest
    BY <2>4, UnchangedGrows, DisturbMapped DEF rest, db, origin
  <2> QED
    BY <1>1, <2>1, <2>2, <2>3, <2>4, StepCases
<1> QED
  BY <1>1, RegisterInit, InvInvariant, PTL DEF Spec, ImplementsRegister, Register!Spec
=============================================================================
