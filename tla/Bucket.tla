-------------------------------- MODULE Bucket --------------------------------
(***************************************************************************)
(* The second half of an enable: the container exists in the project's own *)
(* account, its ACLs let the log-router writer in, and the project has     *)
(* quota left.  The object store answers each call on the container's      *)
(* state at that moment; between two calls of one request other requests,  *)
(* the customer and the operator change it.                                *)
(***************************************************************************)
EXTENDS Dataplane

\* The object store endpoint of the caller's catalog, 0 when it is usable.
AccountRefusal(c) ==
  IF ~c.token.catalog \/ c.token.account = "other" THEN 502
  ELSE IF c.token.account = "missing" THEN 503 ELSE 0

\* The write list made anew.
FreshWrite(view) == {Grant}

\* The ACLs a request wants, from those it has seen.
WantRead(view) == view.read \cup {Own, Grant}
WantWrite(view) == view.write \cup {Grant}

\* The comparison forgetting the read list.
WriteComplete(view) == Grant \in view.write

\* sameACL on both lists: nothing is missing, so no POST is sent.
Complete(view) == WantRead(view) = view.read /\ WantWrite(view) = view.write

\* The status handed on as it came.
SameStatus(op, status, existed) == status

\* A failing object store status, as the caller sees it.
MapObjectStoreStatus(op, status, existed) ==
  IF status = 401 THEN 403
  ELSE IF status = 403
    THEN IF existed /\ op \in {"acl", "probe"} THEN 409 ELSE 403
  ELSE IF status \in {409, 413} \/ (status = 400 /\ op = "create") THEN 409
  ELSE 502

-----------------------------------------------------------------------------
\* What the object store refuses, by the state of the container.

HeadRefusal(c) ==
  IF owner[c] = "operator" /\ Own \notin read[c] THEN {403} ELSE {}

CreateRefusal(c) == IF owner[c] = "operator" THEN {409} ELSE {}

ChangeRefusal(c) ==
  CASE owner[c] = "none" -> {404}
    [] owner[c] = "operator" -> {403}
    [] owner[c] = "project" -> {}

UnprobeRefusal(c) ==
  IF owner[c] = "project" /\ c \notin probe THEN {404} ELSE ChangeRefusal(c)

\* Any other status the store may answer to an exposed request.
Faults == {400, 401, 403, 409, 413, 500}

Refusals(r, own) ==
  own \cup (IF call[r].token.mayStore THEN {} ELSE {401})
      \cup (IF r \in Exposed THEN Faults ELSE {})

Accepted(r, own) == own = {} /\ call[r].token.mayStore

\* What a call does once the store carries it out.
CreateEffect(c) ==
  /\ owner' = [owner EXCEPT ![c] = "project"]
  /\ UNCHANGED <<read, write, probe>>

ACLEffect(c, view) ==
  /\ read' = [read EXCEPT ![c] = WantRead(view)]
  /\ write' = [write EXCEPT ![c] = WantWrite(view)]
  /\ UNCHANGED <<owner, probe>>

ProbeEffect(c) == probe' = probe \cup {c} /\ UNCHANGED <<owner, read, write>>

ProbeStays(c) == UNCHANGED <<owner, read, write, probe>>
UnprobeEffect(c) == probe' = probe \ {c} /\ UNCHANGED <<owner, read, write>>

-----------------------------------------------------------------------------
\* The calls, in their order.

Refuse(r, op, status) ==
  /\ Fail(r, MapObjectStoreStatus(op, status, seen[r].existed))
  /\ UNCHANGED <<store, seen>>

HeadContainer(r) ==
  LET c == Container(r)
      view == [existed |-> owner[c] # "none", posted |-> FALSE,
               read |-> read[c], write |-> write[c]]
  IN
  /\ pc[r] = "head"
  /\ \/ /\ AccountRefusal(call[r]) # 0
        /\ Fail(r, AccountRefusal(call[r]))
        /\ UNCHANGED seen
     \/ /\ AccountRefusal(call[r]) = 0
        /\ Accepted(r, HeadRefusal(c))
        /\ seen' = [seen EXCEPT ![r] = view]
        /\ Goto(r, CASE ~view.existed -> "create"
                     [] view.existed /\ Complete(view) -> "probe"
                     [] view.existed /\ ~Complete(view) -> "acl")
        /\ UNCHANGED late
     \/ /\ AccountRefusal(call[r]) = 0
        /\ \E status \in Refusals(r, HeadRefusal(c)) : Refuse(r, "head", status)
  /\ UNCHANGED <<store, db, assigned, roleVars, origin>>

\* PUT of the container.  It succeeds, without touching the ACLs, when the
\* project already has it.
CreateContainer(r) ==
  LET c == Container(r) IN
  /\ pc[r] = "create"
  /\ \/ /\ Accepted(r, CreateRefusal(c))
        /\ CreateEffect(c)
        /\ Goto(r, "acl")
        /\ UNCHANGED <<seen, late>>
     \/ \E status \in Refusals(r, CreateRefusal(c)) : Refuse(r, "create", status)
     \/ GiveUp(r, 502) /\ UNCHANGED <<store, seen>>
  /\ UNCHANGED <<db, assigned, roleVars, origin>>

\* POST of both ACLs, computed from what HEAD has shown.
SetACL(r) ==
  LET c == Container(r) IN
  /\ pc[r] = "acl"
  /\ \/ /\ Accepted(r, ChangeRefusal(c))
        /\ ACLEffect(c, seen[r])
        /\ seen' = [seen EXCEPT ![r].posted = TRUE]
        /\ Goto(r, "probe")
        /\ UNCHANGED late
     \/ \E status \in Refusals(r, ChangeRefusal(c)) : Refuse(r, "acl", status)
     \/ GiveUp(r, 502) /\ UNCHANGED <<store, seen>>
  /\ UNCHANGED <<db, assigned, roleVars, origin>>

\* A denied probe taken for a failure in every case.
NeverAccepted(view, status) == FALSE

\* A probe denied on a container whose grants were complete: it is migrated
\* and waits for its handover.
NotHandedOver(view, status) == status = 403 /\ view.existed /\ ~view.posted

PutProbe(r) ==
  LET c == Container(r) IN
  /\ pc[r] = "probe"
  /\ \/ /\ Accepted(r, ChangeRefusal(c))
        /\ ProbeEffect(c)
        /\ Goto(r, "unprobe")
        /\ UNCHANGED <<seen, late>>
     \/ \E status \in Refusals(r, ChangeRefusal(c)) :
          \/ /\ NotHandedOver(seen[r], status)
             /\ Goto(r, "upsert")
             /\ UNCHANGED <<store, seen, late>>
          \/ /\ ~NotHandedOver(seen[r], status)
             /\ Refuse(r, "probe", status)
     \/ GiveUp(r, 502) /\ UNCHANGED <<store, seen>>
  /\ UNCHANGED <<db, assigned, roleVars, origin>>

\* Deleting a probe that is gone taken for a failure.
OnlyDeletedHere(status) == FALSE

\* DELETE of the probe answered with this status is good enough: a concurrent
\* enable may have deleted the object.
ProbeGone(status) == status = 404

DeleteProbe(r) ==
  LET c == Container(r) IN
  /\ pc[r] = "unprobe"
  /\ \/ /\ Accepted(r, UnprobeRefusal(c))
        /\ UnprobeEffect(c)
        /\ Goto(r, "upsert")
        /\ UNCHANGED <<seen, late>>
     \/ \E status \in Refusals(r, UnprobeRefusal(c)) :
          \/ /\ ProbeGone(status)
             /\ Goto(r, "upsert")
             /\ UNCHANGED <<store, seen, late>>
          \/ /\ ~ProbeGone(status)
             /\ Refuse(r, "probe", status)
     \/ GiveUp(r, 502) /\ UNCHANGED <<store, seen>>
  /\ UNCHANGED <<db, assigned, roleVars, origin>>

BucketStep(r) ==
  \/ HeadContainer(r)
  \/ CreateContainer(r)
  \/ SetACL(r)
  \/ PutProbe(r)
  \/ DeleteProbe(r)

\* A call that was given up is carried out after all; the refusals of the
\* moment apply to it as well.
LandBucketCall(r) ==
  LET c == Container(r) IN
  \/ late[r] = "create" /\ Accepted(r, CreateRefusal(c)) /\ CreateEffect(c)
  \/ late[r] = "acl" /\ Accepted(r, ChangeRefusal(c)) /\ ACLEffect(c, seen[r])
  \/ late[r] = "probe" /\ Accepted(r, ChangeRefusal(c)) /\ ProbeEffect(c)
  \/ late[r] = "unprobe" /\ Accepted(r, UnprobeRefusal(c)) /\ UnprobeEffect(c)
=============================================================================
