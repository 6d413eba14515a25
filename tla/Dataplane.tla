------------------------------ MODULE Dataplane ------------------------------
(***************************************************************************)
(* The state the dataplane-config handlers of Hermez work on, and the      *)
(* operators their steps share.  A request is handled by one goroutine of  *)
(* one replica; every call it makes to Keystone, to the object store or to *)
(* Postgres is a step of its own, and everything between two such calls is *)
(* local and happens together with the call before it.                     *)
(*                                                                         *)
(* Modules WriterRole, Bucket and DataplaneConfig add the steps.           *)
(***************************************************************************)
EXTENDS Naturals

CONSTANTS
  Reqs,             \* the requests; each one arrives at most once
  Replicas,         \* the Hermez processes behind the load balancer
  Projects,         \* Keystone projects
  Buckets,          \* bucket names that pass the name check
  DefaultBucket,    \* the name used when the client gives none
  Others,           \* ACL entries that are the customer's own
  Calls,            \* what the requests may ask
  Assign,           \* hermes.dataplane_assign_writer_role
  RoleIDConfigured, \* hermes.dataplane_writer_role_id is set
  HasService,       \* the keystone driver is on, so there is a service client
  WriterKnown,      \* a writer user ID is configured or read from the token
  Exposed,          \* the requests whose remote calls may fail or time out
  Disturbances      \* what else happens: "crash", "edit", "undo", "migrate"

NoReq == "nobody"
BadProject == "a project ID the path pattern refuses"
NoScope == "a domain-scoped token"
NoBucket == ""
BadBucket == "a bucket name the pattern refuses"

\* The ACL entries that matter: "<project_id>:*" and "*:<writer user ID>".
Own == "project:*"
Grant == "*:writer"
Entries == {Own, Grant} \cup Others

Containers == Projects \X Buckets

Tokens ==
  [valid     : BOOLEAN,                     \* Keystone accepts it
   manage    : BOOLEAN,                     \* policy dataplane_config:manage
   viewer    : BOOLEAN,                     \* policy cluster_viewer
   user      : BOOLEAN,                     \* it carries a user_id
   scope     : Projects \cup {NoScope},     \* its project_id
   catalog   : BOOLEAN,                     \* it has a service catalog
   identity  : {"same", "other"},           \* catalog's Keystone vs Hermez' own
   account   : {"own", "missing", "other"}, \* catalog's object store account
   mayAssign : BOOLEAN,                     \* Keystone lets it assign roles
   mayStore  : BOOLEAN]                     \* the object store accepts it

CallSpace ==
  [method  : {"GET", "PUT", "DELETE"},
   project : Projects \cup {BadProject},
   token   : Tokens,
   form    : {"object", "otherType", "malformed"},
   enabled : BOOLEAN,
   bucket  : Buckets \cup {NoBucket, BadBucket}]

ASSUME CallsAssumption == Calls # {} /\ Calls \subseteq CallSpace

ASSUME NamesAssumption ==
  /\ NoReq \notin Reqs
  /\ BadProject \notin Projects /\ NoScope \notin Projects
  /\ DefaultBucket \in Buckets
  /\ NoBucket \notin Buckets /\ BadBucket \notin Buckets

ASSUME ConfigAssumption ==
  /\ {Assign, RoleIDConfigured, HasService, WriterKnown} \subseteq BOOLEAN
  /\ Exposed \subseteq Reqs
  /\ Disturbances \subseteq {"crash", "edit", "undo", "migrate"}

-----------------------------------------------------------------------------

VARIABLES
  rows,      \* table dataplane_config: the row of each project
  took,      \* what each request's statement did to it: "no", "changed", "noop"
  owner,     \* of each container: "none" (absent), "project" or "operator"
  read,      \* X-Container-Read of each container, as a set of entries
  write,     \* X-Container-Write
  probe,     \* the containers that hold the object .hermes-enable-probe
  assigned,  \* the projects in which the writer user has the writer role
  roleID,    \* per replica: the role ID is known (dataplaneWriterRole.roleID)
  mu,        \* per replica: who holds dataplaneWriterRole.mu
  hurried,   \* the requests that have waited for mu behind a lookup that may hang
  pc,        \* the next remote call of each request
  call,      \* what each request asks, with the token it came with
  server,    \* the replica each one is sent to
  seen,      \* existed, posted, currentRead and currentWrite of each request
  resp,      \* the answer, 0 while there is none
  audit,     \* the reason code of its CADF event, 0 for no event
  late       \* the remote call that a request gave up, which may still land

store   == <<owner, read, write, probe>>
db      == <<rows, took>>
roleVars == <<roleID, mu, hurried>>
origin  == <<call, server>>
vars == <<db, store, assigned, roleVars, pc, origin, seen, resp, audit, late>>

Steps ==
  {"idle", "role", "lookup", "check", "assign", "head", "create", "acl",
   "probe", "unprobe", "upsert", "saved", "get", "delete", "removed", "done"}

\* The calls that change something at the service they go to.
Mutating == {"assign", "create", "acl", "probe", "unprobe", "upsert", "delete"}

Statuses == {0, 200, 204, 400, 401, 403, 409, 415, 500, 502, 503}

\* A missing row reads as the default config: disabled, no bucket.
NoRow == [enabled |-> FALSE, bucket |-> NoBucket, by |-> NoReq]

\* by stands for updated_at and updated_by: whose PUT wrote the row.
Rows == [enabled : BOOLEAN,
         bucket  : Buckets \cup {NoBucket},
         by      : Reqs \cup {NoReq}]

Views == [existed : BOOLEAN,
          posted  : BOOLEAN,
          read    : SUBSET Entries,
          write   : SUBSET Entries]

Running(r) == pc[r] \notin {"idle", "done"}

\* The bucket a PUT asks for; an enabling PUT without one gets the default.
Target(c) == IF c.enabled /\ c.bucket = NoBucket THEN DefaultBucket ELSE c.bucket

Container(r) == <<call[r].project, Target(call[r])>>

-----------------------------------------------------------------------------
\* How a step ends: the request goes on to its next call, or is answered.

Goto(r, step) ==
  /\ pc' = [pc EXCEPT ![r] = step]
  /\ UNCHANGED <<resp, audit>>

Answer(r, status, event) ==
  /\ pc' = [pc EXCEPT ![r] = "done"]
  /\ resp' = [resp EXCEPT ![r] = status]
  /\ audit' = [audit EXCEPT ![r] = event]

\* A failed enable step: the answer and the audit event carry the same status.
Fail(r, status) == Answer(r, status, status) /\ UNCHANGED late

\* A request fails in a call that may still be carried out afterwards.
Abandon(r, status) ==
  /\ Answer(r, status, status)
  /\ late' = [late EXCEPT ![r] = pc[r]]

\* The service did not answer in time, or the connection broke.
GiveUp(r, status) == r \in Exposed /\ Abandon(r, status)

\* checkEnablePreconditions: 0 when the enable steps may start.
EnableRefusal(c) ==
  IF c.token.scope # c.project THEN 409
  ELSE IF ~WriterKnown THEN 503 ELSE 0
=============================================================================
