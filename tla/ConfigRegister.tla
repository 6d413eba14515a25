---------------------------- MODULE ConfigRegister ----------------------------
(***************************************************************************)
(* What the dataplane-config API promises to its clients and to log-router,*)
(* with no replicas, calls or failures in sight: a table with a row per    *)
(* project.  A request changes it at most once, in one step, and to what   *)
(* it has asked for.  A request that was told of success has changed it,   *)
(* one that was told of a refusal has not and never will, and one that was *)
(* told neither (a 500, or no answer at all) may still change it later.  A *)
(* row that enables routing enters the table only when its container is    *)
(* ready for log-router.                                                   *)
(***************************************************************************)
CONSTANTS
  Reqs,        \* the requests
  Projects,    \* the keys of the table
  Docs,        \* the rows a request may ask for
  Missing,     \* the row of a project that has none
  NoWish       \* what a request asks for that is not or no longer open

VARIABLES
  table,       \* the row of each project
  ready,       \* the containers <<project, bucket>> log-router can write to
  phase,       \* "idle", "open", or how the request was answered
  wish,        \* the row each request wants, and in which project
  applied      \* whether each request has changed the table

vars == <<table, ready, phase, wish, applied>>

Init ==
  /\ table = [p \in Projects |-> Missing]
  /\ ready \in SUBSET (Projects \X {doc.bucket : doc \in Docs})
  /\ phase = [r \in Reqs |-> "idle"]
  /\ wish = [r \in Reqs |-> NoWish]
  /\ applied = [r \in Reqs |-> FALSE]

\* A request arrives.
Open(r) ==
  /\ phase[r] = "idle"
  /\ phase' = [phase EXCEPT ![r] = "open"]
  /\ \E p \in Projects, doc \in Docs :
       wish' = [wish EXCEPT ![r] = [project |-> p, doc |-> doc]]
  /\ UNCHANGED <<table, ready, applied>>

\* Containers become ready; none stops being ready.
Prepare ==
  /\ ready \subseteq ready'
  /\ UNCHANGED <<table, phase, wish, applied>>

\* The one step at which a request changes the table.
Apply(r) ==
  /\ phase[r] \in {"open", "unknown"}
  /\ ~applied[r]
  /\ wish[r].doc.enabled => <<wish[r].project, wish[r].doc.bucket>> \in ready
  /\ table' = [table EXCEPT ![wish[r].project] = wish[r].doc]
  /\ applied' = [applied EXCEPT ![r] = TRUE]
  /\ UNCHANGED <<ready, phase, wish>>

\* The answer "it is done".
Confirm(r) ==
  /\ phase[r] = "open" /\ applied[r]
  /\ phase' = [phase EXCEPT ![r] = "confirmed"]
  /\ UNCHANGED <<table, ready, wish, applied>>

\* An answer that promises that nothing was changed; also that of a read.
Decline(r) ==
  /\ phase[r] \in {"idle", "open"} /\ ~applied[r]
  /\ phase' = [phase EXCEPT ![r] = "declined"]
  /\ wish' = [wish EXCEPT ![r] = NoWish]
  /\ UNCHANGED <<table, ready, applied>>

\* Requests that end without saying what has become of them.
Lose(lost) ==
  /\ \A r \in lost : phase[r] = "open"
  /\ phase' = [r \in Reqs |-> IF r \in lost THEN "unknown" ELSE phase[r]]
  /\ UNCHANGED <<table, ready, wish, applied>>

Next ==
  \/ Prepare
  \/ \E r \in Reqs : Open(r) \/ Apply(r) \/ Confirm(r) \/ Decline(r)
  \/ \E lost \in SUBSET Reqs : Lose(lost)

Spec == Init /\ [][Next]_vars
=============================================================================
