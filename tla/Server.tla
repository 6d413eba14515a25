-------------------------------- MODULE Server --------------------------------
(***************************************************************************)
(* Server: the life of the process, from ListenAndServe to its return, and *)
(* the way of each request through the middlewares to its handler.  A      *)
(* request takes a slot of the semaphore, fetches its bucket and spends a  *)
(* token if its route has a limit, and is handled.  Three goroutines and   *)
(* those of the requests run at the same time: the one in ListenAndServe,  *)
(* the one that shuts the server down, and one per limiter that evicts.    *)
(*                                                                         *)
(* net/http is external: its Shutdown closes the listener, waits until no  *)
(* connection is active and gives up at its deadline.  Each request comes  *)
(* on a connection of its own.                                             *)
(***************************************************************************)
EXTENDS RateLimit

CONSTANT MaxConcurrent  \* API.MaxConcurrentRequests; 0 for no semaphore

ASSUME CapacityAssumption == MaxConcurrent \in Nat

VARIABLES
  phase,     \* how far each request is: it has ended with an answer or without
  slots,     \* taken from the semaphore
  ctx,       \* "live" until SIGINT or SIGTERM and the delay after it
  listener,  \* "starting", "open", "closed" or "failed"
  drainer,   \* the goroutine for shutdown: "waiting", "draining" or "done"
  expired,   \* the deadline of the shutdown has passed
  main,      \* "serving", "exiting" (serverExited is closed) or "returned"
  outcome    \* what Server returned

requests == <<phase, slots>>
life == <<ctx, listener, drainer, expired, main, outcome>>
vars == <<limits, requests, life>>

\* Between taking a slot and giving it back.
Inside == {"limiting", "fetched", "handling"}

Active == {r \in Requests : phase[r] \in Inside \cup {"connected"}}

-----------------------------------------------------------------------------
\* A request.

Connect(r) ==
  /\ phase[r] = "unsent" /\ listener = "open"
  /\ phase' = [phase EXCEPT ![r] = "connected"]
  /\ UNCHANGED <<limits, slots, life>>

\* Its header takes longer than ReadHeaderTimeout, or a shutdown finds the
\* connection without a request.
Drop(r) ==
  /\ phase[r] = "connected"
  /\ phase' = [phase EXCEPT ![r] = "ended"]
  /\ UNCHANGED <<limits, slots, life>>

\* One more than the semaphore holds.
OneMore == MaxConcurrent > 0 /\ slots > MaxConcurrent

AtCapacity == MaxConcurrent > 0 /\ slots = MaxConcurrent

Acquire == slots' = IF MaxConcurrent > 0 THEN slots + 1 ELSE slots

\* A slot given back by handlers that return, not by those that panic.
ReleaseOnReturn(how) ==
  slots' = IF MaxConcurrent > 0 /\ how # "panicked" THEN slots - 1 ELSE slots

Release(how) == slots' = IF MaxConcurrent > 0 THEN slots - 1 ELSE slots

\* rejectOverCapacityMiddleware, from its select to the inner handler.
Admit(r) ==
  /\ phase[r] = "connected"
  /\ \/ /\ AtCapacity
        /\ phase' = [phase EXCEPT ![r] = "ended"]
        /\ UNCHANGED slots
     \/ /\ ~AtCapacity
        /\ Acquire
        /\ phase' = [phase EXCEPT ![r] = IF r \in Limited THEN "limiting" ELSE "handling"]
  /\ UNCHANGED <<limits, life>>

\* Wrap, in its two steps.
Fetch(r) ==
  /\ phase[r] = "limiting"
  /\ GetLimiter(r)
  /\ phase' = [phase EXCEPT ![r] = "fetched"]
  /\ UNCHANGED <<slots, life>>

Spend(r) ==
  /\ phase[r] = "fetched"
  /\ Allow(r)
  /\ \/ /\ verdict'[r] = "pass"
        /\ phase' = [phase EXCEPT ![r] = "handling"]
        /\ UNCHANGED slots
     \/ /\ verdict'[r] = "reject"
        /\ phase' = [phase EXCEPT ![r] = "ended"]
        /\ Release("rejected")
  /\ UNCHANGED life

\* A handler returns or panics, of which net/http recovers.
Finish(r) ==
  /\ phase[r] = "handling"
  /\ \E how \in {"served", "panicked"} :
       /\ phase' = [phase EXCEPT ![r] = "ended"]
       /\ Release(how)
  /\ UNCHANGED <<limits, life>>

RequestStep(r) ==
  Connect(r) \/ Drop(r) \/ Admit(r) \/ Fetch(r) \/ Spend(r) \/ Finish(r)

-----------------------------------------------------------------------------
\* The goroutine that runs ListenAndServe.

\* A server that is being shut down does not begin to listen.
Listen ==
  /\ listener = "starting" /\ main = "serving"
  /\ listener' \in IF drainer = "waiting" THEN {"open", "failed"} ELSE {"closed"}
  /\ UNCHANGED <<limits, requests, ctx, drainer, expired, main, outcome>>

ListenerFails ==
  /\ listener = "open"
  /\ listener' = "failed"
  /\ UNCHANGED <<limits, requests, ctx, drainer, expired, main, outcome>>

\* ListenAndServe returns as soon as the listener is gone; serverExited is closed.
StopServing ==
  /\ main = "serving" /\ listener \in {"closed", "failed"}
  /\ main' = "exiting"
  /\ UNCHANGED <<limits, requests, ctx, listener, drainer, expired, outcome>>

\* Server returns without waiting for the drain.
AtOnce == TRUE

ShutdownDone == drainer = "done"

\* Server returns and the process ends, with whatever is still in it.
Return ==
  /\ main = "exiting" /\ ShutdownDone
  /\ main' = "returned"
  /\ outcome' = IF listener = "closed" THEN "nil" ELSE "error"
  /\ phase' = [r \in Requests |-> IF phase[r] \in Inside THEN "cut"
                                  ELSE IF phase[r] = "connected" THEN "ended"
                                  ELSE phase[r]]
  /\ UNCHANGED <<limits, slots, ctx, listener, drainer, expired>>

-----------------------------------------------------------------------------
\* The end of ctx, and the goroutines that wait for it.

\* The signal has come and the delay of ContextWithSIGINT is over.
Cancel ==
  /\ ctx = "live" /\ main # "returned"
  /\ ctx' = "cancelled"
  /\ UNCHANGED <<limits, requests, listener, drainer, expired, main, outcome>>

ServerExited == main # "serving"

BeginShutdown ==
  /\ drainer = "waiting"
  /\ \/ /\ ctx = "cancelled"
        /\ drainer' = "draining"
        /\ listener' = IF listener = "open" THEN "closed" ELSE listener
     \/ /\ ServerExited
        /\ drainer' = "done"
        /\ UNCHANGED listener
  /\ UNCHANGED <<limits, requests, ctx, expired, main, outcome>>

\* Shutdown without a deadline.
NoDeadline == FALSE

Deadline == TRUE

EndShutdown ==
  /\ drainer = "draining"
  /\ \/ Active = {} /\ UNCHANGED expired
     \/ Active # {} /\ Deadline /\ expired' = TRUE
  /\ drainer' = "done"
  /\ UNCHANGED <<limits, requests, ctx, listener, main, outcome>>

\* StartEviction.  The goroutine ends with ctx, once its select takes that case;
\* until the process ends, it may still take the ticker's.
Evict(l) ==
  /\ main # "returned"
  /\ EvictStale(l)
  /\ UNCHANGED <<requests, life>>

Pass == main # "returned" /\ Tick /\ UNCHANGED <<requests, life>>

-----------------------------------------------------------------------------

Init ==
  /\ LimitInit
  /\ phase = [r \in Requests |-> "unsent"]
  /\ slots = 0
  /\ ctx = "live"
  /\ listener = "starting"
  /\ drainer = "waiting"
  /\ expired = FALSE
  /\ main = "serving"
  /\ outcome = "none"

MainStep == Listen \/ StopServing \/ Return
DrainerStep == BeginShutdown \/ EndShutdown

Next ==
  \/ \E r \in Requests : RequestStep(r)
  \/ MainStep \/ ListenerFails
  \/ Cancel \/ DrainerStep
  \/ \E l \in Enabled : Evict(l)
  \/ Pass

Spec == Init /\ [][Next]_vars

\* The goroutines of the server go on, and the deadline of the shutdown comes to
\* its end.  Of requests and their handlers nothing is assumed: WriteTimeout is
\* 0, and a client may read for ever.
FairSpec == Spec /\ WF_vars(MainStep) /\ WF_vars(DrainerStep)
=============================================================================
