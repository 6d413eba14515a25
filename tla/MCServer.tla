------------------------------- MODULE MCServer -------------------------------
(***************************************************************************)
(* Instance values of Server for TLC.                                      *)
(***************************************************************************)
EXTENDS ServerProperties, TLC

CONSTANTS r1, r2, r3

Ask(route, token) == [route |-> route, token |-> token, address |-> "10.0.0.1:80"]

\* Three requests with one token: they share a bucket.
OneClient ==
  (r1 :> Ask("events", "t")) @@ (r2 :> Ask("attributes", "t")) @@ (r3 :> Ask("event", "t"))

\* The limiter of downloads is off.
Bursts == ("default" :> 1) @@ ("download" :> 0)
Periods == ("default" :> 2) @@ ("download" :> 1)

\* A bucket fills in two ticks, and is evicted no earlier.
ASSUME FillsBeforeEviction == IdleIsLong
=============================================================================
