----------------------------- MODULE TokenBucket ------------------------------
(***************************************************************************)
(* What a client may expect of a rate limit: one bucket per account that   *)
(* is there for ever, gains one unit of credit per tick until it is full,  *)
(* and pays the price of a token for every request it lets pass.           *)
(***************************************************************************)
EXTENDS Integers

CONSTANTS
  Requests,   \* those that are subject to a limit
  AccountOf,  \* the account each of them is charged to
  Most,       \* the most credit an account may hold
  Cost        \* what it pays for one request

Accounts == {AccountOf[r] : r \in Requests}

VARIABLES
  credit,  \* of each account
  verdict  \* on each request: "none" yet, "pass" or "reject"

vars == <<credit, verdict>>

Init ==
  /\ credit = [a \in Accounts |-> Most[a]]
  /\ verdict = [r \in Requests |-> "none"]

Refill ==
  /\ credit' = [a \in Accounts |-> IF credit[a] < Most[a] THEN credit[a] + 1 ELSE Most[a]]
  /\ UNCHANGED verdict

Decide(r) ==
  LET a == AccountOf[r] IN
  /\ verdict[r] = "none"
  /\ \/ /\ credit[a] >= Cost[a]
        /\ credit' = [credit EXCEPT ![a] = @ - Cost[a]]
        /\ verdict' = [verdict EXCEPT ![r] = "pass"]
     \/ /\ credit[a] < Cost[a]
        /\ verdict' = [verdict EXCEPT ![r] = "reject"]
        /\ UNCHANGED credit

Next == Refill \/ \E r \in Requests : Decide(r)

Spec == Init /\ [][Next]_vars
=============================================================================
