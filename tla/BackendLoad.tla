----------------------------- MODULE BackendLoad -----------------------------
(***************************************************************************)
(* What the backend gets of a Gateway: a history of the requests it was    *)
(* asked for and of the windows that were begun, beside Gateway's own      *)
(* steps.  The two limiters are asked one after the other, their windows   *)
(* begin and end apart, a limiter may fail between them and the process    *)
(* may stop anywhere; the history outlives all of that.                    *)
(***************************************************************************)
EXTENDS Gateway

VARIABLES
  asked,        \* requests whose handler has left the call of the backend
  rateWindows,  \* request windows begun, by key
  tokenWindows  \* token windows begun, by key

loadVars == <<vars, asked, rateWindows, tokenWindows>>

LoadInit ==
  /\ Init
  /\ asked = {}
  /\ rateWindows = [k \in Keys |-> 0]
  /\ tokenWindows = [k \in Keys |-> 0]

(* A window begins with the first request that is charged to it.           *)
Begun(taken, takenNext) ==
  [k \in Keys |-> IF taken[k] = {} /\ takenNext[k] # {} THEN 1 ELSE 0]

(* A handler leaves the call with an answer, an error or an exception, or  *)
(* because the process stops under it.                                     *)
Asks(r) == pc[r] = "backend" /\ pc'[r] # "backend"

LoadNext ==
  /\ Next
  /\ asked' = asked \cup {r \in Requests : Asks(r)}
  /\ rateWindows' = [k \in Keys |-> rateWindows[k] + Begun(rateTaken, rateTaken')[k]]
  /\ tokenWindows' = [k \in Keys |-> tokenWindows[k] + Begun(tokenTaken, tokenTaken')[k]]

LoadSpec == LoadInit /\ [][LoadNext]_loadVars

-----------------------------------------------------------------------------
Asked(k) == {r \in asked : Key(r) = k}

(* Whatever fails, stops or ends between the two limiters and the backend, *)
(* the backend is never asked for more than the limits allow: of a caller  *)
(* and a model, no more requests than the request windows begun so far     *)
(* have room for, and no more tokens than the token windows have; and      *)
(* never for a request that the policy denies.  A limiter that fails lets  *)
(* nothing through (app.py:224-325, 432, 547-640).                         *)
BackendWithinBudgets ==
  /\ \A r \in asked : PolicyAllows(request[r])
  /\ \A k \in Keys :
       /\ Cardinality(Asked(k)) <= RateLimit[k[2]] * rateWindows[k]
       /\ TokensIn(Asked(k)) <= TokenLimit[k[2]] * tokenWindows[k]
=============================================================================
