---------------------------- MODULE WindowBudget ----------------------------
(***************************************************************************)
(* What every fixed-window budget of the gateway promises, whatever keeps  *)
(* the count: a call is admitted exactly when its cost still fits in the   *)
(* window its key has open, a refused call costs nothing, and a new window *)
(* opens only once the old one is a full window old.                       *)
(* The request limiter, the token limiter and the budget for anonymous     *)
(* denials are each shown to implement this module.                        *)
(***************************************************************************)
EXTENDS Integers

CONSTANTS
  Keys,          \* what a budget is kept for
  Costs,         \* what one call may ask for
  Limit,         \* Limit[k]: the most one window of k may admit
  WindowSeconds  \* the length of a window

NoWindow == [open |-> FALSE]

VARIABLES
  now,     \* the latest clock reading a decision was based on
  window,  \* window[k]: the open window of k, with what it has admitted
  last     \* the latest decision

budgetVars == <<now, window, last>>

NoDecision == [made |-> FALSE]

Opened(at, cost) == [open |-> TRUE, start |-> at, spent |-> cost]

Decision(k, cost, admitted) ==
  [made |-> TRUE, key |-> k, cost |-> cost, admitted |-> admitted]

(* A missing window, or one a full length old, counts for nothing.         *)
Over(k) == window[k].open => now - window[k].start >= WindowSeconds

Spent(k) == IF Over(k) THEN 0 ELSE window[k].spent

Fits(k, cost) == Spent(k) + cost <= Limit[k]

Init ==
  /\ now \in Int
  /\ window \in [Keys -> {NoWindow, Opened(now, 0)}]
  /\ last = NoDecision

(* Clocks are read in any order and may be set back.                       *)
ReadClock ==
  /\ now' \in Int
  /\ UNCHANGED <<window, last>>

Admit(k, cost) ==
  /\ Fits(k, cost)
  /\ window' = [window EXCEPT ![k] =
                  Opened(IF Over(k) THEN now ELSE window[k].start, Spent(k) + cost)]
  /\ last' = Decision(k, cost, TRUE)
  /\ UNCHANGED now

(* A refusal spends nothing; it may find the window over and restart it.   *)
Refuse(k, cost) ==
  /\ ~ Fits(k, cost)
  /\ \/ UNCHANGED window
     \/ Over(k) /\ window' = [window EXCEPT ![k] = Opened(now, 0)]
  /\ last' = Decision(k, cost, FALSE)
  /\ UNCHANGED now

Next ==
  \/ ReadClock
  \/ \E k \in Keys, cost \in Costs : Admit(k, cost) \/ Refuse(k, cost)

Spec == Init /\ [][Next]_budgetVars
=============================================================================
