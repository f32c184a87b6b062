---------------------------- MODULE DenialBudget ----------------------------
(***************************************************************************)
(* DenialAuditBudget (gateway/audit.py): how many denials of callers that  *)
(* never authenticated are written to the audit log.  allow() holds a lock *)
(* over reading the monotonic clock, restarting the window and counting,   *)
(* so it is one step; no thread ever sees a half-restarted window.  The    *)
(* window is restarted by the first call that finds it over, never by the  *)
(* clock itself.                                                           *)
(***************************************************************************)
EXTENDS Integers, Functions

CONSTANTS
  LimitPerMinute,  \* ANONYMOUS_DENIAL_AUDIT_PER_MINUTE
  WindowSeconds,   \* 60 in the code
  MaxClock         \* bound: the last clock value explored

ASSUME DenialBudgetAssumption ==
  /\ LimitPerMinute \in Nat
  /\ WindowSeconds \in Nat \ {0}
  /\ MaxClock \in Nat

VARIABLES
  clock,
  windowStarted,  \* self._window_started
  count,          \* self._count
  granted,        \* history: granted[n]: answers of True at clock n
  verdict         \* history: the latest answer

vars == <<clock, windowStarted, count, granted, verdict>>

Anonymous == "anonymous"

Budget == INSTANCE WindowBudget WITH
  Keys <- {Anonymous},
  Costs <- {1},
  Limit <- [k \in {Anonymous} |-> LimitPerMinute],
  now <- clock,
  window <- [k \in {Anonymous} |->
               [open |-> TRUE, start |-> windowStarted, spent |-> count]],
  last <- verdict

Init ==
  /\ clock = 0
  /\ windowStarted = clock
  /\ count = 0
  /\ granted = [n \in 0..MaxClock |-> 0]
  /\ verdict = Budget!NoDecision

Tick ==
  /\ clock < MaxClock
  /\ clock' = clock + 1
  /\ UNCHANGED <<windowStarted, count, granted, verdict>>

WindowOver == clock - windowStarted >= WindowSeconds

(* Mutant: the count goes on in a new window.                              *)
CountedOn == count

Counted == IF WindowOver THEN 0 ELSE count

(* Mutant: one denial too many.                                            *)
AdmittedOneMore == Counted <= LimitPerMinute

Admitted == Counted < LimitPerMinute

Allow ==
  /\ windowStarted' = IF WindowOver THEN clock ELSE windowStarted
  /\ count' = IF Admitted THEN Counted + 1 ELSE Counted
  /\ granted' = IF Admitted THEN [granted EXCEPT ![clock] = @ + 1] ELSE granted
  /\ verdict' = Budget!Decision(Anonymous, 1, Admitted)
  /\ UNCHANGED clock

Next == Tick \/ Allow

Spec == Init /\ [][Next]_vars

-----------------------------------------------------------------------------
TypeOK ==
  /\ clock \in 0..MaxClock
  /\ windowStarted \in 0..clock
  /\ count \in 0..LimitPerMinute
  /\ granted \in [0..MaxClock -> Nat]

(* The budget keeps the promise of every fixed window of the gateway       *)
(* (audit.py:32-41).                                                       *)
ImplementsBudget == Budget!Spec

GrantedIn(ticks) == SumFunctionOnSet(granted, ticks)

(* What a fixed window leaves of "per minute": an anonymous burst around   *)
(* the moment a window is restarted may be written twice over, never more, *)
(* in any stretch as long as a window.                                     *)
AnyMinuteBounded ==
  \A n \in 0..MaxClock :
    GrantedIn((n..n + WindowSeconds - 1) \cap 0..MaxClock) <= 2 * LimitPerMinute
=============================================================================
