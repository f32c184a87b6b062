---------------------------- MODULE MemoryBudget ----------------------------
(***************************************************************************)
(* A call that has the in-memory limiter to itself is decided as           *)
(* WindowBudget says, whatever races came before it.  Three history        *)
(* variables say what the code does not keep: the last clock reading, the  *)
(* last answer, and whether the threads inside allow() were ever two.      *)
(***************************************************************************)
EXTENDS MemoryLimiter

VARIABLES reading, verdict, alone

historyVars == <<vars, reading, verdict, alone>>

Budget == INSTANCE WindowBudget WITH
  now <- reading,
  last <- verdict,
  window <- [k \in Keys |->
    IF windows[k] = 0 THEN [open |-> FALSE]
    ELSE [open |-> TRUE,
          start |-> objects[windows[k]].start,
          spent |-> objects[windows[k]].count]]

Answer(t, admitted) ==
  verdict' = Budget!Decision(call[t].key, call[t].cost, admitted)

HistoryInit == Init /\ reading = clock /\ verdict = Budget!NoDecision /\ alone = TRUE

HistoryStep(t) ==
  \/ (Enter(t) \/ GetWindow(t) \/ DecideToOpen(t)) /\ UNCHANGED <<reading, verdict>>
  \/ ReadTime(t) /\ reading' = clock /\ UNCHANGED verdict
  \/ Refuse(t) /\ Answer(t, FALSE) /\ UNCHANGED reading
  \/ (Spend(t) \/ StoreWindow(t)) /\ Answer(t, TRUE) /\ UNCHANGED reading

OneInside == \A s, t \in Threads : Idle(s) \/ Idle(t) \/ s = t

NobodyInside == \A t \in Threads : Idle(t)

(* Once two threads are inside together nobody counts as alone until both  *)
(* have left.                                                              *)
HistoryNext ==
  /\ \/ Tick /\ UNCHANGED <<reading, verdict>>
     \/ \E t \in Threads : HistoryStep(t)
  /\ alone' = (NobodyInside' \/ (alone /\ OneInside'))

HistorySpec == HistoryInit /\ [][HistoryNext]_historyVars

(* A call that meets no other in allow() is admitted exactly when its cost *)
(* fits in the key's open window (rate_limit.py:40-53, 61-81), also when   *)
(* the clock moves between reading it and deciding, or is set back, and    *)
(* when earlier calls raced: what they left behind is a window like any    *)
(* other.                                                                  *)
ImplementsBudget == Budget!Init /\ [][alone => Budget!Next]_(Budget!budgetVars)
=============================================================================
