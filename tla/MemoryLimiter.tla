---------------------------- MODULE MemoryLimiter ----------------------------
(***************************************************************************)
(* The limiters kept in the memory of one gateway process                  *)
(* (gateway/rate_limit.py, FixedWindowRateLimiter and                      *)
(* FixedWindowTokenBudgetLimiter).  FastAPI runs the two handlers in a     *)
(* thread pool, both limiters are process-wide and neither takes a lock,   *)
(* so several threads are inside allow() at once.                          *)
(*                                                                         *)
(* Under the interpreter lock a thread can be switched out where it calls  *)
(* something: after time.time(), after windows.get() and around the        *)
(* construction of a Window.  From the expiry test to `window.count +=     *)
(* cost` nothing is called, so that stretch is one step.  Window objects   *)
(* are shared by reference: a thread may add to one that is no longer in   *)
(* the dictionary.                                                         *)
(*                                                                         *)
(* The request limiter is this module with Costs = {1}.  It alone does not *)
(* test the cost when it opens a window, which the registry's limits of at *)
(* least one make the same thing.                                          *)
(***************************************************************************)
EXTENDS Integers, Sequences, FiniteSets, Functions

CONSTANTS
  Threads,        \* worker threads that may be inside allow() together
  Keys,           \* (principal, model) pairs
  Costs,          \* 1 for the request limiter, estimated tokens for the other
  Limit,          \* Limit[k]: the model's limit per minute
  WindowSeconds,
  Drifts,         \* what the wall clock may move by: 1, or -1 when set back
  MaxClock,       \* bound: the last clock value explored
  MaxCalls        \* bound: calls a thread makes

ASSUME MemoryLimiterAssumption ==
  /\ IsFiniteSet(Threads)
  /\ Keys # {}
  /\ Costs \subseteq Nat \ {0}
  /\ Limit \in [Keys -> Nat \ {0}]
  /\ WindowSeconds \in Nat \ {0}
  /\ Drifts \subseteq Int
  /\ MaxClock \in Nat
  /\ MaxCalls \in Nat

VARIABLES
  clock,     \* the wall clock, time.time()
  objects,   \* every Window object made so far
  windows,   \* self.windows: the position in objects of a key's window, or 0
  pc,        \* where each thread is in allow()
  call,      \* each thread's arguments and locals: key, cost, now, window
  calls,     \* calls begun by each thread
  granted,   \* history: the cost allow() has answered True for, by key
  steady     \* history: so far the clock only moved forwards, and only while
             \* nobody was inside allow()

vars == <<clock, objects, windows, pc, call, calls, granted, steady>>

Locations == {"idle", "time", "get", "decide", "store"}

Idle(t) == pc[t] = "idle"

AnyKey == CHOOSE k \in Keys : TRUE

NoCall == [key |-> AnyKey, cost |-> 0, now |-> 0, window |-> 0]

Goto(t, from, to) ==
  /\ pc[t] = from
  /\ pc' = [pc EXCEPT ![t] = to]

Init ==
  /\ clock = 0
  /\ objects = <<>>
  /\ windows = [k \in Keys |-> 0]
  /\ pc = [t \in Threads |-> "idle"]
  /\ call = [t \in Threads |-> NoCall]
  /\ calls = [t \in Threads |-> 0]
  /\ granted = [k \in Keys |-> 0]
  /\ steady = TRUE

Tick ==
  /\ \E d \in Drifts : clock' = clock + d
  /\ clock' \in 0..MaxClock
  /\ steady' = (steady /\ clock' >= clock /\ \A t \in Threads : Idle(t))
  /\ UNCHANGED <<objects, windows, pc, call, calls, granted>>

Enter(t) ==
  /\ calls[t] < MaxCalls
  /\ Goto(t, "idle", "time")
  /\ \E k \in Keys, c \in Costs :
       call' = [call EXCEPT ![t] = [NoCall EXCEPT !.key = k, !.cost = c]]
  /\ calls' = [calls EXCEPT ![t] = @ + 1]
  /\ UNCHANGED <<clock, objects, windows, granted, steady>>

(* now = time.time()                                                       *)
ReadTime(t) ==
  /\ Goto(t, "time", "get")
  /\ call' = [call EXCEPT ![t].now = clock]
  /\ UNCHANGED <<clock, objects, windows, calls, granted, steady>>

(* window = self.windows.get(key)                                          *)
GetWindow(t) ==
  /\ Goto(t, "get", "decide")
  /\ call' = [call EXCEPT ![t].window = windows[call[t].key]]
  /\ UNCHANGED <<clock, objects, windows, calls, granted, steady>>

(* Mutant: windows end one tick early.                                     *)
ExpiredEarly(c) ==
  c.window # 0 => c.now - objects[c.window].start >= WindowSeconds - 1

(* window is None or now - window.started_at >= self.window_seconds        *)
Expired(c) ==
  c.window # 0 => c.now - objects[c.window].start >= WindowSeconds

(* An expired window is replaced, unless the cost alone exceeds the limit. *)
DecideToOpen(t) ==
  /\ Expired(call[t])
  /\ call[t].cost <= Limit[call[t].key]
  /\ Goto(t, "decide", "store")
  /\ UNCHANGED <<clock, objects, windows, call, calls, granted, steady>>

(* Mutant: the test leaves out what the call itself asks for.              *)
OverdrawnAlready(c) ==
  IF Expired(c) THEN c.cost > Limit[c.key]
                ELSE objects[c.window].count >= Limit[c.key]

Overdrawn(c) ==
  IF Expired(c) THEN c.cost > Limit[c.key]
                ELSE objects[c.window].count + c.cost > Limit[c.key]

(* return False                                                            *)
Refuse(t) ==
  /\ Overdrawn(call[t])
  /\ Goto(t, "decide", "idle")
  /\ call' = [call EXCEPT ![t] = NoCall]
  /\ UNCHANGED <<clock, objects, windows, calls, granted, steady>>

(* window.count += cost; return True                                       *)
Spend(t) ==
  /\ ~ Expired(call[t])
  /\ ~ Overdrawn(call[t])
  /\ Goto(t, "decide", "idle")
  /\ objects' = [objects EXCEPT ![call[t].window].count = @ + call[t].cost]
  /\ granted' = [granted EXCEPT ![call[t].key] = @ + call[t].cost]
  /\ call' = [call EXCEPT ![t] = NoCall]
  /\ UNCHANGED <<clock, windows, calls, steady>>

(* Mutant: the call that opens the window is not counted in it.            *)
UnchargedWindow(c) == [key |-> c.key, start |-> c.now, count |-> 0]

NewWindow(c) == [key |-> c.key, start |-> c.now, count |-> c.cost]

(* self.windows[key] = Window(started_at=now, count=cost); return True     *)
StoreWindow(t) ==
  LET c == call[t] IN
  /\ Goto(t, "store", "idle")
  /\ objects' = Append(objects, NewWindow(c))
  /\ windows' = [windows EXCEPT ![c.key] = Len(objects')]
  /\ granted' = [granted EXCEPT ![c.key] = @ + c.cost]
  /\ call' = [call EXCEPT ![t] = NoCall]
  /\ UNCHANGED <<clock, calls, steady>>

Step(t) ==
  \/ Enter(t) \/ ReadTime(t) \/ GetWindow(t)
  \/ DecideToOpen(t) \/ Refuse(t) \/ Spend(t) \/ StoreWindow(t)

Next == Tick \/ \E t \in Threads : Step(t)

Spec == Init /\ [][Next]_vars

-----------------------------------------------------------------------------
Window == [key : Keys, start : Int, count : Nat \ {0}]

TypeOK ==
  /\ clock \in Int
  /\ objects \in Seq(Window)
  /\ windows \in [Keys -> 0..Len(objects)]
  /\ pc \in [Threads -> Locations]
  /\ call \in [Threads -> [key : Keys, cost : Nat, now : Int, window : 0..Len(objects)]]
  /\ calls \in [Threads -> Nat]
  /\ granted \in [Keys -> Nat]
  /\ steady \in BOOLEAN

(* However the threads interleave, no Window object is ever filled past    *)
(* the limit: the test and the increment of one object are never split     *)
(* (rate_limit.py:49 and 77), even when the object was replaced meanwhile. *)
NoWindowOverfilled == \A i \in DOMAIN objects : objects[i].count <= Limit[objects[i].key]

OfKey(k) == {i \in DOMAIN objects : objects[i].key = k}

CountedIn(S) == SumFunctionOnSet([i \in DOMAIN objects |-> objects[i].count], S)

(* Every admission is written in exactly one Window object.  Threads that  *)
(* race to open a window make objects the dictionary forgets, but no count *)
(* is lost from the object it was made on, and none is made twice.         *)
EveryAdmissionCounted == \A k \in Keys : granted[k] = CountedIn(OfKey(k))

Live(k) == {i \in OfKey(k) : clock - objects[i].start < WindowSeconds}

(* How far the missing lock alone lets a key go over its limit, with a     *)
(* steady clock and prompt calls: each thread can open the window once, so *)
(* at most one full limit per thread is admitted in a window's length.     *)
OvershootBounded ==
  steady => \A k \in Keys : CountedIn(Live(k)) <= Cardinality(Threads) * Limit[k]

(* THREAT_MODEL.md:28: "Requests and estimated input-token budgets are     *)
(* limited by principal and model."  What a window of a key admits stays   *)
(* within the limit.  The race to open it (rate_limit.py:43-46, 69-74)     *)
(* breaks this with a steady clock and prompt calls.                       *)
LimitedByKey == steady => \A k \in Keys : CountedIn(Live(k)) <= Limit[k]
=============================================================================
