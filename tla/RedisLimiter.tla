---------------------------- MODULE RedisLimiter ----------------------------
(***************************************************************************)
(* The limiters shared by every replica through Redis                      *)
(* (gateway/rate_limit.py, _RedisFixedWindowLimiter and                    *)
(* REDIS_FIXED_WINDOW_LUA).  A caller reads its own replica's clock to     *)
(* name the window's key, then sends the script; Redis runs it atomically, *)
(* at a later moment of its own clock, and the reply can be lost.  The     *)
(* script lets a key live one window's length from the first increment,    *)
(* which is not the moment the window ends.                                *)
(***************************************************************************)
EXTENDS Integers, FiniteSets

CONSTANTS
  Callers,        \* handler threads, of any replica
  Keys,           \* (model, hashed principal) pairs
  Costs,          \* 1 for the request budget, estimated tokens for the other
  Limit,          \* Limit[k]: the model's limit per minute
  WindowSeconds,
  Skew,           \* Skew[c]: how far the clock of c's replica is ahead
  MaxDelay,       \* the longest a call takes, its resends included
  Resends,        \* how often the Redis client sends a script again
  MaxClock,       \* bound: the last clock value explored
  MaxCalls        \* bound: calls made by one caller

ASSUME RedisLimiterAssumption ==
  /\ IsFiniteSet(Callers)
  /\ Keys # {}
  /\ Costs \subseteq Nat \ {0}
  /\ Limit \in [Keys -> Nat \ {0}]
  /\ WindowSeconds \in Nat \ {0}
  /\ Skew \in [Callers -> 0..WindowSeconds]
  /\ MaxDelay \in Nat
  /\ Resends \in Nat
  /\ MaxClock \in Nat
  /\ MaxCalls \in Nat

VARIABLES
  clock,    \* the clock of the Redis server
  store,    \* store[k][e]: the counter of window e of k, and when it expires
  pc,       \* where each caller is in _allow()
  call,     \* each caller's key, cost, window epoch, reply
  calls,    \* calls begun by each caller
  granted,  \* history: the cost allow() answered True for, by key and epoch
  strayed   \* history: the windows a script charged outside of their epoch

vars == <<clock, store, pc, call, calls, granted, strayed>>

EpochOf(reading) == reading \div WindowSeconds

Goto(c, from, to) ==
  /\ pc[c] = from
  /\ pc' = [pc EXCEPT ![c] = to]

(* A counter of 0 is a key Redis does not hold.                            *)
Absent == [count |-> 0, expires |-> 0]

Exists(counter) == counter.count > 0

LastEpoch == EpochOf(MaxClock + WindowSeconds)

AnyKey == CHOOSE k \in Keys : TRUE

NoCall == [key |-> AnyKey, cost |-> 0, epoch |-> 0,
           since |-> 0, sends |-> 0, admitted |-> FALSE]

Init ==
  /\ clock = 0
  /\ store = [k \in Keys |-> [e \in 0..LastEpoch |-> Absent]]
  /\ pc = [c \in Callers |-> "idle"]
  /\ call = [c \in Callers |-> NoCall]
  /\ calls = [c \in Callers |-> 0]
  /\ granted = [k \in Keys |-> [e \in 0..LastEpoch |-> 0]]
  /\ strayed = {}

(* Redis drops the keys whose time has come.                               *)
Tick ==
  /\ clock < MaxClock
  /\ \A c \in Callers : pc[c] # "idle" => clock - call[c].since < MaxDelay
  /\ clock' = clock + 1
  /\ store' = [k \in Keys |-> [e \in 0..LastEpoch |->
       IF Exists(store[k][e]) /\ clock' >= store[k][e].expires
       THEN Absent ELSE store[k][e]]]
  /\ UNCHANGED <<pc, call, calls, granted, strayed>>

(* window_epoch = int(time.time() // window_seconds), and send.            *)
Send(c) ==
  /\ calls[c] < MaxCalls
  /\ Goto(c, "idle", "sent")
  /\ calls' = [calls EXCEPT ![c] = @ + 1]
  /\ \E k \in Keys, cost \in Costs :
       call' = [call EXCEPT ![c] =
         [NoCall EXCEPT !.key = k, !.cost = cost, !.epoch = EpochOf(clock + Skew[c]),
                        !.since = clock]]
  /\ UNCHANGED <<clock, store, granted, strayed>>

(* Mutants: SET for INCRBY, and no PEXPIRE.                                *)
ChargedBySet(counter, cost) == [count |-> cost, expires |-> clock + WindowSeconds]

ChargedForEver(counter, cost) ==
  [count |-> counter.count + cost, expires |-> MaxClock + WindowSeconds + 1]

(* INCRBY, and PEXPIRE for the increment that made the key.                *)
Charged(counter, cost) ==
  [count |-> counter.count + cost,
   expires |-> IF counter.count + cost = cost THEN clock + WindowSeconds
                                              ELSE counter.expires]

(* Mutant: the test leaves out what the call itself asks for.              *)
FitsAlready(counter, cost, limit) == counter.count < limit

Fits(counter, cost, limit) == counter.count + cost <= limit

(* Mutant: the script increments before it compares.                       *)
ChargedFirst(counter, cost, limit) == Charged(counter, cost)

AfterScript(counter, cost, limit) ==
  IF Fits(counter, cost, limit) THEN Charged(counter, cost) ELSE counter

(* The script, run as one step.                                            *)
Eval(c) ==
  LET k == call[c].key
      e == call[c].epoch IN
  /\ Goto(c, "sent", "replied")
  /\ call' = [call EXCEPT ![c].admitted = Fits(store[k][e], call[c].cost, Limit[k])]
  /\ store' = [store EXCEPT ![k][e] = AfterScript(@, call[c].cost, Limit[k])]
  /\ strayed' = IF EpochOf(clock) = e THEN strayed ELSE strayed \cup {<<k, e>>}
  /\ UNCHANGED <<clock, calls, granted>>

(* int(decision[0]) == 1                                                   *)
Return(c) ==
  /\ Goto(c, "replied", "idle")
  /\ granted' = IF call[c].admitted
                THEN [granted EXCEPT ![call[c].key][call[c].epoch] = @ + call[c].cost]
                ELSE granted
  /\ call' = [call EXCEPT ![c] = NoCall]
  /\ UNCHANGED <<clock, store, calls, strayed>>

(* The script or its reply is lost: the client library sends it again...   *)
Resend(c) ==
  /\ pc[c] \in {"sent", "replied"}
  /\ call[c].sends < Resends
  /\ pc' = [pc EXCEPT ![c] = "sent"]
  /\ call' = [call EXCEPT ![c].sends = @ + 1, ![c].admitted = FALSE]
  /\ UNCHANGED <<clock, store, calls, granted, strayed>>

(* ...or gives up, and allow() raises instead of answering.                *)
Raise(c) ==
  /\ pc[c] \in {"sent", "replied"}
  /\ pc' = [pc EXCEPT ![c] = "idle"]
  /\ call' = [call EXCEPT ![c] = NoCall]
  /\ UNCHANGED <<clock, store, calls, granted, strayed>>

Next ==
  \/ Tick
  \/ \E c \in Callers : Send(c) \/ Eval(c) \/ Return(c) \/ Resend(c) \/ Raise(c)

Spec == Init /\ [][Next]_vars

-----------------------------------------------------------------------------
Counter == [count : Nat, expires : Nat]

Call == [key : Keys, cost : Nat, epoch : 0..LastEpoch, since : Nat, sends : Nat,
         admitted : BOOLEAN]

TypeOK ==
  /\ clock \in 0..MaxClock
  /\ store \in [Keys -> [0..LastEpoch -> Counter]]
  /\ pc \in [Callers -> {"idle", "sent", "replied"}]
  /\ call \in [Callers -> Call]
  /\ calls \in [Callers -> Nat]
  /\ granted \in [Keys -> [0..LastEpoch -> Nat]]
  /\ strayed \in SUBSET (Keys \X (0..LastEpoch))

(* Replicas share one counter: together they admit no more in a window     *)
(* than the model's limit (rate_limit.py:10-21, 108-121), also when the    *)
(* reply to an increment is lost or the script is sent twice, as long as   *)
(* the scripts that name the window run while it lasts.  A key lives       *)
(* WindowSeconds from its first increment, so a script that strays, after  *)
(* a delay or by a clock that is ahead, may find it expired and count      *)
(* again from 0.  With skew and delay together below a window's length     *)
(* this happens to a window at most once: it admits twice its limit.       *)
WindowLimit ==
  \A k \in Keys, e \in 0..LastEpoch :
    granted[k][e] <= (IF <<k, e>> \in strayed THEN 2 ELSE 1) * Limit[k]

(* No key outlives its usefulness: a counter is gone one window's length   *)
(* after it was made, so a window that was filled cannot refuse callers    *)
(* for ever and the keys of past epochs do not pile up in Redis.           *)
CountersExpire ==
  \A k \in Keys, e \in 0..LastEpoch :
    Exists(store[k][e]) => store[k][e].expires \in clock + 1 .. clock + WindowSeconds

(* README.md:59: "A denied request spends nothing, so it cannot block      *)
(* later requests that fit."  A script that answers no leaves every        *)
(* counter, and every expiry, as it was.                                   *)
RefusalSpendsNothing ==
  [][\A c \in Callers :
       pc[c] = "sent" /\ pc'[c] = "replied" /\ ~ call'[c].admitted => store' = store]_vars

(* A script that answers yes is paid for: while the scripts that name a    *)
(* window run inside it, its counter covers all that callers were granted, *)
(* and what a lost reply or a second sending charged besides.              *)
GrantsArePaid ==
  \A k \in Keys, e \in 0..LastEpoch :
    Exists(store[k][e]) /\ <<k, e>> \notin strayed => granted[k][e] <= store[k][e].count
=============================================================================
