----------------------------- MODULE ReplicaCheck -----------------------------
(***************************************************************************)
(* The check that replicas share one request budget                        *)
(* (bench/redis_replica_check.py): a burst of one caller's requests, dealt *)
(* to the replicas in turn, a request of another caller, and, a window     *)
(* later, one more of the first.  It judges by the answers alone; what     *)
(* they tell of the deployment is this module's subject.                   *)
(*                                                                         *)
(* A deployment keeps its windows in Redis, one for all replicas and named *)
(* by the epoch, or each replica keeps its own from the first request on   *)
(* (build_limiters_from_env).  RedisLimiter and MemoryLimiter have them in *)
(* detail; here a limiter decides in one step, the clocks agree, and a     *)
(* script is sent twice at most.  The gateways' token budgets are taken to *)
(* be ample, as the Compose file has them.  Time is in seconds.            *)
(***************************************************************************)
EXTENDS Integers, FiniteSetsExt

CONSTANTS
  Replicas,        \* how many gateway URLs the check is given
  RequestLimit,    \* what it is told of the deployment: the limit...
  WindowSeconds,   \* ...and the window
  TotalRequests,
  Workers,         \* 64 in the code, or fewer for a smaller burst
  Deployments,     \* that it may be pointed at
  MaxClock         \* bound: the last clock value explored

Deployment == [shared : BOOLEAN, limit : Nat \ {0}, window : Nat \ {0}, spent : Nat]

ASSUME ReplicaCheckAssumption ==
  /\ Replicas \in Nat \ {0, 1}
  /\ RequestLimit \in Nat \ {0}
  /\ WindowSeconds \in Nat \ {0}
  /\ TotalRequests \in Nat /\ TotalRequests > RequestLimit
  /\ Workers \in Nat \ {0}
  /\ Deployments \subseteq Deployment
  /\ MaxClock \in Nat

VARIABLES
  deployment,  \* spent: what the caller used up of its open windows before the check
  clock,
  windows,     \* by the place that keeps them and the caller
  checking,    \* where run_check is
  statuses,    \* of the burst
  isolated, expired,  \* the two later statuses
  wakes,       \* when the sleep is over
  epochs,      \* history: the epochs in which the burst was decided
  resent       \* history: a script that had counted was sent again

gateways == <<deployment, windows, resent>>
replicaVars == <<gateways, clock, checking, statuses, isolated, expired, wakes, epochs>>

Stores == 0 .. Replicas - 1

Principals == {"analyst-1", "security-1"}

Burst == 0 .. TotalRequests - 1

(* Any other status, of a denial or an error, is "other".                  *)
Statuses == {"200", "429", "other"}

NoWindow == [open |-> FALSE, since |-> 0, spent |-> 0]

Epoch == clock \div deployment.window

ReplicaInit ==
  /\ deployment \in Deployments
  /\ clock \in 0 .. WindowSeconds - 1
  /\ windows = [p \in Stores |-> [c \in Principals |->
       IF c = "analyst-1" /\ deployment.spent > 0
       THEN [open |-> TRUE, since |-> clock, spent |-> deployment.spent] ELSE NoWindow]]
  /\ checking = "burst"
  /\ statuses = [i \in Burst |-> "none"]
  /\ isolated = "none" /\ expired = "none"
  /\ wakes = 0
  /\ epochs = {}
  /\ resent = FALSE

Tick ==
  /\ clock < MaxClock
  /\ clock' = clock + 1
  /\ UNCHANGED <<gateways, checking, statuses, isolated, expired, wakes, epochs>>

-----------------------------------------------------------------------------
(* The limiter of a replica.                                               *)
Store(replica) == IF deployment.shared THEN 0 ELSE replica

Over(window) ==
  \/ ~ window.open
  \/ IF deployment.shared
     THEN window.since \div deployment.window # Epoch
     ELSE clock - window.since >= deployment.window

Spent(window) == IF Over(window) THEN 0 ELSE window.spent

Fits(window) == Spent(window) + 1 <= deployment.limit

Charged(window) ==
  [open |-> TRUE, since |-> IF Over(window) THEN clock ELSE window.since, spent |-> Spent(window) + 1]

(* A replica answers: the request is refused by the limiter, served after  *)
(* it, or goes wrong before it or behind it.                               *)
Decides(replica, caller, status) ==
  LET window == windows[Store(replica)][caller] IN
  /\ \/ /\ status \in {"200", "other"} /\ Fits(window)
        /\ windows' = [windows EXCEPT ![Store(replica)][caller] = Charged(@)]
     \/ status = "429" /\ ~ Fits(window) /\ UNCHANGED windows
     \/ status = "other" /\ UNCHANGED windows
  /\ UNCHANGED <<deployment, resent>>

(* Redis's reply to a script that has counted is lost, and the client      *)
(* library sends the script again: the request is charged twice, or is     *)
(* refused for its own unit.                                               *)
Resends(replica, caller, status) ==
  LET window == windows[Store(replica)][caller]
      once == Charged(window) IN
  /\ deployment.shared
  /\ Fits(window)
  /\ status \in {"other", IF Fits(once) THEN "200" ELSE "429"}
  /\ windows' = [windows EXCEPT ![Store(replica)][caller] =
                   IF Fits(once) THEN Charged(once) ELSE once]
  /\ resent' = TRUE
  /\ UNCHANGED deployment

Answers(replica, caller, status) ==
  Decides(replica, caller, status) \/ Resends(replica, caller, status)

-----------------------------------------------------------------------------
(* Mutant: every request goes to the first URL.                            *)
FirstTarget(index) == 0

Target(index) == index % Replicas

Open(index) == statuses[index] = "none"

(* The pool takes the requests up in order, and they are answered in any.  *)
SendRequest(index) ==
  /\ checking = "burst"
  /\ Open(index)
  /\ Cardinality({i \in 0 .. index - 1 : Open(i)}) < Workers
  /\ \E status \in Statuses :
       /\ Answers(Target(index), "analyst-1", status)
       /\ statuses' = [statuses EXCEPT ![index] = status]
  /\ epochs' = epochs \cup {Epoch}
  /\ UNCHANGED <<clock, checking, isolated, expired, wakes>>

(* Mutant: the sleep is shorter than a window.                             *)
WaitTooShort == WindowSeconds - 1

(* expiration_wait_seconds, in whole seconds.                              *)
Wait == WindowSeconds + Max({1, WindowSeconds \div 10})

Isolate ==
  /\ checking = "burst" /\ checking' = "asleep"
  /\ \A i \in Burst : ~ Open(i)
  /\ isolated' \in Statuses /\ Answers(0, "security-1", isolated')
  /\ wakes' = clock + Wait
  /\ UNCHANGED <<clock, statuses, expired, epochs>>

Expire ==
  /\ checking = "asleep" /\ checking' = "done"
  /\ clock >= wakes
  /\ expired' \in Statuses /\ Answers(1, "analyst-1", expired')
  /\ UNCHANGED <<clock, statuses, isolated, wakes, epochs>>

(* A replica that cannot be reached ends the check without a report.       *)
Raise ==
  /\ checking \in {"burst", "asleep"} /\ checking' = "raised"
  /\ UNCHANGED <<gateways, clock, statuses, isolated, expired, wakes, epochs>>

ReplicaNext == Tick \/ (\E i \in Burst : SendRequest(i)) \/ Isolate \/ Expire \/ Raise

ReplicaSpec == ReplicaInit /\ [][ReplicaNext]_replicaVars

-----------------------------------------------------------------------------
Answered(status) == {i \in Burst : statuses[i] = status}

(* The report's checks, all of them.                                       *)
Passes ==
  /\ checking = "done"
  /\ Cardinality(Answered("200")) = RequestLimit
  /\ Cardinality(Answered("429")) = TotalRequests - RequestLimit
  /\ Answered("other") = {}
  /\ isolated = "200"
  /\ expired = "200"

ReplicaTypeOK ==
  /\ deployment \in Deployments
  /\ clock \in Nat
  /\ windows \in [Stores -> [Principals -> [open : BOOLEAN, since : Nat, spent : Nat]]]
  /\ checking \in {"burst", "asleep", "done", "raised"}
  /\ statuses \in [Burst -> Statuses \cup {"none"}]
  /\ isolated \in Statuses \cup {"none"} /\ expired \in Statuses \cup {"none"}
  /\ wakes \in Nat
  /\ epochs \subseteq Nat
  /\ resent \in BOOLEAN

(* A report that passes means what it is kept for (bench/README.md:302):   *)
(* the replicas have one budget between them, however the requests         *)
(* overtake each other and wherever windows end.  It takes windows that    *)
(* are unused and the limit that the check is told: replicas with half the *)
(* limit each, or with windows half used up, pass without sharing any.     *)
PassMeansShared ==
  Passes /\ deployment.limit = RequestLimit /\ deployment.spent = 0 => deployment.shared

(* The check raises no false alarm: replicas that share the budget it was  *)
(* told of pass, if all that was asked was answered, no script was sent    *)
(* again, which would admit less, and the burst did not run into the next  *)
(* window, which would admit more.                                         *)
SharedPasses ==
  /\ checking = "done"
  /\ deployment = [shared |-> TRUE, limit |-> RequestLimit, window |-> WindowSeconds, spent |-> 0]
  /\ Cardinality(epochs) = 1
  /\ ~ resent
  /\ Answered("other") = {} /\ isolated # "other" /\ expired # "other"
  => Passes
=============================================================================
