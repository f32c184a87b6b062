------------------------ MODULE MemoryLimiter_proofs ------------------------
(***************************************************************************)
(* Theorems about MemoryLimiter and MemoryBudget, for any threads, keys,   *)
(* costs, limits and clocks, and for calls of any length: the clock may    *)
(* move, forwards or back, between any two steps of a thread.              *)
(***************************************************************************)
EXTENDS MemoryBudget, SumTheorems

ObjectsTyped ==
  /\ objects \in Seq(Window)
  /\ windows \in [Keys -> 0..Len(objects)]

CallsTyped ==
  /\ pc \in [Threads -> Locations]
  /\ call \in [Threads -> [key : Keys, cost : Nat, now : Int, window : 0..Len(objects)]]
  /\ calls \in [Threads -> Nat]

(* What a thread knows survives what the others do: the window it got has  *)
(* its key, also when it was replaced since, and a window it is about to   *)
(* open will hold no more than the limit.                                  *)
WindowsOwned == \A k \in Keys : windows[k] # 0 => objects[windows[k]].key = k

CallsKnow ==
  \A t \in Threads :
    /\ pc[t] # "idle" => call[t].cost \in Costs
    /\ call[t].window # 0 => objects[call[t].window].key = call[t].key
    /\ pc[t] = "store" => call[t].cost <= Limit[call[t].key]

LimitInv ==
  /\ clock \in Int
  /\ ObjectsTyped
  /\ CallsTyped
  /\ granted \in [Keys -> Nat]
  /\ steady \in BOOLEAN
  /\ WindowsOwned
  /\ CallsKnow
  /\ NoWindowOverfilled

LEMMA NoCallTyped ==
  ASSUME NEW n \in Nat
  PROVE  /\ NoCall \in [key : Keys, cost : Nat, now : Int, window : 0..n]
         /\ NoCall.window = 0
  BY MemoryLimiterAssumption DEF NoCall, AnyKey

LEMMA LimitInit == Init => LimitInv
  <1> SUFFICES ASSUME Init PROVE LimitInv
    OBVIOUS
  <1>1. ObjectsTyped /\ Len(objects) = 0
    BY DEF Init, ObjectsTyped
  <1>2. CallsTyped
    BY <1>1, NoCallTyped DEF Init, CallsTyped, Locations
  <1>3. CallsKnow
    BY NoCallTyped DEF Init, CallsKnow
  <1>4. WindowsOwned /\ NoWindowOverfilled
    BY DEF Init, WindowsOwned, NoWindowOverfilled
  <1>5. QED
    BY <1>1, <1>2, <1>3, <1>4 DEF Init, LimitInv

(* Steps that leave the window objects alone.                              *)
LEMMA ReadingStep ==
  ASSUME LimitInv, NEW t \in Threads,
         Enter(t) \/ ReadTime(t) \/ GetWindow(t) \/ DecideToOpen(t) \/ Refuse(t)
  PROVE  LimitInv'
  <1> USE DEF LimitInv, ObjectsTyped, CallsTyped, Goto
  <1>1. UNCHANGED <<clock, objects, windows, granted, steady>>
    BY DEF Enter, ReadTime, GetWindow, DecideToOpen, Refuse
  <1>2. WindowsOwned' /\ NoWindowOverfilled'
    BY <1>1 DEF WindowsOwned, NoWindowOverfilled
  <1>3. CASE Enter(t)
    <2>1. PICK k \in Keys, c \in Costs :
            call' = [call EXCEPT ![t] = [NoCall EXCEPT !.key = k, !.cost = c]]
      BY <1>3 DEF Enter
    <2>2. /\ call'[t] \in [key : Keys, cost : Nat, now : Int, window : 0..Len(objects)]
          /\ call'[t].cost = c /\ call'[t].window = 0
      <3>1. call'[t] = [key |-> k, cost |-> c, now |-> 0, window |-> 0]
        BY <2>1 DEF NoCall
      <3>2. c \in Nat /\ Len(objects) \in Nat
        BY MemoryLimiterAssumption
      <3>3. [key |-> k, cost |-> c, now |-> 0, window |-> 0]
              \in [key : Keys, cost : Nat, now : Int, window : 0..Len(objects)]
        BY <3>2
      <3>4. QED
        BY <3>1, <3>3
    <2>3. pc' \in [Threads -> Locations]
      <3>1. pc' = [pc EXCEPT ![t] = "time"]
        BY <1>3 DEF Enter
      <3>2. QED
        BY <3>1 DEF Locations
    <2>4. calls' \in [Threads -> Nat]
      <3>1. calls' = [calls EXCEPT ![t] = @ + 1]
        BY <1>3 DEF Enter
      <3>2. QED
        BY <3>1
    <2>5. CallsTyped'
      BY <1>1, <2>1, <2>2, <2>3, <2>4
    <2>6. CallsKnow'
      BY <1>1, <1>3, <2>1, <2>2 DEF Enter, CallsKnow
    <2>7. QED
      BY <1>1, <1>2, <2>5, <2>6
  <1>4. CASE ReadTime(t)
    <2>1. CallsTyped'
      BY <1>1, <1>4 DEF ReadTime, Locations
    <2>2. CallsKnow'
      BY <1>1, <1>4 DEF ReadTime, CallsKnow
    <2>3. QED
      BY <1>1, <1>2, <2>1, <2>2
  <1>5. CASE GetWindow(t)
    <2>1. CallsTyped'
      BY <1>1, <1>5 DEF GetWindow, Locations
    <2>2. CallsKnow'
      BY <1>1, <1>5 DEF GetWindow, CallsKnow, WindowsOwned
    <2>3. QED
      BY <1>1, <1>2, <2>1, <2>2
  <1>6. CASE DecideToOpen(t)
    <2>1. CallsTyped'
      BY <1>1, <1>6 DEF DecideToOpen, Locations
    <2>2. CallsKnow'
      BY <1>1, <1>6 DEF DecideToOpen, CallsKnow
    <2>3. QED
      BY <1>1, <1>2, <2>1, <2>2
  <1>7. CASE Refuse(t)
    <2>1. CallsTyped'
      BY <1>1, <1>7, NoCallTyped DEF Refuse, Locations
    <2>2. CallsKnow'
      BY <1>1, <1>7, NoCallTyped DEF Refuse, CallsKnow
    <2>3. QED
      BY <1>1, <1>2, <2>1, <2>2
  <1>8. QED
    BY <1>3, <1>4, <1>5, <1>6, <1>7

LEMMA ChargedWindow ==
  ASSUME NEW o \in Window, NEW c \in Nat
  PROVE  /\ [o EXCEPT !.count = @ + c] \in Window
         /\ [o EXCEPT !.count = @ + c].key = o.key
         /\ [o EXCEPT !.count = @ + c].count = o.count + c
  BY DEF Window

(* The increment: the window it is made on was tested in the same step.    *)
LEMMA SpendStep == ASSUME LimitInv, NEW t \in Threads, Spend(t) PROVE LimitInv'
  <1> USE DEF LimitInv, ObjectsTyped, CallsTyped, Goto
  <1> DEFINE w == call[t].window
  <1>1. /\ w \in DOMAIN objects /\ objects[w] \in Window
        /\ objects[w].key = call[t].key
        /\ objects[w].count + call[t].cost <= Limit[call[t].key]
        /\ call[t].cost \in Nat
    <2>1. call[t] \in [key : Keys, cost : Nat, now : Int, window : 0..Len(objects)]
      OBVIOUS
    <2>2. w # 0
      BY DEF Spend, Expired
    <2>3. w \in DOMAIN objects /\ objects[w] \in Window
      BY <2>1, <2>2
    <2>4. QED
      <3>1. ~ (objects[w].count + call[t].cost > Limit[call[t].key])
        BY DEF Spend, Overdrawn
      <3>2. objects[w].count \in Nat /\ Limit[call[t].key] \in Nat
        BY <2>1, <2>3, MemoryLimiterAssumption DEF Window
      <3>3. objects[w].key = call[t].key
        BY <2>2 DEF CallsKnow
      <3>4. QED
        BY <2>1, <2>3, <3>1, <3>2, <3>3
  <1>2. objects' = [objects EXCEPT ![w] = [objects[w] EXCEPT !.count = @ + call[t].cost]]
    BY DEF Spend
  <1> HIDE DEF w
  <1>3. [objects[w] EXCEPT !.count = @ + call[t].cost] \in Window
    BY <1>1, ChargedWindow
  <1>4. /\ objects' \in Seq(Window) /\ Len(objects') = Len(objects)
        /\ \A i \in DOMAIN objects : objects'[i].key = objects[i].key
    BY <1>1, <1>2, <1>3, ChargedWindow
  <1>5. ObjectsTyped' /\ WindowsOwned'
    BY <1>4 DEF Spend, WindowsOwned
  <1>6. CallsTyped'
    BY <1>4, NoCallTyped DEF Spend, Locations
  <1>7. CallsKnow'
    <2> SUFFICES ASSUME NEW u \in Threads
                 PROVE  /\ pc'[u] # "idle" => call'[u].cost \in Costs
                        /\ call'[u].window # 0 => objects'[call'[u].window].key = call'[u].key
                        /\ pc'[u] = "store" => call'[u].cost <= Limit[call'[u].key]
      BY DEF CallsKnow
    <2>1. CASE u = t
      BY <2>1, NoCallTyped DEF Spend
    <2>2. CASE u # t
      <3>1. pc'[u] = pc[u] /\ call'[u] = call[u]
        BY <2>2 DEF Spend
      <3>2. call[u].window # 0 => objects'[call[u].window].key = objects[call[u].window].key
        BY <1>4
      <3>3. QED
        BY <3>1, <3>2 DEF CallsKnow
    <2>3. QED
      BY <2>1, <2>2
  <1>8. NoWindowOverfilled'
    BY <1>1, <1>2, <1>4, ChargedWindow DEF NoWindowOverfilled
  <1>9. granted' \in [Keys -> Nat]
    BY DEF Spend
  <1>10. QED
    BY <1>5, <1>6, <1>7, <1>8, <1>9 DEF Spend

(* A new window: threads that hold the old one keep it.                    *)
LEMMA StoreStep == ASSUME LimitInv, NEW t \in Threads, StoreWindow(t) PROVE LimitInv'
  <1> USE DEF LimitInv, ObjectsTyped, CallsTyped, Goto
  <1> DEFINE w == NewWindow(call[t])
  <1>1. /\ w \in Window /\ w.key = call[t].key
        /\ w.count <= Limit[w.key]
    BY MemoryLimiterAssumption DEF StoreWindow, NewWindow, Window, CallsKnow
  <1>2. objects' = Append(objects, w)
    BY DEF StoreWindow
  <1> HIDE DEF w
  <1>3. /\ objects' \in Seq(Window) /\ Len(objects') = Len(objects) + 1
        /\ objects'[Len(objects')] = w
        /\ \A i \in DOMAIN objects : objects'[i] = objects[i]
        /\ DOMAIN objects' = 1..Len(objects')
    BY <1>1, <1>2
  <1>4. windows' = [windows EXCEPT ![call[t].key] = Len(objects')]
    BY DEF StoreWindow
  <1>5. ObjectsTyped'
    BY <1>3, <1>4
  <1>6. WindowsOwned'
    <2> SUFFICES ASSUME NEW k \in Keys, windows'[k] # 0 PROVE objects'[windows'[k]].key = k
      BY DEF WindowsOwned
    <2>1. CASE k = call[t].key
      BY <1>1, <1>3, <1>4, <2>1
    <2>2. CASE k # call[t].key
      <3>1. windows'[k] = windows[k] /\ windows[k] \in DOMAIN objects
        BY <1>4, <2>2
      <3>2. QED
        BY <1>3, <3>1 DEF WindowsOwned
    <2>3. QED
      BY <2>1, <2>2
  <1>7. CallsTyped'
    BY <1>3, NoCallTyped DEF StoreWindow, Locations
  <1>8. CallsKnow'
    <2> SUFFICES ASSUME NEW u \in Threads
                 PROVE  /\ pc'[u] # "idle" => call'[u].cost \in Costs
                        /\ call'[u].window # 0 => objects'[call'[u].window].key = call'[u].key
                        /\ pc'[u] = "store" => call'[u].cost <= Limit[call'[u].key]
      BY DEF CallsKnow
    <2>1. CASE u = t
      BY <2>1, NoCallTyped DEF StoreWindow
    <2>2. CASE u # t
      <3>1. pc'[u] = pc[u] /\ call'[u] = call[u]
        BY <2>2 DEF StoreWindow
      <3>2. call[u].window # 0 => objects'[call[u].window] = objects[call[u].window]
        BY <1>3
      <3>3. QED
        BY <3>1, <3>2 DEF CallsKnow
    <2>3. QED
      BY <2>1, <2>2
  <1>9. NoWindowOverfilled'
    <2> SUFFICES ASSUME NEW i \in DOMAIN objects'
                 PROVE  objects'[i].count <= Limit[objects'[i].key]
      BY DEF NoWindowOverfilled
    <2>1. CASE i = Len(objects')
      BY <1>1, <1>3, <2>1
    <2>2. CASE i # Len(objects')
      <3>1. i \in DOMAIN objects /\ objects'[i] = objects[i]
        BY <1>3, <2>2
      <3>2. QED
        BY <3>1 DEF NoWindowOverfilled
    <2>3. QED
      BY <2>1, <2>2
  <1>10. granted' \in [Keys -> Nat]
    BY DEF StoreWindow
  <1>11. QED
    BY <1>5, <1>6, <1>7, <1>8, <1>9, <1>10 DEF StoreWindow

LEMMA LimitStep == LimitInv /\ [Next]_vars => LimitInv'
  <1> SUFFICES ASSUME LimitInv, [Next]_vars PROVE LimitInv'
    OBVIOUS
  <1>1. CASE Tick
    BY <1>1 DEF Tick, LimitInv, ObjectsTyped, CallsTyped, WindowsOwned, CallsKnow,
       NoWindowOverfilled
  <1>2. ASSUME NEW t \in Threads, Step(t) PROVE LimitInv'
    BY <1>2, ReadingStep, SpendStep, StoreStep DEF Step
  <1>3. CASE UNCHANGED vars
    BY <1>3 DEF vars, LimitInv, ObjectsTyped, CallsTyped, WindowsOwned, CallsKnow,
       NoWindowOverfilled
  <1>4. QED
    BY <1>1, <1>2, <1>3 DEF Next

(* Every variable keeps its type.                                          *)
THEOREM TypeCorrect == Spec => []TypeOK
  <1>1. LimitInv => TypeOK
    BY DEF LimitInv, ObjectsTyped, CallsTyped, TypeOK
  <1>2. QED
    BY <1>1, LimitInit, LimitStep, PTL DEF Spec

(* No Window object is ever filled past the limit of its key, however many *)
(* threads hold it and however late they come.                             *)
THEOREM WindowsWithinLimit == Spec => []NoWindowOverfilled
  <1>1. LimitInv => NoWindowOverfilled
    BY DEF LimitInv
  <1>2. QED
    BY <1>1, LimitInit, LimitStep, PTL DEF Spec

-----------------------------------------------------------------------------
(* What is admitted for a key is the sum of its objects' counts.           *)
Counts == [i \in DOMAIN objects |-> objects[i].count]

LEMMA CountsTyped ==
  ASSUME LimitInv
  PROVE  /\ \A i \in DOMAIN objects : Counts[i] \in Nat /\ Counts[i] = objects[i].count
         /\ \A k \in Keys : OfKey(k) \subseteq DOMAIN objects /\ IsFiniteSet(OfKey(k))
  <1>1. \A i \in DOMAIN objects : objects[i] \in Window
    BY DEF LimitInv, ObjectsTyped
  <1>2. IsFiniteSet(DOMAIN objects)
    BY FS_Interval DEF LimitInv, ObjectsTyped
  <1>3. \A k \in Keys : OfKey(k) \subseteq DOMAIN objects
    BY DEF OfKey
  <1>4. QED
    BY <1>1, <1>2, <1>3, FS_Subset DEF Counts, Window

LEMMA CountedSpend ==
  ASSUME LimitInv, LimitInv', EveryAdmissionCounted, NEW t \in Threads, Spend(t)
  PROVE  EveryAdmissionCounted'
  <1> DEFINE w == call[t].window
  <1> SUFFICES ASSUME NEW k \in Keys PROVE granted'[k] = CountedIn(OfKey(k))'
    BY DEF EveryAdmissionCounted
  <1>1. /\ w \in DOMAIN objects /\ objects[w].key = call[t].key /\ call[t].cost \in Nat
        /\ call[t].key \in Keys
    <2>1. call[t] \in [key : Keys, cost : Nat, now : Int, window : 0..Len(objects)]
      BY DEF LimitInv, CallsTyped
    <2>2. w # 0
      BY DEF Spend, Expired
    <2>3. objects[w].key = call[t].key
      BY <2>2 DEF LimitInv, CallsKnow
    <2>4. QED
      BY <2>1, <2>2, <2>3 DEF LimitInv, ObjectsTyped
  <1>2. objects' = [objects EXCEPT ![w] = [objects[w] EXCEPT !.count = @ + call[t].cost]]
    BY DEF Spend
  <1>3. objects[w] \in Window
    BY <1>1 DEF LimitInv, ObjectsTyped
  <1> HIDE DEF w
  <1>4. /\ DOMAIN objects' = DOMAIN objects
        /\ \A i \in DOMAIN objects : objects'[i].key = objects[i].key
        /\ \A i \in DOMAIN objects \ {w} : objects'[i] = objects[i]
        /\ objects'[w].count = objects[w].count + call[t].cost
    BY <1>1, <1>2, <1>3, ChargedWindow
  <1>5. OfKey(k)' = OfKey(k)
    BY <1>4 DEF OfKey
  <1>6. /\ \A i \in OfKey(k) : Counts[i] \in Nat /\ Counts'[i] \in Nat
        /\ \A i \in OfKey(k) \ {w} : Counts'[i] = Counts[i]
        /\ Counts'[w] = Counts[w] + call[t].cost
        /\ IsFiniteSet(OfKey(k))
    BY <1>1, <1>4, <1>5, CountsTyped DEF Counts
  <1>7. granted[k] = SumFunctionOnSet(Counts, OfKey(k)) /\ granted[k] \in Nat
    BY DEF EveryAdmissionCounted, CountedIn, Counts, LimitInv
  <1>8. CountedIn(OfKey(k))' = SumFunctionOnSet(Counts', OfKey(k))
    BY <1>5 DEF CountedIn, Counts
  <1>9. CASE k = call[t].key
    <2>1. w \in OfKey(k)
      BY <1>1, <1>9 DEF OfKey
    <2>2. \A i \in OfKey(k) : Counts[i] \in Int /\ Counts'[i] \in Int
      BY <1>6
    <2>3. SumFunctionOnSet(Counts', OfKey(k))
            = SumFunctionOnSet(Counts, OfKey(k)) - Counts[w] + Counts'[w]
      BY <1>6, <2>1, <2>2, SumUpdate
    <2>4. granted'[k] = granted[k] + call[t].cost
      BY <1>9 DEF Spend, LimitInv
    <2>5. QED
      BY <1>1, <1>6, <1>7, <1>8, <2>1, <2>2, <2>3, <2>4
  <1>10. CASE k # call[t].key
    <2>1. \A i \in OfKey(k) : Counts[i] \in Int /\ Counts'[i] = Counts[i]
      BY <1>1, <1>6, <1>10 DEF OfKey
    <2>2. SumFunctionOnSet(Counts', OfKey(k)) = SumFunctionOnSet(Counts, OfKey(k))
      BY <1>6, <2>1, SumSame
    <2>3. granted'[k] = granted[k]
      BY <1>10 DEF Spend, LimitInv
    <2>4. QED
      BY <1>7, <1>8, <2>2, <2>3
  <1>11. QED
    BY <1>9, <1>10

(* What opening a window does to the objects and to those of each key.     *)
LEMMA StoredWindow ==
  ASSUME LimitInv, LimitInv', NEW t \in Threads, StoreWindow(t)
  PROVE  /\ Len(objects') = Len(objects) + 1 /\ Len(objects) \in Nat
         /\ objects'[Len(objects')] = NewWindow(call[t])
         /\ \A i \in DOMAIN objects : objects'[i] = objects[i]
         /\ DOMAIN objects' = DOMAIN objects \cup {Len(objects')}
         /\ Len(objects') \notin DOMAIN objects
         /\ \A k \in Keys :
              OfKey(k)' = IF k = call[t].key THEN OfKey(k) \cup {Len(objects')} ELSE OfKey(k)
         /\ call[t] \in [key : Keys, cost : Nat, now : Int, window : 0..Len(objects)]
  <1> USE DEF LimitInv, ObjectsTyped
  <1>1. objects' = Append(objects, NewWindow(call[t]))
    BY DEF StoreWindow
  <1>2. /\ Len(objects') = Len(objects) + 1 /\ Len(objects) \in Nat
        /\ objects'[Len(objects')] = NewWindow(call[t])
        /\ \A i \in DOMAIN objects : objects'[i] = objects[i]
        /\ DOMAIN objects = 1..Len(objects) /\ DOMAIN objects' = 1..Len(objects')
    BY <1>1
  <1>3. /\ DOMAIN objects' = DOMAIN objects \cup {Len(objects')}
        /\ Len(objects') \notin DOMAIN objects
    BY <1>2
  <1>4. NewWindow(call[t]).key = call[t].key
    BY DEF NewWindow
  <1>5. ASSUME NEW k \in Keys
        PROVE  OfKey(k)' = IF k = call[t].key THEN OfKey(k) \cup {Len(objects')} ELSE OfKey(k)
    <2>1. OfKey(k)' = {i \in DOMAIN objects' : objects'[i].key = k}
      BY DEF OfKey
    <2>2. \A i : i \in OfKey(k)'
            <=> i \in OfKey(k) \/ (k = call[t].key /\ i = Len(objects'))
      BY <1>2, <1>3, <1>4, <2>1 DEF OfKey
    <2>3. QED
      BY <2>2
  <1>6. call[t] \in [key : Keys, cost : Nat, now : Int, window : 0..Len(objects)]
    BY DEF CallsTyped
  <1>7. QED
    BY <1>2, <1>3, <1>5, <1>6

LEMMA CountedStore ==
  ASSUME LimitInv, LimitInv', EveryAdmissionCounted, NEW t \in Threads, StoreWindow(t)
  PROVE  EveryAdmissionCounted'
  <1> SUFFICES ASSUME NEW k \in Keys PROVE granted'[k] = CountedIn(OfKey(k))'
    BY DEF EveryAdmissionCounted
  <1> DEFINE n == Len(objects')
  <1>1. /\ n \notin DOMAIN objects /\ DOMAIN objects' = DOMAIN objects \cup {n}
        /\ objects'[n] = NewWindow(call[t])
        /\ \A i \in DOMAIN objects : objects'[i] = objects[i]
        /\ OfKey(k)' = IF k = call[t].key THEN OfKey(k) \cup {n} ELSE OfKey(k)
        /\ call[t].cost \in Nat
    BY StoredWindow
  <1> HIDE DEF n
  <1>2. /\ \A i \in OfKey(k) : Counts[i] \in Int /\ Counts'[i] = Counts[i]
        /\ Counts'[n] = call[t].cost
        /\ IsFiniteSet(OfKey(k)) /\ n \notin OfKey(k)
    BY <1>1, CountsTyped DEF Counts, NewWindow
  <1>3. granted[k] = SumFunctionOnSet(Counts, OfKey(k)) /\ granted[k] \in Nat
    BY DEF EveryAdmissionCounted, CountedIn, Counts, LimitInv
  <1>4. CountedIn(OfKey(k))' = SumFunctionOnSet(Counts', OfKey(k)')
    BY DEF CountedIn, Counts
  <1>5. SumFunctionOnSet(Counts', OfKey(k)) = SumFunctionOnSet(Counts, OfKey(k))
    BY <1>2, SumSame
  <1>6. CASE k = call[t].key
    <2>1. \A i \in OfKey(k) : Counts'[i] \in Int
      BY <1>2
    <2>2. Counts'[n] \in Int
      BY <1>1, <1>2
    <2>3. SumFunctionOnSet(Counts', OfKey(k) \cup {n})
            = SumFunctionOnSet(Counts', OfKey(k)) + Counts'[n]
      BY <1>2, <2>1, <2>2, SumAdd
    <2>4. granted'[k] = granted[k] + call[t].cost
      BY <1>6 DEF StoreWindow, LimitInv
    <2>5. QED
      BY <1>1, <1>2, <1>3, <1>4, <1>5, <1>6, <2>3, <2>4
  <1>7. CASE k # call[t].key
    <2>1. granted'[k] = granted[k]
      BY <1>7 DEF StoreWindow, LimitInv
    <2>2. QED
      BY <1>1, <1>3, <1>4, <1>5, <1>7, <2>1
  <1>8. QED
    BY <1>6, <1>7

(* The admissions of a key are the sum of its Window objects, forgotten    *)
(* ones included: an object is opened with its first cost and every later  *)
(* one is added to the object that was tested.                             *)
THEOREM AdmissionsCounted == Spec => []EveryAdmissionCounted
  <1>1. Init => EveryAdmissionCounted
    <2> SUFFICES ASSUME Init, NEW k \in Keys PROVE granted[k] = CountedIn(OfKey(k))
      BY DEF EveryAdmissionCounted
    <2>1. OfKey(k) = {}
      BY DEF Init, OfKey
    <2>2. QED
      BY <2>1, SumEmpty DEF Init, CountedIn
  <1>2. LimitInv /\ LimitInv' /\ EveryAdmissionCounted /\ [Next]_vars => EveryAdmissionCounted'
    <2> SUFFICES ASSUME LimitInv, LimitInv', EveryAdmissionCounted, [Next]_vars
                 PROVE  EveryAdmissionCounted'
      OBVIOUS
    <2>1. CASE UNCHANGED <<objects, granted>>
      BY <2>1 DEF EveryAdmissionCounted, CountedIn, OfKey
    <2>2. ASSUME NEW t \in Threads, Step(t) PROVE EveryAdmissionCounted'
      BY <2>1, <2>2, CountedSpend, CountedStore
         DEF Step, Enter, ReadTime, GetWindow, DecideToOpen, Refuse
    <2>3. QED
      BY <2>1, <2>2 DEF Next, Tick, vars
  <1>3. QED
    BY <1>1, <1>2, LimitInit, LimitStep, PTL DEF Spec

-----------------------------------------------------------------------------
(* With a steady clock and prompt calls every reading in use is the time,  *)
(* and the window in the dictionary is the last one opened: while any      *)
(* object of the key is live, that one is, and no further thread finds the *)
(* window over.  So the live objects and the threads still about to open   *)
(* one are together no more than the threads.                              *)
ReadingsCurrent == \A t \in Threads : pc[t] \in {"get", "decide", "store"} => call[t].now = clock

LatestKept ==
  \A k \in Keys : \A i \in OfKey(k) :
    /\ windows[k] # 0
    /\ objects[i].start <= objects[windows[k]].start
    /\ objects[i].start <= clock

Openers(k) ==
  {t \in Threads : /\ call[t].key = k
                   /\ pc[t] = "store" \/ (pc[t] = "decide" /\ Expired(call[t]))}

OneEach(k) == Cardinality(Live(k)) + Cardinality(Openers(k)) <= Cardinality(Threads)

SteadyInv == steady => ReadingsCurrent /\ LatestKept /\ \A k \in Keys : OneEach(k)

LEMMA LiveFinite ==
  ASSUME LimitInv, NEW k \in Keys
  PROVE  /\ IsFiniteSet(Live(k)) /\ IsFiniteSet(Openers(k)) /\ IsFiniteSet(Threads)
         /\ Cardinality(Live(k)) \in Nat /\ Cardinality(Openers(k)) \in Nat
         /\ Cardinality(Threads) \in Nat
         /\ Cardinality(Openers(k)) <= Cardinality(Threads)
  <1>1. IsFiniteSet(OfKey(k)) /\ Live(k) \subseteq OfKey(k)
    BY CountsTyped DEF Live
  <1>2. Openers(k) \subseteq Threads
    BY DEF Openers
  <1> HIDE DEF Live, Openers
  <1>3. QED
    BY <1>1, <1>2, MemoryLimiterAssumption, FS_Subset, FS_CardinalityType

LEMMA StartsTyped == ASSUME LimitInv PROVE \A i \in DOMAIN objects : objects[i].start \in Int
  <1>1. \A i \in DOMAIN objects : objects[i] \in Window
    BY DEF LimitInv, ObjectsTyped
  <1>2. QED
    BY <1>1 DEF Window

(* While an object of the key is live, the window in the dictionary is.    *)
LEMMA LatestLive ==
  ASSUME LimitInv, LatestKept, NEW k \in Keys, Live(k) # {}
  PROVE  windows[k] \in DOMAIN objects /\ clock - objects[windows[k]].start < WindowSeconds
  <1>1. PICK i \in OfKey(k) : clock - objects[i].start < WindowSeconds
    BY DEF Live
  <1>2. windows[k] \in DOMAIN objects
    BY <1>1 DEF LatestKept, LimitInv, ObjectsTyped
  <1>3. i \in DOMAIN objects /\ objects[i].start <= objects[windows[k]].start
    BY <1>1 DEF LatestKept, OfKey
  <1>4. objects[i].start \in Int /\ objects[windows[k]].start \in Int
    BY <1>2, <1>3, StartsTyped
  <1>5. clock \in Int /\ WindowSeconds \in Int
    BY MemoryLimiterAssumption DEF LimitInv
  <1>6. QED
    BY <1>1, <1>2, <1>3, <1>4, <1>5

LEMMA NobodyLive ==
  ASSUME LimitInv, NEW k \in Keys, Live(k) = {}
  PROVE  OneEach(k)
  <1>1. Cardinality(Live(k)) = 0
    BY FS_EmptySet
  <1>2. QED
    BY <1>1, LiveFinite DEF OneEach

LEMMA FewerInside ==
  ASSUME LimitInv, LimitInv', NEW k \in Keys, OneEach(k),
         Live(k)' \subseteq Live(k), Openers(k)' \subseteq Openers(k)
  PROVE  OneEach(k)'
  <1>1. /\ IsFiniteSet(Live(k)) /\ IsFiniteSet(Openers(k))
        /\ Cardinality(Live(k)) \in Nat /\ Cardinality(Openers(k)) \in Nat
        /\ Cardinality(Threads) \in Nat
    BY LiveFinite
  <1>2. /\ Cardinality(Live(k)') <= Cardinality(Live(k))
        /\ Cardinality(Openers(k)') <= Cardinality(Openers(k))
        /\ Cardinality(Live(k)') \in Nat /\ Cardinality(Openers(k)') \in Nat
    BY <1>1, FS_Subset, FS_CardinalityType
  <1>3. OneEach(k)' <=> Cardinality(Live(k)') + Cardinality(Openers(k)') <= Cardinality(Threads)
    BY DEF OneEach
  <1>4. QED
    BY <1>1, <1>2, <1>3 DEF OneEach

(* The clock moves only when nobody is inside, and only forwards.          *)
LEMMA SteadyTick ==
  ASSUME LimitInv, LimitInv', SteadyInv, Tick
  PROVE  SteadyInv'
  <1> SUFFICES ASSUME steady' PROVE (ReadingsCurrent /\ LatestKept /\ \A k \in Keys : OneEach(k))'
    BY DEF SteadyInv
  <1>1. /\ steady /\ clock' >= clock /\ \A t \in Threads : pc[t] = "idle"
        /\ clock \in Int /\ clock' \in Int
        /\ UNCHANGED <<objects, windows, pc, call>>
    BY DEF Tick, Idle, LimitInv
  <1>2. ReadingsCurrent' /\ ReadingsCurrent /\ LatestKept
    BY <1>1 DEF ReadingsCurrent, SteadyInv
  <1>3. \A k \in Keys : OfKey(k)' = OfKey(k) /\ \A i \in OfKey(k) : objects[i].start \in Int
    BY <1>1, StartsTyped DEF OfKey
  <1>4. LatestKept'
    BY <1>1, <1>2, <1>3 DEF LatestKept
  <1>5. ASSUME NEW k \in Keys PROVE OneEach(k)'
    <2>1. Openers(k)' \subseteq Openers(k)
      BY <1>1 DEF Openers
    <2>2. Live(k)' \subseteq Live(k)
      BY <1>1, <1>3, MemoryLimiterAssumption DEF Live
    <2>3. OneEach(k)
      BY <1>1 DEF SteadyInv
    <2>4. QED
      BY <2>1, <2>2, <2>3, FewerInside
  <1>6. QED
    BY <1>2, <1>4, <1>5

(* Steps that open no window: only a thread that finds the window over     *)
(* becomes an opener, and then no object of the key is live.               *)
LEMMA SteadyReading ==
  ASSUME LimitInv, LimitInv', SteadyInv, NEW t \in Threads,
         Enter(t) \/ ReadTime(t) \/ GetWindow(t) \/ DecideToOpen(t) \/ Refuse(t)
  PROVE  SteadyInv'
  <1> USE DEF Goto
  <1> SUFFICES ASSUME steady' PROVE (ReadingsCurrent /\ LatestKept /\ \A k \in Keys : OneEach(k))'
    BY DEF SteadyInv
  <1>1. UNCHANGED <<clock, objects, windows, steady>> /\ steady
    BY DEF Enter, ReadTime, GetWindow, DecideToOpen, Refuse
  <1>2. /\ pc \in [Threads -> Locations]
        /\ call \in [Threads -> [key : Keys, cost : Nat, now : Int, window : 0..Len(objects)]]
    BY DEF LimitInv, CallsTyped
  <1>3. /\ \A u \in Threads \ {t} : pc'[u] = pc[u] /\ call'[u] = call[u]
        /\ pc'[t] \in {"get", "decide", "store"} => call'[t].now = clock
    <2>1. ReadingsCurrent
      BY <1>1 DEF SteadyInv
    <2>2. QED
      BY <1>2, <2>1 DEF ReadingsCurrent, Enter, ReadTime, GetWindow, DecideToOpen, Refuse
  <1>4. ReadingsCurrent'
    BY <1>1, <1>3 DEF ReadingsCurrent, SteadyInv
  <1>5. LatestKept /\ LatestKept' /\ \A k \in Keys : Live(k)' = Live(k)
    BY <1>1 DEF LatestKept, OfKey, SteadyInv, Live
  <1>6. ASSUME NEW k \in Keys PROVE OneEach(k)'
    <2>1. OneEach(k)
      BY <1>1 DEF SteadyInv
    <2>2. CASE Openers(k)' \subseteq Openers(k)
      BY <1>5, <2>1, <2>2, FewerInside
    <2>3. CASE ~ (Openers(k)' \subseteq Openers(k))
      <3>1. PICK u \in Openers(k)' : u \notin Openers(k)
        BY <2>3
      <3>2. u = t /\ call'[t].key = k /\ pc'[t] \in {"decide", "store"}
        BY <1>1, <1>3, <3>1 DEF Openers, Expired
      <3>3. GetWindow(t)
        BY <1>1, <1>2, <3>1, <3>2 DEF Openers, Enter, ReadTime, DecideToOpen, Refuse, Expired
      <3>4. /\ call'[t].window = windows[k] /\ call'[t].now = clock /\ pc'[t] = "decide"
        BY <1>2, <1>3, <3>2, <3>3 DEF GetWindow
      <3>5. windows[k] # 0 => clock - objects[windows[k]].start >= WindowSeconds
        BY <1>1, <3>1, <3>2, <3>4 DEF Openers, Expired
      <3>6. Live(k) = {}
        <4>1. ASSUME windows[k] \in DOMAIN objects,
                     clock - objects[windows[k]].start < WindowSeconds
              PROVE  FALSE
          <5>1. objects[windows[k]].start \in Int /\ clock \in Int /\ WindowSeconds \in Int
            BY <4>1, StartsTyped, MemoryLimiterAssumption DEF LimitInv
          <5>2. windows[k] # 0
            BY <4>1 DEF LimitInv, ObjectsTyped
          <5>3. QED
            BY <3>5, <4>1, <5>1, <5>2
        <4>2. QED
          BY <1>5, <4>1, LatestLive
      <3>7. Live(k)' = {}
        BY <1>5, <3>6
      <3>8. QED
        <4>1. Cardinality(Live(k)') = 0
          BY <3>7, FS_EmptySet
        <4>2. Openers(k)' \subseteq Threads
          BY DEF Openers
        <4>3. /\ Cardinality(Openers(k)') \in Nat /\ Cardinality(Threads) \in Nat
              /\ Cardinality(Openers(k)') <= Cardinality(Threads)
          BY <4>2, MemoryLimiterAssumption, FS_Subset, FS_CardinalityType
        <4>4. QED
          BY <4>1, <4>3 DEF OneEach
    <2>4. QED
      BY <2>2, <2>3
  <1>7. QED
    BY <1>4, <1>5, <1>6

LEMMA SteadySpend ==
  ASSUME LimitInv, LimitInv', SteadyInv, NEW t \in Threads, Spend(t)
  PROVE  SteadyInv'
  <1> USE DEF Goto
  <1> SUFFICES ASSUME steady' PROVE (ReadingsCurrent /\ LatestKept /\ \A k \in Keys : OneEach(k))'
    BY DEF SteadyInv
  <1>1. UNCHANGED <<clock, windows, steady>> /\ steady
    BY DEF Spend
  <1>2. /\ pc \in [Threads -> Locations]
        /\ call \in [Threads -> [key : Keys, cost : Nat, now : Int, window : 0..Len(objects)]]
    BY DEF LimitInv, CallsTyped
  <1>3. /\ \A u \in Threads \ {t} : pc'[u] = pc[u] /\ call'[u] = call[u]
        /\ pc'[t] = "idle"
    BY <1>2 DEF Spend
  <1>4. ReadingsCurrent'
    BY <1>1, <1>3 DEF ReadingsCurrent, SteadyInv
  <1>5. /\ DOMAIN objects' = DOMAIN objects
        /\ \A i \in DOMAIN objects :
             objects'[i].start = objects[i].start /\ objects'[i].key = objects[i].key
    <2> DEFINE w == call[t].window
    <2>1. w \in DOMAIN objects /\ objects[w] \in Window
      BY <1>2 DEF Spend, Expired, LimitInv, ObjectsTyped
    <2>2. objects' = [objects EXCEPT ![w] = [objects[w] EXCEPT !.count = @ + call[t].cost]]
      BY DEF Spend
    <2> HIDE DEF w
    <2>3. QED
      BY <2>1, <2>2 DEF Window
  <1>6. LatestKept
    BY <1>1 DEF SteadyInv
  <1>7. \A k \in Keys : OfKey(k)' = OfKey(k) /\ Live(k)' = Live(k)
    BY <1>1, <1>5 DEF OfKey, Live
  <1>8. LatestKept'
    <2> SUFFICES ASSUME NEW k \in Keys, NEW i \in OfKey(k)
                 PROVE  /\ windows[k] # 0
                        /\ objects'[i].start <= objects'[windows[k]].start
                        /\ objects'[i].start <= clock
      BY <1>1, <1>7 DEF LatestKept
    <2>1. i \in DOMAIN objects /\ windows[k] # 0
      BY <1>6 DEF OfKey, LatestKept
    <2>2. windows[k] \in DOMAIN objects
      BY <2>1 DEF LimitInv, ObjectsTyped
    <2>3. QED
      BY <1>5, <1>6, <2>1, <2>2 DEF LatestKept
  <1>9. ASSUME NEW k \in Keys PROVE OneEach(k)'
    <2>1. Openers(k)' \subseteq Openers(k)
      <3> SUFFICES ASSUME NEW u \in Openers(k)' PROVE u \in Openers(k)
        OBVIOUS
      <3>1. u \in Threads \ {t} /\ pc[u] = pc'[u] /\ call'[u] = call[u]
        BY <1>3 DEF Openers
      <3>2. Expired(call[u])' => Expired(call[u])
        <4>1. call[u].window # 0 => call[u].window \in DOMAIN objects
          <5>1. call[u] \in [key : Keys, cost : Nat, now : Int, window : 0..Len(objects)]
            BY <1>2, <3>1 DEF LimitInv, CallsTyped
          <5>2. Len(objects) \in Nat /\ DOMAIN objects = 1..Len(objects)
            BY <1>2 DEF LimitInv, ObjectsTyped
          <5>3. QED
            BY <5>1, <5>2
        <4>2. QED
          BY <1>5, <3>1, <4>1 DEF Expired
      <3>3. QED
        BY <3>1, <3>2 DEF Openers
    <2>2. QED
      BY <1>1, <1>7, <2>1, FewerInside DEF SteadyInv
  <1>10. QED
    BY <1>4, <1>8, <1>9

(* The thread that opens a window is an opener no more.                    *)
LEMMA SteadyStore ==
  ASSUME LimitInv, LimitInv', SteadyInv, NEW t \in Threads, StoreWindow(t)
  PROVE  SteadyInv'
  <1> USE DEF Goto
  <1> DEFINE n == Len(objects')
  <1> SUFFICES ASSUME steady' PROVE (ReadingsCurrent /\ LatestKept /\ \A k \in Keys : OneEach(k))'
    BY DEF SteadyInv
  <1>1. /\ n \notin DOMAIN objects /\ DOMAIN objects' = DOMAIN objects \cup {n} /\ n # 0
        /\ objects'[n] = NewWindow(call[t])
        /\ \A i \in DOMAIN objects : objects'[i] = objects[i]
        /\ \A k \in Keys : OfKey(k)' = IF k = call[t].key THEN OfKey(k) \cup {n} ELSE OfKey(k)
        /\ windows' = [windows EXCEPT ![call[t].key] = n]
    <2>1. n # 0
      BY StoredWindow
    <2>2. windows' = [windows EXCEPT ![call[t].key] = n]
      BY DEF StoreWindow
    <2>3. QED
      BY <2>1, <2>2, StoredWindow
  <1> HIDE DEF n
  <1>2. /\ UNCHANGED <<clock, steady>> /\ steady /\ pc[t] = "store"
        /\ clock \in Int /\ WindowSeconds \in Nat \ {0}
    BY MemoryLimiterAssumption DEF StoreWindow, LimitInv
  <1>3. /\ pc \in [Threads -> Locations]
        /\ call \in [Threads -> [key : Keys, cost : Nat, now : Int, window : 0..Len(objects)]]
    BY DEF LimitInv, CallsTyped
  <1>4. /\ \A u \in Threads \ {t} : pc'[u] = pc[u] /\ call'[u] = call[u]
        /\ pc'[t] = "idle"
    BY <1>3 DEF StoreWindow
  <1>5. ReadingsCurrent' /\ call[t].now = clock /\ LatestKept
    BY <1>2, <1>4 DEF ReadingsCurrent, SteadyInv
  <1>6. objects'[n].start = clock
    BY <1>1, <1>5 DEF NewWindow
  <1>7. LatestKept'
    <2> SUFFICES ASSUME NEW k \in Keys, NEW i \in OfKey(k)'
                 PROVE  /\ windows'[k] # 0
                        /\ objects'[i].start <= objects'[windows'[k]].start
                        /\ objects'[i].start <= clock
      BY <1>2 DEF LatestKept
    <2>1. i \in OfKey(k) => i \in DOMAIN objects /\ objects'[i].start = objects[i].start
      BY <1>1 DEF OfKey
    <2>2. windows \in [Keys -> 0..Len(objects)] /\ objects \in Seq(Window)
      BY DEF LimitInv, ObjectsTyped
    <2>3. CASE k = call[t].key
      <3>1. windows'[k] = n /\ (i = n \/ i \in OfKey(k))
        BY <1>1, <2>2, <2>3
      <3>2. objects'[i].start <= clock
        BY <1>2, <1>5, <1>6, <2>1, <3>1 DEF LatestKept
      <3>3. QED
        BY <1>1, <1>6, <3>1, <3>2
    <2>4. CASE k # call[t].key
      <3>1. windows'[k] = windows[k] /\ i \in OfKey(k)
        BY <1>1, <2>2, <2>4
      <3>2. windows[k] # 0 /\ windows[k] \in DOMAIN objects
        BY <1>5, <2>2, <3>1 DEF LatestKept
      <3>3. QED
        BY <1>1, <1>5, <2>1, <3>1, <3>2 DEF LatestKept
    <2>5. QED
      BY <2>3, <2>4
  <1>8. ASSUME NEW k \in Keys PROVE OneEach(k)'
    <2>1. OneEach(k)
      BY <1>2 DEF SteadyInv
    <2>2. \A u \in Openers(k)' : u \in Openers(k) /\ u # t
      <3> SUFFICES ASSUME NEW u \in Openers(k)' PROVE u \in Openers(k) /\ u # t
        OBVIOUS
      <3>1. u \in Threads \ {t} /\ pc[u] = pc'[u] /\ call'[u] = call[u]
        BY <1>4 DEF Openers
      <3>2. Expired(call[u])' => Expired(call[u])
        <4>1. call[u].window # 0 => call[u].window \in DOMAIN objects
          <5>1. call[u] \in [key : Keys, cost : Nat, now : Int, window : 0..Len(objects)]
            BY <1>3, <3>1 DEF LimitInv, CallsTyped
          <5>2. Len(objects) \in Nat /\ DOMAIN objects = 1..Len(objects)
            BY <1>3 DEF LimitInv, ObjectsTyped
          <5>3. QED
            BY <5>1, <5>2
        <4>2. QED
          BY <1>1, <3>1, <4>1 DEF Expired
      <3>3. QED
        BY <3>1, <3>2 DEF Openers
    <2>3. CASE k # call[t].key
      <3>1. OfKey(k)' = OfKey(k) /\ OfKey(k) \subseteq DOMAIN objects
        BY <1>1, <2>3 DEF OfKey
      <3>2. Live(k)' \subseteq Live(k)
        BY <1>1, <1>2, <3>1 DEF Live
      <3>3. QED
        BY <2>1, <2>2, <3>2, FewerInside
    <2>4. CASE k = call[t].key
      <3>1. /\ IsFiniteSet(Live(k)) /\ IsFiniteSet(Openers(k))
            /\ Cardinality(Live(k)) \in Nat /\ Cardinality(Openers(k)) \in Nat
            /\ Cardinality(Threads) \in Nat
        BY LiveFinite
      <3>2. Live(k)' \subseteq Live(k) \cup {n}
        BY <1>1, <1>2, <2>4 DEF Live, OfKey
      <3>3. n \notin Live(k)
        BY <1>1 DEF Live, OfKey
      <3>4. t \in Openers(k) /\ Openers(k)' \subseteq Openers(k) \ {t}
        BY <1>2, <2>2, <2>4 DEF Openers
      <3>5. Cardinality(Live(k) \cup {n}) = Cardinality(Live(k)) + 1
              /\ IsFiniteSet(Live(k) \cup {n})
        BY <3>1, <3>3, FS_AddElement
      <3>6. Cardinality(Openers(k) \ {t}) = Cardinality(Openers(k)) - 1
              /\ IsFiniteSet(Openers(k) \ {t})
        BY <3>1, <3>4, FS_RemoveElement
      <3>7. /\ Cardinality(Live(k)') <= Cardinality(Live(k)) + 1
            /\ Cardinality(Openers(k)') <= Cardinality(Openers(k)) - 1
            /\ Cardinality(Live(k)') \in Nat /\ Cardinality(Openers(k)') \in Nat
        BY <3>2, <3>4, <3>5, <3>6, FS_Subset, FS_CardinalityType
      <3>8. OneEach(k)' <=> Cardinality(Live(k)') + Cardinality(Openers(k)') <= Cardinality(Threads)
        BY DEF OneEach
      <3>9. QED
        BY <2>1, <3>1, <3>7, <3>8 DEF OneEach
    <2>5. QED
      BY <2>3, <2>4
  <1>9. QED
    BY <1>5, <1>7, <1>8

LEMMA SteadyStep == LimitInv /\ LimitInv' /\ SteadyInv /\ [Next]_vars => SteadyInv'
  <1> SUFFICES ASSUME LimitInv, LimitInv', SteadyInv, [Next]_vars PROVE SteadyInv'
    OBVIOUS
  <1>1. ASSUME NEW t \in Threads, Step(t) PROVE SteadyInv'
    BY <1>1, SteadyReading, SteadySpend, SteadyStore DEF Step
  <1>2. CASE UNCHANGED vars
    BY <1>2 DEF vars, SteadyInv, ReadingsCurrent, LatestKept, OneEach, Live, OfKey, Openers,
       Expired
  <1>3. QED
    BY <1>1, <1>2, SteadyTick DEF Next

LEMMA SteadyInit == Init => SteadyInv
  <1> SUFFICES ASSUME Init PROVE ReadingsCurrent /\ LatestKept /\ \A k \in Keys : OneEach(k)
    BY DEF SteadyInv
  <1>1. \A k \in Keys : OfKey(k) = {} /\ Live(k) = {}
    BY DEF Init, OfKey, Live
  <1>2. QED
    BY <1>1, LimitInit, NobodyLive DEF Init, ReadingsCurrent, LatestKept

(* The missing lock costs at most one window per thread: with a steady     *)
(* clock and prompt calls what is admitted for a key in a window's length  *)
(* is at most the limit, once for each thread.                             *)
THEOREM OneWindowPerThread == Spec => []OvershootBounded
  <1>1. LimitInv /\ SteadyInv => OvershootBounded
    <2> SUFFICES ASSUME LimitInv, SteadyInv, steady, NEW k \in Keys
                 PROVE  CountedIn(Live(k)) <= Cardinality(Threads) * Limit[k]
      BY DEF OvershootBounded
    <2>1. /\ IsFiniteSet(Live(k)) /\ Cardinality(Live(k)) \in Nat
          /\ Cardinality(Openers(k)) \in Nat /\ Cardinality(Threads) \in Nat
      BY LiveFinite
    <2>2. Cardinality(Live(k)) <= Cardinality(Threads) /\ Limit[k] \in Nat
      BY <2>1, MemoryLimiterAssumption DEF SteadyInv, OneEach
    <2>3. \A i \in Live(k) : Counts[i] \in Nat /\ Counts[i] <= Limit[k]
      BY CountsTyped DEF Live, OfKey, LimitInv, NoWindowOverfilled
    <2>4. SumFunctionOnSet(Counts, Live(k)) <= Cardinality(Live(k)) * Limit[k]
      BY <2>1, <2>2, <2>3, SumBounded
    <2>5. SumFunctionOnSet(Counts, Live(k)) \in Int
      BY <2>1, <2>3, SumInt
    <2>6. Cardinality(Live(k)) * Limit[k] <= Cardinality(Threads) * Limit[k]
      BY <2>1, <2>2
    <2>7. QED
      BY <2>1, <2>2, <2>4, <2>5, <2>6 DEF CountedIn, Counts
  <1>2. QED
    BY <1>1, LimitInit, LimitStep, SteadyInit, SteadyStep, PTL DEF Spec

-----------------------------------------------------------------------------
(* What a thread that was alone since it entered still knows: the reading  *)
(* it decides on is the latest, the window it got is the one the key has,  *)
(* and a window found over stays over until it is replaced.                *)
AloneKnows(t) ==
  /\ pc[t] \in {"get", "decide", "store"} => reading = call[t].now
  /\ pc[t] \in {"decide", "store"} => call[t].window = windows[call[t].key]
  /\ pc[t] = "store" => Expired(call[t])

AloneInv ==
  /\ reading \in Int
  /\ alone => OneInside /\ \A t \in Threads : AloneKnows(t)

LEMMA HistoryMoves == HistoryNext => Next
  <1> SUFFICES ASSUME HistoryNext PROVE Next
    OBVIOUS
  <1>1. Tick \/ \E t \in Threads : HistoryStep(t)
    BY DEF HistoryNext
  <1>2. QED
    BY <1>1 DEF HistoryStep, Step, Next

LEMMA AloneInit == HistoryInit => LimitInv /\ AloneInv
  <1> SUFFICES ASSUME HistoryInit PROVE LimitInv /\ AloneInv
    OBVIOUS
  <1>1. LimitInv /\ reading \in Int
    BY LimitInit DEF HistoryInit, LimitInv
  <1>2. OneInside /\ \A t \in Threads : AloneKnows(t)
    BY DEF HistoryInit, Init, OneInside, Idle, AloneKnows
  <1>3. QED
    BY <1>1, <1>2 DEF AloneInv

(* Only the thread that moved can be inside, if it is still alone.         *)
LEMMA OnlyMover ==
  ASSUME LimitInv, AloneInv, alone, OneInside', NEW t \in Threads, Step(t),
         NEW u \in Threads, u # t
  PROVE  pc'[u] = "idle"
  <1> USE DEF Goto
  <1>1. pc'[u] = pc[u] /\ (pc[t] = "idle" => pc'[t] = "time")
    BY DEF Step, Enter, ReadTime, GetWindow, DecideToOpen, Refuse, Spend, StoreWindow,
       LimitInv, CallsTyped
  <1>2. CASE pc[t] # "idle"
    BY <1>1, <1>2 DEF AloneInv, OneInside, Idle
  <1>3. CASE pc[t] = "idle"
    BY <1>1, <1>3 DEF OneInside, Idle
  <1>4. QED
    BY <1>2, <1>3

LEMMA MoverKnows ==
  ASSUME LimitInv, AloneInv, alone, NEW t \in Threads, HistoryStep(t)
  PROVE  AloneKnows(t)'
  <1> USE DEF LimitInv, ObjectsTyped, CallsTyped, Goto
  <1>1. AloneKnows(t)
    BY DEF AloneInv
  <1>2. CASE Enter(t)
    BY <1>2 DEF Enter, AloneKnows
  <1>3. CASE ReadTime(t) /\ reading' = clock
    BY <1>3 DEF ReadTime, AloneKnows
  <1>4. CASE GetWindow(t) /\ UNCHANGED reading
    <2>1. /\ pc'[t] = "decide" /\ windows' = windows
          /\ call'[t].window = windows[call[t].key]
          /\ call'[t].key = call[t].key /\ call'[t].now = call[t].now
      BY <1>4 DEF GetWindow
    <2>2. QED
      BY <1>1, <1>4, <2>1 DEF AloneKnows, GetWindow
  <1>5. CASE DecideToOpen(t) /\ UNCHANGED reading
    BY <1>1, <1>5 DEF DecideToOpen, AloneKnows, Expired
  <1>6. CASE Refuse(t) \/ Spend(t) \/ StoreWindow(t)
    BY <1>6 DEF Refuse, Spend, StoreWindow, AloneKnows
  <1>7. QED
    BY <1>2, <1>3, <1>4, <1>5, <1>6 DEF HistoryStep

LEMMA AloneStep == LimitInv /\ AloneInv /\ [HistoryNext]_historyVars => AloneInv'
  <1> SUFFICES ASSUME LimitInv, AloneInv, [HistoryNext]_historyVars PROVE AloneInv'
    OBVIOUS
  <1>1. CASE HistoryNext
    <2>1. reading' \in Int
      BY <1>1 DEF HistoryNext, HistoryStep, AloneInv, LimitInv
    <2>2. ASSUME NobodyInside' PROVE OneInside' /\ \A t \in Threads : AloneKnows(t)'
      BY <2>2 DEF NobodyInside, OneInside, Idle, AloneKnows
    <2>3. ASSUME alone, OneInside' PROVE \A t \in Threads : AloneKnows(t)'
      <3>1. CASE Tick /\ UNCHANGED <<reading, verdict>>
        BY <2>3, <3>1 DEF Tick, AloneInv, AloneKnows, Expired
      <3>2. CASE \E t \in Threads : HistoryStep(t)
        <4>1. PICK t \in Threads : HistoryStep(t)
          BY <3>2
        <4>2. Step(t)
          BY <4>1 DEF HistoryStep, Step
        <4>3. AloneKnows(t)'
          BY <2>3, <4>1, MoverKnows
        <4>4. ASSUME NEW u \in Threads, u # t PROVE AloneKnows(u)'
          BY <2>3, <4>2, <4>4, OnlyMover DEF AloneKnows
        <4>5. QED
          BY <4>3, <4>4
      <3>3. QED
        BY <1>1, <3>1, <3>2 DEF HistoryNext
    <2>4. QED
      BY <1>1, <2>1, <2>2, <2>3 DEF HistoryNext, AloneInv
  <1>2. CASE UNCHANGED historyVars
    BY <1>2 DEF historyVars, vars, AloneInv, AloneKnows, OneInside, Idle, Expired
  <1>3. QED
    BY <1>1, <1>2

(* The window a thread alone decides about is the abstract one.            *)
LEMMA SameWindow ==
  ASSUME LimitInv, AloneInv, alone, NEW t \in Threads, pc[t] \in {"decide", "store"}
  PROVE  /\ call[t].key \in Keys /\ call[t].cost \in Costs /\ call[t].cost \in Nat
         /\ call[t].window = windows[call[t].key]
         /\ call[t].window # 0 => call[t].window \in DOMAIN objects
         /\ Budget!Over(call[t].key) <=> Expired(call[t])
         /\ Budget!Spent(call[t].key) =
              IF Expired(call[t]) THEN 0 ELSE objects[call[t].window].count
  <1> USE DEF LimitInv, ObjectsTyped, CallsTyped
  <1>1. call[t] \in [key : Keys, cost : Nat, now : Int, window : 0..Len(objects)]
    OBVIOUS
  <1>2. call[t].cost \in Costs
    BY DEF CallsKnow
  <1>3. call[t].window = windows[call[t].key] /\ reading = call[t].now
    BY DEF AloneInv, AloneKnows
  <1>4. Budget!Over(call[t].key) <=> Expired(call[t])
    BY <1>1, <1>3 DEF Budget!Over, Expired
  <1>5. Expired(call[t]) \/ call[t].window # 0
    BY DEF Expired
  <1>6. Budget!Spent(call[t].key) =
          IF Expired(call[t]) THEN 0 ELSE objects[call[t].window].count
    BY <1>1, <1>3, <1>4, <1>5 DEF Budget!Spent
  <1>7. QED
    BY <1>1, <1>2, <1>3, <1>4, <1>6

LEMMA FitsAsDecided ==
  ASSUME LimitInv, AloneInv, alone, NEW t \in Threads, pc[t] \in {"decide", "store"}
  PROVE  Budget!Fits(call[t].key, call[t].cost) <=> ~ Overdrawn(call[t])
  <1>1. /\ call[t].key \in Keys /\ call[t].cost \in Nat
        /\ call[t].window # 0 => call[t].window \in DOMAIN objects
        /\ Budget!Spent(call[t].key) =
              IF Expired(call[t]) THEN 0 ELSE objects[call[t].window].count
    BY SameWindow
  <1>2. Limit[call[t].key] \in Nat
    BY <1>1, MemoryLimiterAssumption
  <1>3. CASE Expired(call[t])
    BY <1>1, <1>2, <1>3 DEF Budget!Fits, Overdrawn
  <1>4. CASE ~ Expired(call[t])
    <2>1. objects[call[t].window] \in Window
      BY <1>1, <1>4 DEF Expired, LimitInv, ObjectsTyped
    <2>2. objects[call[t].window].count \in Nat
      BY <2>1 DEF Window
    <2>3. QED
      BY <1>1, <1>2, <1>4, <2>2 DEF Budget!Fits, Overdrawn
  <1>5. QED
    BY <1>3, <1>4

LEMMA RefuseRefines ==
  ASSUME LimitInv, AloneInv, alone, NEW t \in Threads,
         Refuse(t), Answer(t, FALSE), UNCHANGED reading
  PROVE  Budget!Next
  <1>1. pc[t] = "decide" /\ Overdrawn(call[t]) /\ UNCHANGED <<objects, windows>>
    BY DEF Refuse, Goto
  <1>2. PICK k \in Keys, c \in Costs : k = call[t].key /\ c = call[t].cost
    BY <1>1, SameWindow
  <1>3. ~ Budget!Fits(k, c)
    BY <1>1, <1>2, FitsAsDecided
  <1>4. Budget!Refuse(k, c)
    BY <1>1, <1>2, <1>3 DEF Budget!Refuse, Answer
  <1>5. QED
    BY <1>4 DEF Budget!Next

LEMMA SpendRefines ==
  ASSUME LimitInv, AloneInv, alone, NEW t \in Threads,
         Spend(t), Answer(t, TRUE), UNCHANGED reading
  PROVE  Budget!Next
  <1> USE DEF LimitInv, ObjectsTyped
  <1> DEFINE w == call[t].window
             W(x) == IF windows[x] = 0 THEN [open |-> FALSE]
                     ELSE [open |-> TRUE, start |-> objects[windows[x]].start,
                           spent |-> objects[windows[x]].count]
  <1>1. pc[t] = "decide" /\ ~ Overdrawn(call[t]) /\ ~ Expired(call[t])
    BY DEF Spend, Goto
  <1>0. PICK k \in Keys, c \in Costs : k = call[t].key /\ c = call[t].cost
    BY <1>1, SameWindow
  <1>2. /\ c \in Nat /\ w # 0 /\ w = windows[k]
        /\ w \in DOMAIN objects /\ Budget!Fits(k, c) /\ ~ Budget!Over(k)
        /\ Budget!Spent(k) = objects[w].count
    BY <1>0, <1>1, SameWindow, FitsAsDecided DEF Expired
  <1>3. /\ windows' = windows
        /\ objects' = [objects EXCEPT ![w] = [objects[w] EXCEPT !.count = @ + c]]
    BY <1>0 DEF Spend
  <1>4. objects[w] \in Window
    BY <1>2
  <1>5. /\ objects'[w].start = objects[w].start
        /\ objects'[w].count = objects[w].count + c
        /\ \A i \in DOMAIN objects \ {w} : objects'[i] = objects[i]
    BY <1>2, <1>3, <1>4 DEF Window
  <1>6. \A x \in Keys : x # k /\ windows[x] # 0 => windows[x] # w
    BY <1>0, <1>2 DEF WindowsOwned, CallsKnow
  <1>7. \A x \in Keys :
          W(x)' = IF x = k THEN Budget!Opened(objects[w].start, objects[w].count + c) ELSE W(x)
    <2> SUFFICES ASSUME NEW x \in Keys
                 PROVE  W(x)' = IF x = k
                                THEN Budget!Opened(objects[w].start, objects[w].count + c)
                                ELSE W(x)
      OBVIOUS
    <2>1. CASE x = k
      BY <1>2, <1>3, <1>5, <2>1 DEF Budget!Opened
    <2>2. CASE x # k
      <3>1. windows'[x] = windows[x] /\ (windows[x] # 0 => windows[x] \in DOMAIN objects \ {w})
        BY <1>3, <1>6, <2>2
      <3>2. windows[x] # 0 => objects'[windows[x]] = objects[windows[x]]
        BY <1>5, <3>1
      <3>3. QED
        BY <2>2, <3>1, <3>2
    <2>3. QED
      BY <2>1, <2>2
  <1>8. W(k).start = objects[w].start
    BY <1>2
  <1> DEFINE win == [x \in Keys |-> W(x)]
  <1>9. win' = [win EXCEPT ![k] = Budget!Opened(W(k).start, objects[w].count + c)]
    BY <1>2, <1>7, <1>8
  <1>10. Budget!Admit(k, c)
    <2>1. win[k] = W(k)
      BY <1>2
    <2>2. QED
      BY <1>0, <1>2, <1>9, <2>1 DEF Budget!Admit, Answer
  <1>11. QED
    BY <1>10 DEF Budget!Next

LEMMA StoreRefines ==
  ASSUME LimitInv, AloneInv, alone, NEW t \in Threads,
         StoreWindow(t), Answer(t, TRUE), UNCHANGED reading
  PROVE  Budget!Next
  <1> USE DEF LimitInv, ObjectsTyped
  <1> DEFINE W(x) == IF windows[x] = 0 THEN [open |-> FALSE]
                     ELSE [open |-> TRUE, start |-> objects[windows[x]].start,
                           spent |-> objects[windows[x]].count]
             win == [x \in Keys |-> W(x)]
  <1>1. pc[t] = "store" /\ Expired(call[t]) /\ reading = call[t].now
    BY DEF StoreWindow, Goto, AloneInv, AloneKnows
  <1>0. PICK k \in Keys, c \in Costs : k = call[t].key /\ c = call[t].cost
    BY <1>1, SameWindow
  <1>2. c \in Nat /\ Budget!Over(k) /\ Budget!Spent(k) = 0
    BY <1>0, <1>1, SameWindow
  <1>3. c <= Limit[k] /\ Limit[k] \in Nat
    BY <1>0, <1>1, MemoryLimiterAssumption DEF CallsKnow
  <1>4. Budget!Fits(k, c)
    BY <1>2, <1>3 DEF Budget!Fits
  <1>5. /\ objects' = Append(objects, NewWindow(call[t]))
        /\ windows' = [windows EXCEPT ![k] = Len(objects')]
    BY <1>0 DEF StoreWindow
  <1>6. /\ Len(objects') = Len(objects) + 1 /\ Len(objects) \in Nat
        /\ objects'[Len(objects')] = NewWindow(call[t])
        /\ \A i \in DOMAIN objects : objects'[i] = objects[i]
    BY <1>5
  <1>7. \A x \in Keys : W(x)' = IF x = k THEN Budget!Opened(reading, c) ELSE W(x)
    <2> SUFFICES ASSUME NEW x \in Keys
                 PROVE  W(x)' = IF x = k THEN Budget!Opened(reading, c) ELSE W(x)
      OBVIOUS
    <2>1. CASE x = k
      <3>1. windows'[x] = Len(objects') /\ Len(objects') # 0
        BY <1>5, <1>6, <2>1
      <3>2. objects'[windows'[x]].start = reading /\ objects'[windows'[x]].count = c
        BY <1>0, <1>1, <1>6, <3>1 DEF NewWindow
      <3>3. QED
        BY <2>1, <3>1, <3>2 DEF Budget!Opened
    <2>2. CASE x # k
      <3>1. windows'[x] = windows[x]
        BY <1>5, <2>2
      <3>2. windows[x] # 0 => windows[x] \in DOMAIN objects
        OBVIOUS
      <3>3. QED
        BY <1>6, <2>2, <3>1, <3>2
    <2>3. QED
      BY <2>1, <2>2
  <1>8. win' = [win EXCEPT ![k] = Budget!Opened(reading, c)]
    BY <1>2, <1>7
  <1>9. Budget!Admit(k, c)
    <2>1. 0 + c = c
      BY <1>2
    <2>2. QED
      BY <1>0, <1>2, <1>4, <1>8, <2>1 DEF Budget!Admit, Answer
  <1>10. QED
    BY <1>9 DEF Budget!Next

(* A call that meets no other in allow() is decided as the abstract fixed  *)
(* window says, with any number of threads and whatever raced before it.   *)
THEOREM BudgetImplemented == HistorySpec => ImplementsBudget
  <1>1. HistoryInit => Budget!Init
    <2> SUFFICES ASSUME HistoryInit PROVE Budget!Init
      OBVIOUS
    <2>1. reading \in Int /\ \A k \in Keys : windows[k] = 0
      BY DEF HistoryInit, Init
    <2>2. QED
      BY <2>1 DEF HistoryInit, Budget!Init, Budget!NoWindow
  <1>2. LimitInv /\ AloneInv /\ [HistoryNext]_historyVars
          => [alone => Budget!Next]_(Budget!budgetVars)
    <2> SUFFICES ASSUME LimitInv, AloneInv, [HistoryNext]_historyVars, alone
                 PROVE  Budget!Next \/ UNCHANGED Budget!budgetVars
      OBVIOUS
    <2>1. CASE UNCHANGED historyVars
      BY <2>1 DEF historyVars, vars, Budget!budgetVars
    <2>2. CASE Tick /\ UNCHANGED <<reading, verdict>>
      BY <2>2 DEF Tick, Budget!budgetVars
    <2>3. ASSUME NEW t \in Threads, HistoryStep(t)
          PROVE  Budget!Next \/ UNCHANGED Budget!budgetVars
      <3>1. CASE (Enter(t) \/ GetWindow(t) \/ DecideToOpen(t)) /\ UNCHANGED <<reading, verdict>>
        BY <3>1 DEF Enter, GetWindow, DecideToOpen, Budget!budgetVars
      <3>2. CASE ReadTime(t) /\ reading' = clock /\ UNCHANGED verdict
        BY <3>2 DEF ReadTime, LimitInv, Budget!Next, Budget!ReadClock
      <3>3. CASE Refuse(t) /\ Answer(t, FALSE) /\ UNCHANGED reading
        BY <3>3, RefuseRefines
      <3>4. CASE (Spend(t) \/ StoreWindow(t)) /\ Answer(t, TRUE) /\ UNCHANGED reading
        BY <3>4, SpendRefines, StoreRefines
      <3>5. QED
        BY <2>3, <3>1, <3>2, <3>3, <3>4 DEF HistoryStep
    <2>4. QED
      BY <2>1, <2>2, <2>3 DEF HistoryNext
  <1>3. LimitInv /\ [HistoryNext]_historyVars => LimitInv'
    BY LimitStep, HistoryMoves DEF historyVars, vars
  <1>4. QED
    BY <1>1, <1>2, <1>3, AloneInit, AloneStep, PTL DEF HistorySpec, ImplementsBudget
=============================================================================
