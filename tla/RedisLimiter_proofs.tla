------------------------- MODULE RedisLimiter_proofs -------------------------
(***************************************************************************)
(* Theorems about RedisLimiter, for any callers, keys, costs and limits,   *)
(* any window length, any skew up to it, and any delays and resends.       *)
(***************************************************************************)
EXTENDS RedisLimiter, SumTheorems

LEMMA QuotientMonotone ==
  ASSUME NEW a \in Nat, NEW b \in Nat, NEW n \in Nat \ {0}, a <= b
  PROVE  a \div n \in Nat /\ a \div n <= b \div n
  <1>1. a \div n \in Int /\ a \div n >= 0
    OBVIOUS
  <1>2. a \div n <= b \div n
    BY SMTT(20)
  <1>3. QED
    BY <1>1, <1>2

LEMMA EpochsBounded ==
  ASSUME NEW a \in Nat, NEW b \in Nat, a <= b
  PROVE  EpochOf(a) \in 0..EpochOf(b)
  <1>1. EpochOf(a) \in Nat /\ EpochOf(a) <= EpochOf(b)
    BY QuotientMonotone, RedisLimiterAssumption DEF EpochOf
  <1>2. EpochOf(b) \in Nat
    BY QuotientMonotone, RedisLimiterAssumption DEF EpochOf
  <1>3. QED
    BY <1>1, <1>2

LEMMA NoCallTyped == NoCall \in Call
  <1>1. 0 \in 0..LastEpoch
    BY QuotientMonotone, RedisLimiterAssumption DEF LastEpoch, EpochOf
  <1>2. QED
    BY <1>1, RedisLimiterAssumption DEF NoCall, AnyKey, Call

LEMMA SentTyped ==
  ASSUME NEW x \in Call, NEW k \in Keys, NEW cost \in Nat, NEW e \in 0..LastEpoch,
         NEW at \in Nat
  PROVE  [x EXCEPT !.key = k, !.cost = cost, !.epoch = e, !.since = at] \in Call
  BY DEF Call

LEMMA ResentTyped ==
  ASSUME NEW x \in Call
  PROVE  [x EXCEPT !.sends = @ + 1, !.admitted = FALSE] \in Call
  <1>1. x.sends + 1 \in Nat
    BY DEF Call
  <1>2. [x EXCEPT !.sends = x.sends + 1] \in Call
    BY <1>1 DEF Call
  <1>3. \A y \in Call : [y EXCEPT !.admitted = FALSE] \in Call
    BY DEF Call
  <1>4. QED
    BY <1>2, <1>3

LEMMA PaidTyped ==
  ASSUME NEW f \in [0..LastEpoch -> Nat], NEW e \in 0..LastEpoch, NEW cost \in Nat
  PROVE  [f EXCEPT ![e] = @ + cost] \in [0..LastEpoch -> Nat]
  OBVIOUS

LEMMA ChargedTyped ==
  ASSUME NEW counter \in Counter, NEW cost \in Nat, clock \in Nat
  PROVE  /\ Charged(counter, cost) \in Counter
         /\ Charged(counter, cost).expires \in {counter.expires, clock + WindowSeconds}
         /\ ~ Exists(counter) => Charged(counter, cost).expires = clock + WindowSeconds
  <1>1. counter.count \in Nat /\ counter.expires \in Nat /\ clock + WindowSeconds \in Nat
    BY RedisLimiterAssumption DEF Counter
  <1>2. counter.count + cost = cost <=> counter.count = 0
    BY <1>1
  <1>3. Charged(counter, cost) =
          [count |-> counter.count + cost,
           expires |-> IF counter.count = 0 THEN clock + WindowSeconds ELSE counter.expires]
    BY <1>2 DEF Charged
  <1>4. counter.count + cost \in Nat
    BY <1>1
  <1>5. QED
    BY <1>1, <1>3, <1>4 DEF Counter, Exists

LEMMA TypeInit == Init => TypeOK
  <1> SUFFICES ASSUME Init PROVE TypeOK
    OBVIOUS
  <1>1. Absent \in Counter
    BY DEF Absent, Counter
  <1>2. QED
    BY <1>1, NoCallTyped, RedisLimiterAssumption DEF Init, TypeOK

LEMMA TypeStep == TypeOK /\ [Next]_vars => TypeOK'
  <1> SUFFICES ASSUME TypeOK, [Next]_vars PROVE TypeOK'
    OBVIOUS
  <1> USE DEF TypeOK, Goto
  <1>1. CASE Tick
    <2>1. clock' \in 0..MaxClock
      BY <1>1, RedisLimiterAssumption DEF Tick
    <2>2. Absent \in Counter
      BY DEF Absent, Counter
    <2>3. store' \in [Keys -> [0..LastEpoch -> Counter]]
      <3>1. store' = [k \in Keys |-> [e \in 0..LastEpoch |->
                        IF Exists(store[k][e]) /\ clock' >= store[k][e].expires
                        THEN Absent ELSE store[k][e]]]
        BY <1>1 DEF Tick
      <3>2. QED
        BY <2>2, <3>1
    <2>4. QED
      BY <1>1, <2>1, <2>3 DEF Tick
  <1>2. ASSUME NEW c \in Callers, Send(c) PROVE TypeOK'
    <2>1. PICK k \in Keys, cost \in Costs :
            call' = [call EXCEPT ![c] =
              [NoCall EXCEPT !.key = k, !.cost = cost, !.epoch = EpochOf(clock + Skew[c]),
                             !.since = clock]]
      BY <1>2 DEF Send
    <2>2. EpochOf(clock + Skew[c]) \in 0..LastEpoch
      <3>1. /\ clock + Skew[c] \in Nat /\ MaxClock + WindowSeconds \in Nat
            /\ clock + Skew[c] <= MaxClock + WindowSeconds
        BY RedisLimiterAssumption
      <3>2. EpochOf(clock + Skew[c]) \in 0..EpochOf(MaxClock + WindowSeconds)
        BY <3>1, EpochsBounded
      <3>3. QED
        BY <3>2 DEF LastEpoch
    <2>3. call' \in [Callers -> Call]
      <3>1. cost \in Nat /\ clock \in Nat
        BY RedisLimiterAssumption
      <3>2. [NoCall EXCEPT !.key = k, !.cost = cost, !.epoch = EpochOf(clock + Skew[c]),
                           !.since = clock] \in Call
        BY <2>2, <3>1, SentTyped, NoCallTyped
      <3>3. QED
        BY <2>1, <3>2
    <2>4. pc' \in [Callers -> {"idle", "sent", "replied"}] /\ calls' \in [Callers -> Nat]
      BY <1>2 DEF Send
    <2>5. QED
      BY <1>2, <2>3, <2>4 DEF Send
  <1>3. ASSUME NEW c \in Callers, Resend(c) \/ Raise(c) PROVE TypeOK'
    <2>1. call' \in [Callers -> Call]
      <3>1. CASE Resend(c)
        <4>1. call[c] \in Call
          OBVIOUS
        <4>2. [call[c] EXCEPT !.sends = @ + 1, !.admitted = FALSE] \in Call
          BY <4>1, ResentTyped
        <4>3. call' = [call EXCEPT ![c] = [call[c] EXCEPT !.sends = @ + 1, !.admitted = FALSE]]
          BY <3>1 DEF Resend
        <4>4. QED
          BY <4>2, <4>3
      <3>2. CASE Raise(c)
        BY <3>2, NoCallTyped DEF Raise
      <3>3. QED
        BY <1>3, <3>1, <3>2
    <2>2. QED
      BY <1>3, <2>1 DEF Resend, Raise
  <1>4. ASSUME NEW c \in Callers, Return(c) PROVE TypeOK'
    <2>1. call' \in [Callers -> Call]
      BY <1>4, NoCallTyped DEF Return
    <2>2. granted' \in [Keys -> [0..LastEpoch -> Nat]]
      <3>1. call[c] \in Call
        OBVIOUS
      <3>2. [granted[call[c].key] EXCEPT ![call[c].epoch] = @ + call[c].cost]
              \in [0..LastEpoch -> Nat]
        <4>1. call[c].key \in Keys /\ call[c].epoch \in 0..LastEpoch /\ call[c].cost \in Nat
          BY <3>1 DEF Call
        <4>2. granted[call[c].key] \in [0..LastEpoch -> Nat]
          BY <4>1
        <4>3. QED
          BY <4>1, <4>2, PaidTyped
      <3>3. granted' \in {granted, [granted EXCEPT ![call[c].key] =
                            [granted[call[c].key] EXCEPT ![call[c].epoch] = @ + call[c].cost]]}
        BY <1>4 DEF Return
      <3>4. QED
        BY <3>2, <3>3
    <2>3. QED
      BY <1>4, <2>1, <2>2 DEF Return
  <1>5. ASSUME NEW c \in Callers, Eval(c) PROVE TypeOK'
    <2> DEFINE k == call[c].key  e == call[c].epoch
               charged == AfterScript(store[k][e], call[c].cost, Limit[k])
    <2>1. /\ k \in Keys /\ e \in 0..LastEpoch /\ call[c].cost \in Nat
          /\ store[k][e] \in Counter /\ call[c] \in Call
      BY DEF Call
    <2>2. charged \in Counter
      <3>1. Charged(store[k][e], call[c].cost) \in Counter
        <4>1. clock \in Nat
          BY RedisLimiterAssumption
        <4>2. PICK counter \in Counter, cost \in Nat :
                counter = store[k][e] /\ cost = call[c].cost
          BY <2>1
        <4>3. Charged(counter, cost) \in Counter
          BY <4>1, ChargedTyped
        <4>4. QED
          BY <4>2, <4>3
      <3>2. QED
        BY <2>1, <3>1 DEF AfterScript
    <2>3. store' \in [Keys -> [0..LastEpoch -> Counter]]
      <3>1. store' = [store EXCEPT ![k] = [store[k] EXCEPT ![e] = charged]]
        BY <1>5 DEF Eval
      <3>2. [store[k] EXCEPT ![e] = charged] \in [0..LastEpoch -> Counter]
        BY <2>1, <2>2
      <3>3. QED
        BY <3>1, <3>2
    <2>4. call' \in [Callers -> Call]
      <3>1. Fits(store[k][e], call[c].cost, Limit[k]) \in BOOLEAN
        BY DEF Fits
      <3>2. call' = [call EXCEPT ![c] =
                       [call[c] EXCEPT !.admitted = Fits(store[k][e], call[c].cost, Limit[k])]]
        BY <1>5 DEF Eval
      <3>3. [call[c] EXCEPT !.admitted = Fits(store[k][e], call[c].cost, Limit[k])] \in Call
        BY <2>1, <3>1 DEF Call
      <3>4. QED
        BY <3>2, <3>3
    <2>5. pc' \in [Callers -> {"idle", "sent", "replied"}]
      BY <1>5 DEF Eval
    <2>6. strayed' \in SUBSET (Keys \X (0..LastEpoch))
      BY <1>5, <2>1 DEF Eval
    <2>7. QED
      BY <1>5, <2>3, <2>4, <2>5, <2>6 DEF Eval
  <1>6. CASE UNCHANGED vars
    BY <1>6 DEF vars
  <1>7. QED
    BY <1>1, <1>2, <1>3, <1>4, <1>5, <1>6 DEF Next

(* Every variable keeps its type.                                          *)
THEOREM TypeCorrect == Spec => []TypeOK
  BY TypeInit, TypeStep, PTL DEF Spec

-----------------------------------------------------------------------------
(* A step that leaves the clock and the counters alone.                    *)
LEMMA ScriptOnly ==
  ASSUME NEW c \in Callers, Send(c) \/ Return(c) \/ Resend(c) \/ Raise(c)
  PROVE  UNCHANGED <<clock, store>>
  BY DEF Send, Return, Resend, Raise

LEMMA ExpiryInit == Init => CountersExpire
  BY DEF Init, CountersExpire, Exists, Absent

LEMMA ExpiryStep == TypeOK /\ CountersExpire /\ [Next]_vars => CountersExpire'
  <1> SUFFICES ASSUME TypeOK, CountersExpire, [Next]_vars,
                      NEW k \in Keys, NEW e \in 0..LastEpoch, Exists(store'[k][e])
               PROVE  store'[k][e].expires \in clock' + 1 .. clock' + WindowSeconds
    BY DEF CountersExpire, Exists
  <1>1. clock \in Nat /\ store[k][e] \in Counter /\ store[k][e].expires \in Nat
    <2>1. clock \in Nat
      BY RedisLimiterAssumption DEF TypeOK
    <2>2. store[k][e] \in Counter
      BY DEF TypeOK
    <2>3. QED
      BY <2>1, <2>2 DEF Counter
  <1>2. Exists(store[k][e]) => store[k][e].expires \in clock + 1 .. clock + WindowSeconds
    BY DEF CountersExpire
  <1>3. CASE Tick
    <2>1. clock' = clock + 1
      BY <1>3 DEF Tick
    <2>2. store'[k][e] = IF Exists(store[k][e]) /\ clock' >= store[k][e].expires
                         THEN Absent ELSE store[k][e]
      BY <1>3 DEF Tick
    <2>3. ~ Exists(Absent)
      BY DEF Exists, Absent
    <2>4. store'[k][e] = store[k][e] /\ clock' < store[k][e].expires
      BY <1>1, <2>1, <2>2, <2>3
    <2>5. QED
      BY <1>1, <1>2, <2>1, <2>4, RedisLimiterAssumption
  <1>4. ASSUME NEW c \in Callers, Eval(c)
        PROVE  store'[k][e].expires \in clock' + 1 .. clock' + WindowSeconds
    <2> DEFINE charged == AfterScript(store[k][e], call[c].cost, Limit[k])
    <2>1. clock' = clock /\ call[c].cost \in Nat
      BY <1>4 DEF Eval, TypeOK, Call
    <2>2. store'[k][e] \in {store[k][e], charged}
      BY <1>4 DEF Eval, TypeOK, Call
    <2>3. CASE store'[k][e] = store[k][e]
      BY <1>2, <2>1, <2>3
    <2>4. CASE store'[k][e] = Charged(store[k][e], call[c].cost)
      <3>1. /\ store'[k][e].expires \in {store[k][e].expires, clock + WindowSeconds}
            /\ ~ Exists(store[k][e]) => store'[k][e].expires = clock + WindowSeconds
        BY <1>1, <2>1, <2>4, ChargedTyped
      <3>2. QED
        BY <1>1, <1>2, <2>1, <3>1, RedisLimiterAssumption
    <2>5. QED
      BY <2>2, <2>3, <2>4 DEF AfterScript
  <1>5. ASSUME NEW c \in Callers, Send(c) \/ Return(c) \/ Resend(c) \/ Raise(c)
        PROVE  store'[k][e].expires \in clock' + 1 .. clock' + WindowSeconds
    BY <1>2, <1>5, ScriptOnly
  <1>6. CASE UNCHANGED vars
    BY <1>2, <1>6 DEF vars
  <1>7. QED
    BY <1>3, <1>4, <1>5, <1>6 DEF Next

(* No counter outlives one window's length from its first increment.       *)
THEOREM CountersGo == Spec => []CountersExpire
  BY TypeInit, TypeStep, ExpiryInit, ExpiryStep, PTL DEF Spec

(* A script that refuses leaves Redis as it found it.                      *)
THEOREM RefusalsAreFree == Spec => RefusalSpendsNothing
  <1>1. TypeOK /\ [Next]_vars =>
          [\A c \in Callers :
             pc[c] = "sent" /\ pc'[c] = "replied" /\ ~ call'[c].admitted => store' = store]_vars
    <2> SUFFICES ASSUME TypeOK, Next, NEW c \in Callers,
                        pc[c] = "sent", pc'[c] = "replied", ~ call'[c].admitted
                 PROVE  store' = store
      OBVIOUS
    <2>1. Eval(c)
      <3>1. ASSUME NEW d \in Callers, d # c,
                   Send(d) \/ Eval(d) \/ Return(d) \/ Resend(d) \/ Raise(d)
            PROVE  FALSE
        BY <3>1 DEF Send, Eval, Return, Resend, Raise, Goto, TypeOK
      <3>2. ~ Tick
        BY DEF Tick
      <3>3. ~ (Send(c) \/ Return(c) \/ Resend(c) \/ Raise(c))
        BY DEF Send, Return, Resend, Raise, Goto, TypeOK
      <3>4. QED
        BY <3>1, <3>2, <3>3 DEF Next
    <2> DEFINE k == call[c].key  e == call[c].epoch
    <2>2. k \in Keys /\ e \in 0..LastEpoch
      BY DEF TypeOK, Call
    <2>3. ~ Fits(store[k][e], call[c].cost, Limit[k])
      BY <2>1 DEF Eval, TypeOK, Call
    <2>4. store' = [store EXCEPT ![k] = [store[k] EXCEPT ![e] = store[k][e]]]
      BY <2>1, <2>3 DEF Eval, AfterScript
    <2>5. QED
      BY <2>2, <2>4 DEF TypeOK
  <1>2. QED
    BY <1>1, TypeInit, TypeStep, PTL DEF Spec, RefusalSpendsNothing
-----------------------------------------------------------------------------
(* What allow() has answered True for, and what it is about to: the        *)
(* scripts that admitted and whose reply is on its way.                    *)
Charge(c, k, e) ==
  IF pc[c] = "replied" /\ call[c].admitted /\ call[c].key = k /\ call[c].epoch = e
  THEN call[c].cost ELSE 0

Charges(k, e) == [c \in Callers |-> Charge(c, k, e)]

Owed(k, e) == granted[k][e] + SumFunctionOnSet(Charges(k, e), Callers)

Begins(e) == e * WindowSeconds

CountsWithin == \A k \in Keys, e \in 0..LastEpoch : store[k][e].count <= Limit[k]

(* A call names the window its replica's clock was in, and is soon over.   *)
CallDated(c) ==
  pc[c] # "idle" =>
    /\ call[c].cost \in Costs
    /\ call[c].since <= clock /\ clock <= call[c].since + MaxDelay
    /\ Begins(call[c].epoch) <= call[c].since + Skew[c]
    /\ call[c].since + Skew[c] < Begins(call[c].epoch) + WindowSeconds

(* While no script strays, the counter lasts as long as its window.        *)
PaidInTime(k, e) ==
  <<k, e>> \notin strayed =>
    /\ Owed(k, e) <= Limit[k]
    /\ \/ Owed(k, e) <= store[k][e].count
       \/ ~ Exists(store[k][e]) /\ clock >= Begins(e) + WindowSeconds
    /\ Exists(store[k][e]) => store[k][e].expires >= Begins(e) + WindowSeconds

PaymentInv ==
  /\ TypeOK
  /\ CountsWithin
  /\ \A c \in Callers : CallDated(c)
  /\ \A k \in Keys, e \in 0..LastEpoch : PaidInTime(k, e)

LEMMA EpochBegins ==
  ASSUME NEW a \in Nat
  PROVE  /\ EpochOf(a) \in Nat /\ Begins(EpochOf(a)) \in Nat
         /\ Begins(EpochOf(a)) <= a /\ a < Begins(EpochOf(a)) + WindowSeconds
  <1> DEFINE n == WindowSeconds
  <1>1. n \in Nat /\ n > 0
    BY RedisLimiterAssumption
  <1> HIDE DEF n
  <1>2. a \div n \in Nat /\ a = n * (a \div n) + (a % n) /\ a % n \in 0..n - 1
    BY <1>1, SMTT(20)
  <1>3. (a \div n) * n = n * (a \div n) /\ n * (a \div n) \in Nat
    BY <1>1, <1>2
  <1>4. QED
    BY <1>1, <1>2, <1>3 DEF n, EpochOf, Begins

LEMMA BeginsTyped == ASSUME NEW e \in Nat PROVE Begins(e) \in Nat
  BY RedisLimiterAssumption DEF Begins

LEMMA ChargesTyped ==
  ASSUME TypeOK, NEW k \in Keys, NEW e \in 0..LastEpoch
  PROVE  /\ \A c \in Callers : Charge(c, k, e) \in Nat /\ Charges(k, e)[c] = Charge(c, k, e)
         /\ SumFunctionOnSet(Charges(k, e), Callers) \in Nat
         /\ granted[k][e] \in Nat
         /\ Owed(k, e) \in Nat /\ granted[k][e] <= Owed(k, e)
         /\ store[k][e] \in Counter /\ store[k][e].count \in Nat /\ store[k][e].expires \in Nat
         /\ Limit[k] \in Nat /\ clock \in Nat
  <1>1. \A c \in Callers : Charge(c, k, e) \in Nat
    BY DEF TypeOK, Call, Charge
  <1>2. \A c \in Callers : Charges(k, e)[c] = Charge(c, k, e)
    BY DEF Charges
  <1>3. SumFunctionOnSet(Charges(k, e), Callers) \in Nat
    <2>1. IsFiniteSet(Callers) /\ \A c \in Callers : Charges(k, e)[c] \in Nat
      BY <1>1, <1>2, RedisLimiterAssumption
    <2>2. QED
      BY <2>1, SumNat
  <1>4. granted[k][e] \in Nat /\ store[k][e] \in Counter
    BY DEF TypeOK
  <1>5. store[k][e].count \in Nat /\ store[k][e].expires \in Nat
    BY <1>4 DEF Counter
  <1>6. Limit[k] \in Nat /\ clock \in Nat
    BY RedisLimiterAssumption DEF TypeOK
  <1>7. QED
    BY <1>1, <1>2, <1>3, <1>4, <1>5, <1>6 DEF Owed

(* A step of one caller changes what is owed by its own part.              *)
LEMMA OwedChange ==
  ASSUME TypeOK, TypeOK', NEW c \in Callers,
         \A d \in Callers \ {c} : pc'[d] = pc[d] /\ call'[d] = call[d],
         NEW k \in Keys, NEW e \in 0..LastEpoch
  PROVE  Owed(k, e)' = Owed(k, e) + (granted'[k][e] - granted[k][e])
                                  + (Charge(c, k, e)' - Charge(c, k, e))
  <1>1. /\ \A d \in Callers : Charge(d, k, e) \in Nat /\ Charges(k, e)[d] = Charge(d, k, e)
        /\ SumFunctionOnSet(Charges(k, e), Callers) \in Nat /\ granted[k][e] \in Nat
    BY ChargesTyped
  <1>2. /\ \A d \in Callers : Charge(d, k, e)' \in Nat /\ Charges(k, e)'[d] = Charge(d, k, e)'
        /\ granted'[k][e] \in Nat
    <2>1. \A d \in Callers : Charge(d, k, e)' \in Nat
      BY DEF TypeOK, Call, Charge
    <2>2. \A d \in Callers : Charges(k, e)'[d] = Charge(d, k, e)'
      BY DEF Charges
    <2>3. QED
      BY <2>1, <2>2 DEF TypeOK
  <1>3. \A d \in Callers \ {c} : Charge(d, k, e)' = Charge(d, k, e)
    BY DEF Charge
  <1>4. SumFunctionOnSet(Charges(k, e)', Callers)
          = SumFunctionOnSet(Charges(k, e), Callers) - Charges(k, e)[c] + Charges(k, e)'[c]
    <2>1. \A d \in Callers : Charges(k, e)[d] \in Int /\ Charges(k, e)'[d] \in Int
      BY <1>1, <1>2
    <2>2. \A d \in Callers \ {c} : Charges(k, e)'[d] = Charges(k, e)[d]
      BY <1>1, <1>2, <1>3
    <2>3. QED
      BY <2>1, <2>2, SumUpdate, RedisLimiterAssumption
  <1>5. Owed(k, e)' = granted'[k][e] + SumFunctionOnSet(Charges(k, e)', Callers)
    BY DEF Owed
  <1>6. QED
    BY <1>1, <1>2, <1>4, <1>5 DEF Owed

(* Only a script that admits adds to what is owed.                         *)
LEMMA OwedStep ==
  ASSUME TypeOK, TypeOK', NEW c \in Callers, NEW k \in Keys, NEW e \in 0..LastEpoch
  PROVE  /\ Send(c) \/ Return(c) \/ Resend(c) \/ Raise(c) => Owed(k, e)' <= Owed(k, e)
         /\ Eval(c) =>
              Owed(k, e)' = Owed(k, e)
                + (IF /\ call[c].key = k /\ call[c].epoch = e
                      /\ Fits(store[k][e], call[c].cost, Limit[k])
                   THEN call[c].cost ELSE 0)
  <1> USE DEF Goto
  <1>1. /\ pc \in [Callers -> {"idle", "sent", "replied"}]
        /\ call \in [Callers -> Call] /\ granted \in [Keys -> [0..LastEpoch -> Nat]]
        /\ call[c] \in Call
    BY DEF TypeOK
  <1>2. /\ call[c].cost \in Nat /\ call[c].key \in Keys /\ call[c].epoch \in 0..LastEpoch
    BY <1>1 DEF Call
  <1>3. Owed(k, e) \in Nat /\ granted[k][e] \in Nat /\ Charge(c, k, e) \in Nat
    BY ChargesTyped
  <1>4. ASSUME Send(c) \/ Return(c) \/ Resend(c) \/ Raise(c) \/ Eval(c)
        PROVE  Owed(k, e)' = Owed(k, e) + (granted'[k][e] - granted[k][e])
                                        + (Charge(c, k, e)' - Charge(c, k, e))
    <2>1. \A d \in Callers \ {c} : pc'[d] = pc[d] /\ call'[d] = call[d]
      BY <1>1, <1>4 DEF Send, Return, Resend, Raise, Eval
    <2>2. QED
      BY <2>1, OwedChange
  <1>5. ASSUME Send(c) \/ Resend(c) \/ Raise(c) PROVE Owed(k, e)' <= Owed(k, e)
    <2>1. granted' = granted /\ pc'[c] # "replied"
      BY <1>1, <1>5 DEF Send, Resend, Raise
    <2>2. Charge(c, k, e)' = 0
      BY <2>1 DEF Charge
    <2>3. QED
      BY <1>3, <1>4, <1>5, <2>1, <2>2
  <1>6. ASSUME Return(c) PROVE Owed(k, e)' <= Owed(k, e)
    <2>1. Charge(c, k, e)' = 0
      BY <1>1, <1>6 DEF Return, Charge
    <2>2. granted'[k][e] = granted[k][e] + Charge(c, k, e)
      <3>1. CASE call[c].admitted
        <4>1. granted' = [granted EXCEPT ![call[c].key] =
                            [granted[call[c].key] EXCEPT ![call[c].epoch] = @ + call[c].cost]]
          BY <1>6, <3>1 DEF Return
        <4>2. pc[c] = "replied"
          BY <1>6 DEF Return
        <4>3. CASE k = call[c].key
          <5>1. granted'[k] = [granted[k] EXCEPT ![call[c].epoch] = @ + call[c].cost]
            BY <1>1, <1>2, <4>1, <4>3
          <5>2. granted[k] \in [0..LastEpoch -> Nat]
            BY <1>1
          <5>3. granted'[k][e] = IF call[c].epoch = e THEN granted[k][e] + call[c].cost
                                                      ELSE granted[k][e]
            BY <1>2, <5>1, <5>2
          <5>4. Charge(c, k, e) = IF call[c].epoch = e THEN call[c].cost ELSE 0
            BY <3>1, <4>2, <4>3 DEF Charge
          <5>5. QED
            BY <1>2, <1>3, <5>3, <5>4
        <4>4. CASE k # call[c].key
          BY <1>1, <1>3, <4>1, <4>4 DEF Charge
        <4>5. QED
          BY <4>3, <4>4
      <3>2. CASE ~ call[c].admitted
        BY <1>3, <1>6, <3>2 DEF Return, Charge
      <3>3. QED
        BY <3>1, <3>2
    <2>3. QED
      BY <1>3, <1>4, <1>6, <2>1, <2>2
  <1>7. ASSUME Eval(c)
        PROVE  Owed(k, e)' = Owed(k, e)
                 + (IF /\ call[c].key = k /\ call[c].epoch = e
                       /\ Fits(store[k][e], call[c].cost, Limit[k])
                    THEN call[c].cost ELSE 0)
    <2>1. granted' = granted /\ Charge(c, k, e) = 0
      BY <1>7 DEF Eval, Charge
    <2>2. /\ pc'[c] = "replied"
          /\ call'[c] = [call[c] EXCEPT !.admitted =
               Fits(store[call[c].key][call[c].epoch], call[c].cost, Limit[call[c].key])]
      BY <1>1, <1>7 DEF Eval
    <2>3. /\ call'[c].key = call[c].key /\ call'[c].epoch = call[c].epoch
          /\ call'[c].cost = call[c].cost
      BY <1>1, <2>2 DEF Call
    <2>4. call'[c].admitted <=>
            Fits(store[call[c].key][call[c].epoch], call[c].cost, Limit[call[c].key])
      BY <1>1, <2>2 DEF Call
    <2>5. Charge(c, k, e)' = IF /\ call[c].key = k /\ call[c].epoch = e
                                /\ Fits(store[k][e], call[c].cost, Limit[k])
                             THEN call[c].cost ELSE 0
      BY <2>2, <2>3, <2>4 DEF Charge
    <2>6. QED
      BY <1>2, <1>3, <1>4, <1>7, <2>1, <2>5
  <1>8. QED
    BY <1>5, <1>6, <1>7

(* A script runs while its call is young, so not long before and not long  *)
(* after the window it names.                                              *)
LEMMA DatedRun ==
  ASSUME TypeOK, NEW c \in Callers, CallDated(c), pc[c] # "idle"
  PROVE  /\ call[c].key \in Keys /\ call[c].epoch \in 0..LastEpoch
         /\ call[c].cost \in Costs /\ call[c].cost \in Nat \ {0}
         /\ Begins(call[c].epoch) \in Nat
         /\ Begins(call[c].epoch) - Skew[c] <= clock
         /\ clock < Begins(call[c].epoch) + WindowSeconds - Skew[c] + MaxDelay
         /\ Skew[c] \in Nat
  <1>1. call[c] \in Call /\ clock \in Nat
    BY RedisLimiterAssumption DEF TypeOK
  <1>2. /\ call[c].key \in Keys /\ call[c].epoch \in 0..LastEpoch
        /\ call[c].since \in Nat /\ call[c].cost \in Costs
    BY <1>1 DEF Call, CallDated
  <1>3. LastEpoch \in Nat
    BY EpochBegins, RedisLimiterAssumption DEF LastEpoch
  <1>4. Begins(call[c].epoch) \in Nat
    BY <1>2, <1>3, BeginsTyped
  <1>5. Skew[c] \in Nat /\ MaxDelay \in Nat /\ WindowSeconds \in Nat
    BY RedisLimiterAssumption
  <1>6. /\ call[c].since <= clock /\ clock <= call[c].since + MaxDelay
        /\ Begins(call[c].epoch) <= call[c].since + Skew[c]
        /\ call[c].since + Skew[c] < Begins(call[c].epoch) + WindowSeconds
    BY DEF CallDated
  <1>7. call[c].cost \in Nat \ {0}
    BY <1>2, RedisLimiterAssumption
  <1>8. /\ Begins(call[c].epoch) - Skew[c] <= clock
        /\ clock < Begins(call[c].epoch) + WindowSeconds - Skew[c] + MaxDelay
    BY <1>1, <1>2, <1>4, <1>5, <1>6
  <1>9. QED
    BY <1>2, <1>4, <1>5, <1>7, <1>8

LEMMA DatedStep ==
  ASSUME TypeOK, \A c \in Callers : CallDated(c), [Next]_vars
  PROVE  (\A c \in Callers : CallDated(c))'
  <1> USE DEF Goto
  <1> SUFFICES ASSUME NEW c \in Callers PROVE CallDated(c)'
    OBVIOUS
  <1>1. /\ pc \in [Callers -> {"idle", "sent", "replied"}] /\ call \in [Callers -> Call]
        /\ clock \in Nat /\ MaxDelay \in Nat /\ WindowSeconds \in Nat
    BY RedisLimiterAssumption DEF TypeOK
  <1>2. call[c] \in Call /\ call[c].since \in Nat
    BY <1>1 DEF Call
  <1>3. CASE Tick
    <2>1. /\ clock' = clock + 1 /\ UNCHANGED <<pc, call>>
          /\ pc[c] # "idle" => clock - call[c].since < MaxDelay
      BY <1>3 DEF Tick
    <2>2. QED
      BY <1>1, <1>2, <2>1 DEF CallDated
  <1>4. CASE Send(c)
    <2>1. PICK k \in Keys, cost \in Costs :
            call' = [call EXCEPT ![c] =
              [NoCall EXCEPT !.key = k, !.cost = cost, !.epoch = EpochOf(clock + Skew[c]),
                             !.since = clock]]
      BY <1>4 DEF Send
    <2>2. /\ call'[c].cost = cost /\ call'[c].since = clock
          /\ call'[c].epoch = EpochOf(clock + Skew[c])
      BY <1>1, <2>1 DEF NoCall
    <2>3. clock + Skew[c] \in Nat
      BY <1>1, RedisLimiterAssumption
    <2>4. PICK e : /\ e = EpochOf(clock + Skew[c])
                   /\ e * WindowSeconds <= clock + Skew[c]
                   /\ clock + Skew[c] < e * WindowSeconds + WindowSeconds
      BY <2>3, EpochBegins DEF Begins
    <2>5. clock' = clock /\ clock <= clock + MaxDelay
      BY <1>1, <1>4 DEF Send
    <2>6. CallDated(c)' <=>
            (pc'[c] # "idle" =>
               /\ call'[c].cost \in Costs
               /\ call'[c].since <= clock' /\ clock' <= call'[c].since + MaxDelay
               /\ call'[c].epoch * WindowSeconds <= call'[c].since + Skew[c]
               /\ call'[c].since + Skew[c] < call'[c].epoch * WindowSeconds + WindowSeconds)
      BY DEF CallDated, Begins
    <2>7. call'[c].epoch = e /\ call'[c].since = clock /\ call'[c].cost \in Costs
      BY <2>2, <2>4
    <2>8. clock <= clock
      BY <1>1
    <2>9. QED
      BY <2>4, <2>5, <2>6, <2>7, <2>8
  <1>5. CASE Eval(c) \/ Resend(c)
    <2>1. /\ clock' = clock /\ pc[c] # "idle"
          /\ call'[c].cost = call[c].cost /\ call'[c].since = call[c].since
          /\ call'[c].epoch = call[c].epoch
      BY <1>1, <1>2, <1>5 DEF Eval, Resend, Call
    <2>2. QED
      BY <2>1 DEF CallDated, Begins
  <1>6. CASE Return(c) \/ Raise(c)
    BY <1>1, <1>6 DEF Return, Raise, CallDated
  <1>7. ASSUME NEW d \in Callers, d # c,
               Send(d) \/ Eval(d) \/ Return(d) \/ Resend(d) \/ Raise(d)
        PROVE  CallDated(c)'
    <2>1. clock' = clock /\ pc'[c] = pc[c] /\ call'[c] = call[c]
      BY <1>1, <1>7 DEF Send, Eval, Return, Resend, Raise
    <2>2. QED
      BY <2>1 DEF CallDated, Begins
  <1>8. CASE UNCHANGED vars
    BY <1>8 DEF vars, CallDated, Begins
  <1>9. QED
    BY <1>3, <1>4, <1>5, <1>6, <1>7, <1>8 DEF Next

(* The three things a step can do to a counter: nothing, the script's      *)
(* charge, and the expiry.                                                 *)
LEMMA CounterSteps ==
  ASSUME TypeOK, TypeOK', CountsWithin, \A c \in Callers : CallDated(c), [Next]_vars,
         NEW k \in Keys, NEW e \in 0..LastEpoch
  PROVE  \/ /\ store'[k][e] = store[k][e] /\ Owed(k, e)' <= Owed(k, e) /\ clock <= clock'
         \/ /\ ~ Exists(store'[k][e]) /\ store'[k][e].count = 0
            /\ clock' >= store[k][e].expires /\ Exists(store[k][e])
            /\ Owed(k, e)' = Owed(k, e)
         \/ /\ clock' = clock
            /\ \E c \in Callers :
                 /\ Eval(c) /\ call[c].key = k /\ call[c].epoch = e
                 /\ Owed(k, e)' = Owed(k, e) + call[c].cost
                 /\ store'[k][e].count = store[k][e].count + call[c].cost
                 /\ store'[k][e].count <= Limit[k] /\ store'[k][e].count > 0
                 /\ store'[k][e].expires = IF Exists(store[k][e]) THEN store[k][e].expires
                                                                  ELSE clock + WindowSeconds
  <1> USE DEF Goto
  <1>1. /\ Owed(k, e) \in Nat /\ Owed(k, e)' \in Nat
        /\ store[k][e] \in Counter /\ store[k][e].count \in Nat /\ Limit[k] \in Nat
        /\ clock \in Nat
    <2>1. /\ Owed(k, e) \in Nat
          /\ store[k][e] \in Counter /\ store[k][e].count \in Nat /\ Limit[k] \in Nat
          /\ clock \in Nat
      BY ChargesTyped
    <2>2. Owed(k, e)' \in Nat
      <3>1. /\ IsFiniteSet(Callers) /\ \A c \in Callers : Charges(k, e)'[c] \in Nat
        BY RedisLimiterAssumption DEF TypeOK, Call, Charge, Charges
      <3>2. SumFunctionOnSet(Charges(k, e)', Callers) \in Nat /\ granted'[k][e] \in Nat
        BY <3>1, SumNat DEF TypeOK
      <3>3. QED
        BY <3>2 DEF Owed
    <2>3. QED
      BY <2>1, <2>2
  <1>2. CASE Tick
    <2>1. Owed(k, e)' = Owed(k, e) /\ clock' = clock + 1
      BY <1>2 DEF Tick, Owed, Charges, Charge
    <2>2. store'[k][e] = IF Exists(store[k][e]) /\ clock' >= store[k][e].expires
                         THEN Absent ELSE store[k][e]
      BY <1>2 DEF Tick
    <2>3. ~ Exists(Absent) /\ Absent.count = 0
      BY DEF Exists, Absent
    <2>4. QED
      BY <1>1, <2>1, <2>2, <2>3
  <1>3. ASSUME NEW c \in Callers, Send(c) \/ Return(c) \/ Resend(c) \/ Raise(c)
        PROVE  store'[k][e] = store[k][e] /\ Owed(k, e)' <= Owed(k, e) /\ clock <= clock'
    BY <1>1, <1>3, ScriptOnly, OwedStep
  <1>4. CASE UNCHANGED vars
    BY <1>1, <1>4 DEF vars, Owed, Charges, Charge
  <1>5. ASSUME NEW c \in Callers, Eval(c),
               ~ (/\ call[c].key = k /\ call[c].epoch = e
                  /\ Fits(store[k][e], call[c].cost, Limit[k]))
        PROVE  store'[k][e] = store[k][e] /\ Owed(k, e)' <= Owed(k, e) /\ clock <= clock'
    <2>1. Owed(k, e)' = Owed(k, e) + 0
      BY <1>5, OwedStep
    <2>2. store'[k][e] = store[k][e]
      BY <1>5 DEF Eval, AfterScript, TypeOK, Call
    <2>3. QED
      BY <1>1, <1>5, <2>1, <2>2 DEF Eval
  <1>6. ASSUME NEW c \in Callers, Eval(c), call[c].key = k, call[c].epoch = e,
               Fits(store[k][e], call[c].cost, Limit[k])
        PROVE  /\ clock' = clock
               /\ Owed(k, e)' = Owed(k, e) + call[c].cost
               /\ store'[k][e].count = store[k][e].count + call[c].cost
               /\ store'[k][e].count <= Limit[k] /\ store'[k][e].count > 0
               /\ store'[k][e].expires = IF Exists(store[k][e]) THEN store[k][e].expires
                                                                ELSE clock + WindowSeconds
    <2>1. Owed(k, e)' = Owed(k, e) + call[c].cost
      BY <1>6, OwedStep
    <2>2. call[c].cost \in Nat \ {0}
      <3>1. pc[c] # "idle"
        BY <1>6 DEF Eval
      <3>2. QED
        BY <3>1, DatedRun
    <2>3. store' = [store EXCEPT ![k] =
                      [store[k] EXCEPT ![e] = AfterScript(store[k][e], call[c].cost, Limit[k])]]
      BY <1>6 DEF Eval
    <2>4. store'[k][e] = Charged(store[k][e], call[c].cost)
      BY <1>6, <2>3 DEF AfterScript, TypeOK
    <2>5. /\ store'[k][e].count = store[k][e].count + call[c].cost
          /\ store'[k][e].expires = IF store[k][e].count + call[c].cost = call[c].cost
                                    THEN clock + WindowSeconds ELSE store[k][e].expires
      BY <2>4 DEF Charged
    <2>6. store[k][e].count + call[c].cost = call[c].cost <=> ~ Exists(store[k][e])
      BY <1>1, <2>2 DEF Exists
    <2>7. store[k][e].count + call[c].cost <= Limit[k]
      BY <1>6 DEF Fits
    <2>8. QED
      BY <1>1, <1>6, <2>1, <2>2, <2>5, <2>6, <2>7 DEF Eval
  <1>7. QED
    BY <1>2, <1>3, <1>4, <1>5, <1>6 DEF Next

LEMMA CountsStep ==
  ASSUME TypeOK, TypeOK', CountsWithin, \A c \in Callers : CallDated(c), [Next]_vars
  PROVE  CountsWithin'
  <1> SUFFICES ASSUME NEW k \in Keys, NEW e \in 0..LastEpoch
               PROVE  store'[k][e].count <= Limit[k]
    BY DEF CountsWithin
  <1>1. store[k][e].count <= Limit[k] /\ Limit[k] \in Nat
    BY RedisLimiterAssumption DEF CountsWithin
  <1>2. QED
    BY <1>1, CounterSteps

(* The windows a step leaves unstrayed were so before, and a script that   *)
(* runs in one of them runs while it lasts.                                *)
LEMMA PaidStep ==
  ASSUME PaymentInv, TypeOK', [Next]_vars, NEW k \in Keys, NEW e \in 0..LastEpoch
  PROVE  PaidInTime(k, e)'
  <1> SUFFICES ASSUME <<k, e>> \notin strayed'
               PROVE  /\ Owed(k, e)' <= Limit[k]
                      /\ \/ Owed(k, e)' <= store'[k][e].count
                         \/ ~ Exists(store'[k][e]) /\ clock' >= Begins(e) + WindowSeconds
                      /\ Exists(store'[k][e]) =>
                           store'[k][e].expires >= Begins(e) + WindowSeconds
    BY DEF PaidInTime, Exists, Begins
  <1>1. <<k, e>> \notin strayed
    BY DEF Next, Tick, Send, Eval, Return, Resend, Raise, vars
  <1>2. /\ Owed(k, e) <= Limit[k]
        /\ \/ Owed(k, e) <= store[k][e].count
           \/ ~ Exists(store[k][e]) /\ clock >= Begins(e) + WindowSeconds
        /\ Exists(store[k][e]) => store[k][e].expires >= Begins(e) + WindowSeconds
    BY <1>1 DEF PaymentInv, PaidInTime
  <1>3. /\ Owed(k, e) \in Nat /\ store[k][e].count \in Nat /\ store[k][e].expires \in Nat
        /\ Limit[k] \in Nat /\ clock \in Nat
    BY ChargesTyped DEF PaymentInv
  <1>4. Begins(e) \in Nat /\ WindowSeconds \in Nat
    <2>1. LastEpoch \in Nat
      BY EpochBegins, RedisLimiterAssumption DEF LastEpoch
    <2>2. e \in Nat
      BY <2>1
    <2>3. QED
      BY <2>2, BeginsTyped, RedisLimiterAssumption
  <1>5. Owed(k, e)' \in Nat /\ clock' \in Nat
    <2>1. \A c \in Callers : Charges(k, e)'[c] \in Nat
      BY DEF TypeOK, Call, Charge, Charges
    <2>2. SumFunctionOnSet(Charges(k, e)', Callers) \in Nat /\ granted'[k][e] \in Nat
      BY <2>1, SumNat, RedisLimiterAssumption DEF TypeOK
    <2>3. clock' \in Nat
      BY RedisLimiterAssumption DEF TypeOK
    <2>4. QED
      BY <2>2, <2>3 DEF Owed
  <1>6. CASE store'[k][e] = store[k][e] /\ Owed(k, e)' <= Owed(k, e) /\ clock <= clock'
    BY <1>2, <1>3, <1>4, <1>5, <1>6
  <1>7. CASE /\ ~ Exists(store'[k][e]) /\ clock' >= store[k][e].expires
             /\ Exists(store[k][e]) /\ Owed(k, e)' = Owed(k, e)
    BY <1>2, <1>3, <1>4, <1>5, <1>7
  <1>8. ASSUME NEW c \in Callers, Eval(c), call[c].key = k, call[c].epoch = e,
               Owed(k, e)' = Owed(k, e) + call[c].cost,
               store'[k][e].count = store[k][e].count + call[c].cost,
               store'[k][e].count <= Limit[k],
               store'[k][e].expires = IF Exists(store[k][e]) THEN store[k][e].expires
                                                             ELSE clock + WindowSeconds
        PROVE  /\ Owed(k, e)' <= Limit[k]
               /\ Owed(k, e)' <= store'[k][e].count
               /\ store'[k][e].expires >= Begins(e) + WindowSeconds
    <2>1. EpochOf(clock) = e
      BY <1>8 DEF Eval
    <2>2. Begins(e) <= clock /\ clock < Begins(e) + WindowSeconds
      BY <1>3, <2>1, EpochBegins
    <2>3. Owed(k, e) <= store[k][e].count
      BY <1>2, <1>3, <1>4, <2>2
    <2>4. call[c].cost \in Nat
      BY DEF PaymentInv, TypeOK, Call
    <2>5. QED
      BY <1>2, <1>3, <1>4, <1>5, <1>8, <2>2, <2>3, <2>4
  <1>9. QED
    BY <1>6, <1>7, <1>8, CounterSteps DEF PaymentInv

LEMMA PaymentInit == Init => PaymentInv
  <1> SUFFICES ASSUME Init PROVE PaymentInv
    OBVIOUS
  <1>1. TypeOK
    BY TypeInit
  <1>2. \A k \in Keys, e \in 0..LastEpoch :
          store[k][e] = Absent /\ granted[k][e] = 0 /\ Limit[k] \in Nat
    BY RedisLimiterAssumption DEF Init
  <1>3. ASSUME NEW k \in Keys, NEW e \in 0..LastEpoch PROVE Owed(k, e) = 0
    <2>1. \A c \in Callers : Charges(k, e)[c] \in Nat /\ Charges(k, e)[c] <= 0
      BY DEF Init, Charges, Charge
    <2>2. SumFunctionOnSet(Charges(k, e), Callers) <= Cardinality(Callers) * 0
      BY <2>1, SumBounded, RedisLimiterAssumption
    <2>3. SumFunctionOnSet(Charges(k, e), Callers) \in Nat
      BY <2>1, SumNat, RedisLimiterAssumption
    <2>4. Cardinality(Callers) \in Nat
      BY FS_CardinalityType, RedisLimiterAssumption
    <2>5. QED
      BY <1>2, <2>2, <2>3, <2>4 DEF Owed
  <1>4. CountsWithin /\ \A k \in Keys, e \in 0..LastEpoch : PaidInTime(k, e)
    BY <1>2, <1>3 DEF CountsWithin, PaidInTime, Absent, Exists
  <1>5. \A c \in Callers : CallDated(c)
    BY DEF Init, CallDated
  <1>6. QED
    BY <1>1, <1>4, <1>5 DEF PaymentInv

LEMMA PaymentStep == PaymentInv /\ [Next]_vars => PaymentInv'
  <1> SUFFICES ASSUME PaymentInv, [Next]_vars PROVE PaymentInv'
    OBVIOUS
  <1>1. TypeOK /\ TypeOK' /\ CountsWithin /\ \A c \in Callers : CallDated(c)
    BY TypeStep DEF PaymentInv
  <1>2. CountsWithin'
    BY <1>1, CountsStep
  <1>3. (\A c \in Callers : CallDated(c))'
    BY <1>1, DatedStep
  <1>4. (\A k \in Keys, e \in 0..LastEpoch : PaidInTime(k, e))'
    <2>1. \A k \in Keys, e \in 0..LastEpoch : PaidInTime(k, e)'
      BY <1>1, PaidStep
    <2>2. QED
      BY <2>1 DEF LastEpoch, EpochOf
  <1>5. QED
    BY <1>1, <1>2, <1>3, <1>4 DEF PaymentInv

(* A script that answers yes is paid for by the counter, whatever replies  *)
(* are lost and whatever is sent twice.                                    *)
THEOREM AdmissionsPaid == Spec => []GrantsArePaid
  <1>1. PaymentInv => GrantsArePaid
    <2> SUFFICES ASSUME PaymentInv, NEW k \in Keys, NEW e \in 0..LastEpoch,
                        Exists(store[k][e]), <<k, e>> \notin strayed
                 PROVE  granted[k][e] <= store[k][e].count
      BY DEF GrantsArePaid
    <2>1. Owed(k, e) <= store[k][e].count
      BY DEF PaymentInv, PaidInTime
    <2>2. /\ granted[k][e] \in Nat /\ Owed(k, e) \in Nat /\ store[k][e].count \in Nat
          /\ granted[k][e] <= Owed(k, e)
      BY ChargesTyped DEF PaymentInv
    <2>3. QED
      BY <2>1, <2>2
  <1>2. QED
    BY <1>1, PaymentInit, PaymentStep, PTL DEF Spec

(* Skew and delay together are no longer than a window.  The code does not *)
(* enforce it: it is of the clocks, of the network and of the window that  *)
(* is configured.                                                          *)
CallsArePrompt == \A c \in Callers : Skew[c] + MaxDelay <= WindowSeconds

(* How often a window's counter can have started over: not yet; once, its  *)
(* first run ended; twice, and then no script names the window any more.   *)
Round(k, e, before) ==
  /\ Owed(k, e) <= before * Limit[k] + store[k][e].count
  /\ Exists(store[k][e]) =>
       store[k][e].expires >= Begins(e) + before * WindowSeconds + MaxDelay

AtMostTwice(k, e) ==
  \/ Round(k, e, 0)
  \/ Round(k, e, 1) /\ clock >= Begins(e) + MaxDelay
  \/ Owed(k, e) <= 2 * Limit[k] /\ clock >= Begins(e) + WindowSeconds + MaxDelay

TwiceInv == \A k \in Keys, e \in 0..LastEpoch : AtMostTwice(k, e)

LEMMA TwiceStep ==
  ASSUME CallsArePrompt, PaymentInv, PaymentInv', TwiceInv, [Next]_vars
  PROVE  TwiceInv'
  <1> SUFFICES ASSUME NEW k \in Keys, NEW e \in 0..LastEpoch PROVE AtMostTwice(k, e)'
    <2>1. (\A k \in Keys, e \in 0..LastEpoch : AtMostTwice(k, e)) => TwiceInv
      BY DEF TwiceInv
    <2>2. QED
      BY DEF TwiceInv, LastEpoch, EpochOf
  <1> DEFINE A == Owed(k, e)  n == store[k][e].count  x == store[k][e].expires
             B == Begins(e)  W == WindowSeconds  D == MaxDelay  L == Limit[k]
  <1>1. /\ A \in Nat /\ n \in Nat /\ x \in Nat /\ L \in Nat /\ clock \in Nat /\ n <= L
    BY ChargesTyped DEF PaymentInv, CountsWithin
  <1>2. /\ A' \in Nat /\ n' \in Nat /\ x' \in Nat /\ clock' \in Nat
    <2>0. TypeOK'
      BY DEF PaymentInv
    <2>1. \A c \in Callers : Charges(k, e)'[c] \in Nat
      BY <2>0 DEF TypeOK, Call, Charge, Charges
    <2>2. SumFunctionOnSet(Charges(k, e)', Callers) \in Nat /\ granted'[k][e] \in Nat
      <3>1. SumFunctionOnSet(Charges(k, e)', Callers) \in Nat
        BY <2>1, SumNat, RedisLimiterAssumption
      <3>2. granted'[k][e] \in Nat
        BY <2>0 DEF TypeOK
      <3>3. QED
        BY <3>1, <3>2
    <2>3. clock' \in Nat /\ store'[k][e] \in Counter
      <3>1. clock' \in Nat
        BY <2>0, RedisLimiterAssumption DEF TypeOK
      <3>2. store'[k][e] \in Counter
        BY <2>0 DEF TypeOK
      <3>3. QED
        BY <3>1, <3>2
    <2>4. store'[k][e].count \in Nat /\ store'[k][e].expires \in Nat
      BY <2>3 DEF Counter
    <2>5. Owed(k, e)' = granted'[k][e] + SumFunctionOnSet(Charges(k, e)', Callers)
      BY DEF Owed
    <2>6. Owed(k, e)' \in Nat
      BY <2>2, <2>5
    <2>7. QED
      BY <2>3, <2>4, <2>6
  <1>3. B \in Nat /\ W \in Nat /\ D \in Nat
    <2>1. LastEpoch \in Nat
      BY EpochBegins, RedisLimiterAssumption DEF LastEpoch
    <2>2. e \in Nat
      BY <2>1
    <2>3. QED
      BY <2>2, BeginsTyped, RedisLimiterAssumption
  <1>4. AtMostTwice(k, e) <=>
          \/ A <= n /\ (n > 0 => x >= B + D)
          \/ A <= L + n /\ (n > 0 => x >= B + W + D) /\ clock >= B + D
          \/ A <= 2 * L /\ clock >= B + W + D
    BY <1>1, <1>3 DEF AtMostTwice, Round, Exists
  <1>5. AtMostTwice(k, e)' <=>
          \/ A' <= n' /\ (n' > 0 => x' >= B + D)
          \/ A' <= L + n' /\ (n' > 0 => x' >= B + W + D) /\ clock' >= B + D
          \/ A' <= 2 * L /\ clock' >= B + W + D
    BY <1>1, <1>2, <1>3 DEF AtMostTwice, Round, Exists, Begins
  <1>6. AtMostTwice(k, e)
    BY DEF TwiceInv
  <1>7. CASE store'[k][e] = store[k][e] /\ A' <= A /\ clock <= clock'
    <2>1. n' = n /\ x' = x
      BY <1>7
    <2> HIDE DEF A, n, x, B, W, D, L
    <2>2. QED
      BY <1>1, <1>2, <1>3, <1>4, <1>5, <1>6, <1>7, <2>1
  <1>8. CASE n' = 0 /\ clock' >= x /\ Exists(store[k][e]) /\ A' = A /\ clock <= clock'
    <2>1. n > 0
      BY <1>8 DEF Exists
    <2> HIDE DEF A, n, x, B, W, D, L
    <2>2. QED
      BY <1>1, <1>2, <1>3, <1>4, <1>5, <1>6, <1>8, <2>1
  <1>9. ASSUME NEW c \in Callers, Eval(c), call[c].key = k, call[c].epoch = e, clock' = clock,
               A' = A + call[c].cost, n' = n + call[c].cost,
               x' = IF Exists(store[k][e]) THEN x ELSE clock + W
        PROVE  AtMostTwice(k, e)'
    <2>1. pc[c] # "idle"
      BY <1>9 DEF Eval, Goto
    <2>2. TypeOK /\ CallDated(c)
      BY DEF PaymentInv
    <2>3. /\ B - Skew[c] <= clock /\ clock < B + W - Skew[c] + D /\ Skew[c] \in Nat
          /\ call[c].cost \in Nat
      BY <1>9, <2>1, <2>2, DatedRun
    <2>4. Skew[c] + D <= W
      BY DEF CallsArePrompt
    <2>5. clock < B + W + D /\ clock + W >= B + D
      BY <1>1, <1>3, <2>3, <2>4
    <2>6. x' = IF n > 0 THEN x ELSE clock + W
      BY <1>9 DEF Exists
    <2> DEFINE cost == call[c].cost
    <2>7. cost \in Nat /\ A' = A + cost /\ n' = n + cost /\ clock' = clock
      BY <1>9, <2>3
    <2> HIDE DEF A, n, x, B, W, D, L, cost
    <2>8. CASE A <= n /\ (n > 0 => x >= B + D)
      BY <1>1, <1>2, <1>3, <1>5, <2>5, <2>6, <2>7, <2>8
    <2>9. CASE A <= L + n /\ (n > 0 => x >= B + W + D) /\ clock >= B + D
      BY <1>1, <1>2, <1>3, <1>5, <2>5, <2>6, <2>7, <2>9
    <2>10. QED
      BY <1>1, <1>3, <1>4, <1>6, <2>5, <2>8, <2>9
  <1>10. clock <= clock'
    <2>1. CASE Tick
      BY <1>1, <2>1 DEF Tick
    <2>2. CASE clock' = clock
      BY <1>1, <2>2
    <2>3. QED
      BY <2>1, <2>2 DEF Next, Send, Eval, Return, Resend, Raise, vars
  <1>11. QED
    BY <1>7, <1>8, <1>9, <1>10, CounterSteps DEF PaymentInv

(* What a window admits stays within the limit while no script strays from *)
(* it, and within twice the limit whatever strays, when calls are prompt.  *)
THEOREM WindowsLimited == ASSUME CallsArePrompt PROVE Spec => []WindowLimit
  <1>1. Init => TwiceInv
    <2> SUFFICES ASSUME Init, NEW k \in Keys, NEW e \in 0..LastEpoch PROVE Round(k, e, 0)
      BY DEF TwiceInv, AtMostTwice
    <2>1. PaymentInv /\ strayed = {} /\ store[k][e] = Absent
      BY PaymentInit DEF Init
    <2>2. PaidInTime(k, e) /\ TypeOK
      BY <2>1 DEF PaymentInv
    <2>3. Owed(k, e) \in Nat /\ granted[k][e] = 0 /\ Limit[k] \in Nat
      BY <2>2, ChargesTyped DEF Init
    <2>4. Owed(k, e) = 0
      <3>1. \A c \in Callers : Charges(k, e)[c] \in Nat /\ Charges(k, e)[c] <= 0
        BY DEF Init, Charges, Charge
      <3>2. SumFunctionOnSet(Charges(k, e), Callers) <= Cardinality(Callers) * 0
        BY <3>1, SumBounded, RedisLimiterAssumption
      <3>3. Cardinality(Callers) \in Nat
        BY FS_CardinalityType, RedisLimiterAssumption
      <3>4. SumFunctionOnSet(Charges(k, e), Callers) \in Nat
        BY <3>1, SumNat, RedisLimiterAssumption
      <3>5. QED
        BY <2>3, <3>2, <3>3, <3>4 DEF Owed
    <2>5. QED
      BY <2>1, <2>3, <2>4 DEF Round, Exists, Absent
  <1>2. PaymentInv /\ PaymentInv' /\ TwiceInv /\ [Next]_vars => TwiceInv'
    BY TwiceStep
  <1>3. PaymentInv /\ TwiceInv => WindowLimit
    <2> SUFFICES ASSUME PaymentInv, TwiceInv, NEW k \in Keys, NEW e \in 0..LastEpoch
                 PROVE  granted[k][e] <= (IF <<k, e>> \in strayed THEN 2 ELSE 1) * Limit[k]
      BY DEF WindowLimit
    <2>1. /\ granted[k][e] \in Nat /\ Owed(k, e) \in Nat /\ granted[k][e] <= Owed(k, e)
          /\ Limit[k] \in Nat /\ store[k][e].count \in Nat /\ store[k][e].count <= Limit[k]
      BY ChargesTyped DEF PaymentInv, CountsWithin
    <2>2. <<k, e>> \notin strayed => Owed(k, e) <= Limit[k]
      BY DEF PaymentInv, PaidInTime
    <2>3. Owed(k, e) <= 2 * Limit[k]
      BY <2>1 DEF TwiceInv, AtMostTwice, Round
    <2>4. QED
      BY <2>1, <2>2, <2>3
  <1>4. QED
    BY <1>1, <1>2, <1>3, PaymentInit, PaymentStep, PTL DEF Spec
=============================================================================
