--------------------------- MODULE Identity_proofs ---------------------------
(***************************************************************************)
(* Theorems about DenialBudget, for any budget, window length and clock,   *)
(* and about Identity above it, for any settings, skew, lifetime and       *)
(* drift, and any tokens: what a use of a token tells of its moment.       *)
(***************************************************************************)
EXTENDS Identity, SumTheorems

LEMMA TypeInit == Init => TypeOK
  BY DenialBudgetAssumption DEF Init, TypeOK

LEMMA TypeStep == TypeOK /\ [Next]_vars => TypeOK'
  <1> SUFFICES ASSUME TypeOK, [Next]_vars PROVE TypeOK'
    OBVIOUS
  <1> USE DenialBudgetAssumption DEF TypeOK
  <1>1. CASE Tick
    BY <1>1 DEF Tick
  <1>2. CASE Allow
    <2>1. Counted \in 0..LimitPerMinute
      BY DEF Counted
    <2>2. count' \in 0..LimitPerMinute
      BY <1>2, <2>1 DEF Allow, Admitted
    <2>3. granted' \in [0..MaxClock -> Nat]
      BY <1>2 DEF Allow
    <2>4. windowStarted' \in 0..clock'
      BY <1>2 DEF Allow
    <2>5. QED
      BY <1>2, <2>2, <2>3, <2>4 DEF Allow
  <1>3. CASE UNCHANGED vars
    BY <1>3 DEF vars
  <1>4. QED
    BY <1>1, <1>2, <1>3 DEF Next

(* Every variable keeps its type; the count never passes the budget.       *)
THEOREM DenialTypeCorrect == Spec => []TypeOK
  BY TypeInit, TypeStep, PTL DEF Spec

(* A call is a step of the abstract window: it admits when one more denial *)
(* fits, and refuses without spending, perhaps restarting the window.      *)
LEMMA AllowRefines == ASSUME TypeOK, Allow PROVE Budget!Next
  <1> USE DEF Anonymous
  <1> DEFINE w == [k \in {Anonymous} |-> [open |-> TRUE, start |-> windowStarted, spent |-> count]]
  <1>1. w[Anonymous] = [open |-> TRUE, start |-> windowStarted, spent |-> count]
    OBVIOUS
  <1>2. Budget!Over(Anonymous) <=> WindowOver
    BY DEF Budget!Over, WindowOver
  <1>3. Budget!Spent(Anonymous) = Counted
    BY <1>2 DEF Budget!Spent, Counted
  <1>4. Budget!Fits(Anonymous, 1) <=> Admitted
    BY <1>3, DenialBudgetAssumption DEF Budget!Fits, Admitted, Counted, TypeOK
  <1>5. CASE Admitted
    <2>1. Budget!Admit(Anonymous, 1)
      BY <1>2, <1>3, <1>4, <1>5 DEF Allow, Budget!Admit, Budget!Opened
    <2>2. QED
      BY <2>1 DEF Budget!Next
  <1>6. CASE ~ Admitted
    <2>1. verdict' = Budget!Decision(Anonymous, 1, FALSE) /\ UNCHANGED clock
      <3>1. Admitted = FALSE
        BY <1>6 DEF Admitted
      <3>2. QED
        BY <3>1 DEF Allow
    <2>2. Budget!Refuse(Anonymous, 1)
      <3>1. CASE WindowOver
        <4>1. windowStarted' = clock /\ count' = 0
          BY <1>6, <3>1 DEF Allow, Counted
        <4>2. QED
          BY <1>2, <1>4, <1>6, <2>1, <3>1, <4>1 DEF Budget!Refuse, Budget!Opened
      <3>2. CASE ~ WindowOver
        <4>1. windowStarted' = windowStarted /\ count' = count
          BY <1>6, <3>2 DEF Allow, Counted
        <4>2. QED
          BY <1>4, <1>6, <2>1, <4>1 DEF Budget!Refuse
      <3>3. QED
        BY <3>1, <3>2
    <2>3. QED
      BY <2>2 DEF Budget!Next
  <1>7. QED
    BY <1>5, <1>6

(* The denial budget implements the abstract fixed window.                 *)
THEOREM BudgetImplemented == Spec => ImplementsBudget
  <1>1. Init => Budget!Init
    BY DEF Init, Budget!Init, Budget!Opened
  <1>2. TypeOK /\ [Next]_vars => [Budget!Next]_(Budget!budgetVars)
    <2> SUFFICES ASSUME TypeOK, [Next]_vars PROVE [Budget!Next]_(Budget!budgetVars)
      OBVIOUS
    <2>1. CASE Tick
      BY <2>1 DEF Tick, TypeOK, Budget!Next, Budget!ReadClock
    <2>2. CASE Allow
      BY <2>2, AllowRefines
    <2>3. CASE UNCHANGED vars
      BY <2>3 DEF vars, Budget!budgetVars
    <2>4. QED
      BY <2>1, <2>2, <2>3 DEF Next
  <1>3. QED
    BY <1>1, <1>2, TypeInit, TypeStep, PTL DEF Spec, ImplementsBudget, Budget!Spec

-----------------------------------------------------------------------------
(* What was granted before the window in force, in the ticks that a        *)
(* stretch as long as a window can share with it, and what since.          *)
Stretch(n) == (n .. n + WindowSeconds - 1) \cap 0..MaxClock

JustBefore == (windowStarted - WindowSeconds + 1 .. windowStarted - 1) \cap 0..MaxClock

Since == windowStarted..MaxClock

(* No denial was granted later than now, nor in the ticks in which the     *)
(* window in force is over, for the first call there restarts it.          *)
NothingLater ==
  \A n \in 0..MaxClock : n > clock \/ n >= windowStarted + WindowSeconds => granted[n] = 0

MinuteInv ==
  /\ TypeOK
  /\ NothingLater
  /\ GrantedIn(Since) = count
  /\ GrantedIn(JustBefore) <= LimitPerMinute
  /\ AnyMinuteBounded

LEMMA TicksBefore ==
  ASSUME NEW s \in Int, NEW n \in Int, NEW i \in (s - n + 1 .. s - 1) \cap 0..MaxClock
  PROVE  i \in 0..MaxClock /\ i <= s - 1
  OBVIOUS

LEMMA TicksFinite ==
  /\ IsFiniteSet(0..MaxClock)
  /\ \A S \in SUBSET (0..MaxClock) : IsFiniteSet(S)
  <1>1. IsFiniteSet(0..MaxClock)
    BY FS_Interval, DenialBudgetAssumption
  <1>2. QED
    BY <1>1, FS_Subset

LEMMA GrantedTyped ==
  ASSUME TypeOK, NEW S \in SUBSET (0..MaxClock)
  PROVE  GrantedIn(S) \in Nat
  <1>1. IsFiniteSet(S) /\ \A n \in S : granted[n] \in Nat
    BY TicksFinite DEF TypeOK
  <1>2. QED
    BY <1>1, SumNat DEF GrantedIn

LEMMA GrantedWithin ==
  ASSUME TypeOK, NEW S \in SUBSET (0..MaxClock), NEW T \in SUBSET S
  PROVE  GrantedIn(T) <= GrantedIn(S)
  <1>1. IsFiniteSet(S) /\ \A n \in S : granted[n] \in Nat
    BY TicksFinite DEF TypeOK
  <1>2. QED
    BY <1>1, SumSubset DEF GrantedIn

LEMMA NothingGranted ==
  ASSUME NEW S \in SUBSET (0..MaxClock), \A n \in S : granted[n] = 0
  PROVE  GrantedIn(S) = 0
  <1>1. IsFiniteSet(S) /\ \A n \in S : granted[n] \in Nat /\ granted[n] <= 0
    BY TicksFinite
  <1>2. Cardinality(S) \in Nat
    BY <1>1, FS_CardinalityType
  <1>3. SumFunctionOnSet(granted, S) <= Cardinality(S) * 0
    BY <1>1, SumBounded
  <1>4. SumFunctionOnSet(granted, S) \in Nat
    BY <1>1, SumNat
  <1>5. QED
    BY <1>2, <1>3, <1>4 DEF GrantedIn

LEMMA OneMoreGranted ==
  ASSUME NEW S, IsFiniteSet(S), clock \in S,
         \A n \in S : granted[n] \in Int /\ granted'[n] \in Int,
         \A n \in S \ {clock} : granted'[n] = granted[n]
  PROVE  SumFunctionOnSet(granted', S)
           = SumFunctionOnSet(granted, S) - granted[clock] + granted'[clock]
  BY SumUpdate

(* An answer counts in the ticks that include the present one.             *)
LEMMA GrantedAfter ==
  ASSUME TypeOK, Allow, NEW S \in SUBSET (0..MaxClock)
  PROVE  GrantedIn(S)' = GrantedIn(S) + (IF clock \in S /\ Admitted THEN 1 ELSE 0)
  <1>1. IsFiniteSet(S)
    BY TicksFinite
  <1>2. GrantedIn(S)' = SumFunctionOnSet(granted', S) /\ GrantedIn(S) \in Nat
    BY GrantedTyped DEF GrantedIn
  <1>3. clock \in 0..MaxClock /\ granted \in [0..MaxClock -> Nat]
    BY DEF TypeOK
  <1>4. CASE ~ Admitted
    <2>1. granted' = granted
      BY <1>4 DEF Allow
    <2>2. QED
      BY <1>2, <1>4, <2>1 DEF GrantedIn
  <1>5. CASE Admitted
    <2>1. granted' = [granted EXCEPT ![clock] = @ + 1]
      BY <1>5 DEF Allow
    <2>2. /\ \A n \in S : granted[n] \in Int /\ granted'[n] \in Int
          /\ \A n \in S \ {clock} : granted'[n] = granted[n]
          /\ granted'[clock] = granted[clock] + 1
      BY <1>3, <2>1
    <2>3. CASE clock \in S
      <3>1. SumFunctionOnSet(granted', S)
              = SumFunctionOnSet(granted, S) - granted[clock] + granted'[clock]
        <4>1. \A n \in S : granted[n] \in Int /\ granted'[n] \in Int
          BY <2>2
        <4>2. \A n \in S \ {clock} : granted'[n] = granted[n]
          BY <2>2
        <4>3. QED
          BY <1>1, <2>3, <4>1, <4>2, OneMoreGranted
      <3>2. QED
        BY <1>2, <1>3, <1>5, <2>2, <2>3, <3>1 DEF GrantedIn
    <2>4. CASE clock \notin S
      <3>1. \A n \in S : granted[n] \in Int /\ granted'[n] = granted[n]
        BY <2>2, <2>4
      <3>2. SumFunctionOnSet(granted', S) = SumFunctionOnSet(granted, S)
        BY <1>1, <3>1, SumSame
      <3>3. QED
        BY <1>2, <2>4, <3>2 DEF GrantedIn
    <2>5. QED
      BY <2>3, <2>4
  <1>6. QED
    BY <1>4, <1>5

LEMMA MinuteInit == Init => MinuteInv
  <1> SUFFICES ASSUME Init PROVE MinuteInv
    OBVIOUS
  <1>1. TypeOK
    BY TypeInit
  <1>2. \A n \in 0..MaxClock : granted[n] = 0
    BY DEF Init
  <1>3. \A S \in SUBSET (0..MaxClock) : GrantedIn(S) = 0
    BY <1>2, NothingGranted
  <1>4. /\ Since \in SUBSET (0..MaxClock) /\ JustBefore \in SUBSET (0..MaxClock)
        /\ \A n \in 0..MaxClock : Stretch(n) \in SUBSET (0..MaxClock)
    BY DenialBudgetAssumption DEF Init, Since, JustBefore, Stretch
  <1>5. GrantedIn(Since) = 0 /\ GrantedIn(JustBefore) = 0
    BY <1>3, <1>4
  <1>6. AnyMinuteBounded
    <2> SUFFICES ASSUME NEW n \in 0..MaxClock PROVE GrantedIn(Stretch(n)) <= 2 * LimitPerMinute
      BY DEF AnyMinuteBounded, Stretch
    <2>1. GrantedIn(Stretch(n)) = 0
      BY <1>3, <1>4
    <2>2. QED
      BY <2>1, DenialBudgetAssumption
  <1>7. QED
    BY <1>1, <1>2, <1>5, <1>6, DenialBudgetAssumption DEF MinuteInv, NothingLater, Init

(* The window in force, as the call leaves it, holds what was granted      *)
(* since it began, and what was just before it is at most one budget.      *)
LEMMA WindowStep ==
  ASSUME MinuteInv, Allow
  PROVE  /\ GrantedIn(Since)' = count'
         /\ GrantedIn(JustBefore)' <= LimitPerMinute
         /\ NothingLater'
  <1> USE DenialBudgetAssumption
  <1>1. /\ TypeOK /\ TypeOK' /\ clock' = clock
        /\ clock \in 0..MaxClock /\ windowStarted \in 0..clock /\ count \in 0..LimitPerMinute
        /\ granted \in [0..MaxClock -> Nat] /\ windowStarted' \in 0..clock
    <2>1. TypeOK
      BY DEF MinuteInv
    <2>2. TypeOK'
      BY <2>1, TypeStep DEF Next
    <2>3. QED
      BY <2>1, <2>2 DEF Allow, TypeOK
  <1>2. /\ Since \in SUBSET (0..MaxClock) /\ JustBefore \in SUBSET (0..MaxClock)
        /\ Since' \in SUBSET (0..MaxClock) /\ JustBefore' \in SUBSET (0..MaxClock)
        /\ clock \in Since' /\ clock \in Since /\ clock \notin JustBefore'
    <2>1. Since \in SUBSET (0..MaxClock) /\ JustBefore \in SUBSET (0..MaxClock) /\ clock \in Since
      BY <1>1 DEF Since, JustBefore
    <2>2. Since' \in SUBSET (0..MaxClock) /\ clock \in Since'
      BY <1>1 DEF Since
    <2>3. JustBefore' \in SUBSET (0..MaxClock) /\ clock \notin JustBefore'
      <3>1. WindowSeconds \in Int /\ windowStarted' \in Int /\ MaxClock \in Int
        BY <1>1
      <3>2. \A i \in JustBefore' : i \in 0..MaxClock /\ i <= windowStarted' - 1
        BY <3>1, TicksBefore DEF JustBefore
      <3>3. QED
        BY <1>1, <3>2
    <2>4. QED
      BY <2>1, <2>2, <2>3
  <1>3. \A S \in SUBSET (0..MaxClock) :
          GrantedIn(S)' = GrantedIn(S) + (IF clock \in S /\ Admitted THEN 1 ELSE 0)
    BY <1>1, GrantedAfter
  <1>4. \A S \in SUBSET (0..MaxClock) : GrantedIn(S) \in Nat
    BY <1>1, GrantedTyped
  <1>5. /\ GrantedIn(Since)' = SumFunctionOnSet(granted', Since')
        /\ GrantedIn(JustBefore)' = SumFunctionOnSet(granted', JustBefore')
        /\ \A S : GrantedIn(S)' = SumFunctionOnSet(granted', S)
    BY DEF GrantedIn
  <1>6. CASE WindowOver
    <2>1. windowStarted' = clock /\ clock >= windowStarted + WindowSeconds
      BY <1>1, <1>6 DEF Allow, WindowOver
    <2>2. \A n \in Since' : granted[n] = 0
      BY <1>1, <2>1 DEF Since, MinuteInv, NothingLater
    <2>3. GrantedIn(Since') = 0
      BY <1>2, <2>2, NothingGranted
    <2>4. GrantedIn(Since)' = count'
      <3>1. GrantedIn(Since)' = IF Admitted THEN 1 ELSE 0
        BY <1>2, <1>3, <1>5, <2>3
      <3>2. count' = IF Admitted THEN 1 ELSE 0
        BY <1>6 DEF Allow, Counted
      <3>3. QED
        BY <3>1, <3>2
    <2>5. JustBefore' \in SUBSET Since
      BY <1>1, <2>1 DEF JustBefore, Since
    <2>6. GrantedIn(JustBefore') <= GrantedIn(Since) /\ GrantedIn(Since) = count
      BY <1>1, <1>2, <2>5, GrantedWithin DEF MinuteInv
    <2>7. GrantedIn(JustBefore)' <= LimitPerMinute
      BY <1>1, <1>2, <1>3, <1>4, <1>5, <2>6
    <2>8. NothingLater'
      BY <1>1, <2>1 DEF Allow, MinuteInv, NothingLater
    <2>9. QED
      BY <2>4, <2>7, <2>8
  <1>7. CASE ~ WindowOver
    <2>1. windowStarted' = windowStarted /\ clock < windowStarted + WindowSeconds
      BY <1>1, <1>7 DEF Allow, WindowOver
    <2>2. Since' = Since /\ JustBefore' = JustBefore
      BY <2>1 DEF Since, JustBefore
    <2>3. GrantedIn(Since)' = count'
      <3>1. GrantedIn(Since)' = count + (IF Admitted THEN 1 ELSE 0)
        BY <1>2, <1>3, <1>5, <2>2 DEF MinuteInv
      <3>2. count' = IF Admitted THEN count + 1 ELSE count
        BY <1>7 DEF Allow, Counted
      <3>3. QED
        BY <1>1, <3>1, <3>2
    <2>4. GrantedIn(JustBefore)' <= LimitPerMinute
      BY <1>2, <1>3, <1>4, <1>5, <2>2 DEF MinuteInv
    <2>5. NothingLater'
      BY <1>1, <2>1 DEF Allow, MinuteInv, NothingLater
    <2>6. QED
      BY <2>3, <2>4, <2>5
  <1>8. QED
    BY <1>6, <1>7

LEMMA MinuteStep == MinuteInv /\ [Next]_vars => MinuteInv'
  <1> SUFFICES ASSUME MinuteInv, [Next]_vars PROVE MinuteInv'
    OBVIOUS
  <1> USE DenialBudgetAssumption
  <1>1. TypeOK /\ TypeOK'
    BY TypeStep DEF MinuteInv
  <1>2. CASE Tick \/ UNCHANGED vars
    <2>1. UNCHANGED <<windowStarted, count, granted>> /\ clock' >= clock
      BY <1>1, <1>2 DEF Tick, vars, TypeOK
    <2>2. NothingLater'
      BY <1>1, <2>1 DEF MinuteInv, NothingLater, TypeOK
    <2>3. /\ GrantedIn(Since)' = count' /\ GrantedIn(JustBefore)' <= LimitPerMinute
          /\ AnyMinuteBounded'
      BY <2>1 DEF MinuteInv, GrantedIn, Since, JustBefore, AnyMinuteBounded
    <2>4. QED
      BY <1>1, <2>2, <2>3 DEF MinuteInv
  <1>3. CASE Allow
    <2>1. /\ GrantedIn(Since)' = count' /\ GrantedIn(JustBefore)' <= LimitPerMinute
          /\ NothingLater'
      BY <1>3, WindowStep
    <2>2. AnyMinuteBounded'
      <3> SUFFICES ASSUME NEW n \in 0..MaxClock
                   PROVE  GrantedIn(Stretch(n))' <= 2 * LimitPerMinute
        BY DEF AnyMinuteBounded, Stretch
      <3> DEFINE T == Stretch(n)
      <3>1. T \in SUBSET (0..MaxClock)
        BY DEF Stretch
      <3>2. GrantedIn(Stretch(n))' = GrantedIn(T)'
        BY DEF GrantedIn, Stretch
      <3>3. CASE clock \notin T
        <4>1. GrantedIn(T)' = GrantedIn(T) + 0
          BY <1>1, <1>3, <3>1, <3>3, GrantedAfter
        <4>2. GrantedIn(T) \in Nat /\ GrantedIn(T) <= 2 * LimitPerMinute
          BY <1>1, <3>1, GrantedTyped DEF MinuteInv, AnyMinuteBounded, Stretch
        <4>3. QED
          BY <3>2, <4>1, <4>2
      <3>4. CASE clock \in T
        <4>1. T \subseteq JustBefore' \cup Since'
          BY <1>1, <1>3, <3>4 DEF Stretch, JustBefore, Since, TypeOK, Allow
        <4>2. /\ JustBefore' \in SUBSET (0..MaxClock) /\ Since' \in SUBSET (0..MaxClock)
              /\ JustBefore' \cap Since' = {}
          <5>1. windowStarted' \in 0..MaxClock
            BY <1>1 DEF TypeOK
          <5>2. JustBefore' \in SUBSET (0..MaxClock)
            BY DEF JustBefore
          <5>3. Since' \in SUBSET (0..MaxClock)
            BY <5>1 DEF Since
          <5>4. \A i \in JustBefore' : i \notin Since'
            <6>0. WindowSeconds \in Int /\ windowStarted' \in Int /\ MaxClock \in Int
              BY <5>1
            <6>1. \A i \in JustBefore' : i \in 0..MaxClock /\ i <= windowStarted' - 1
              BY <6>0, TicksBefore DEF JustBefore
            <6>2. \A i \in Since' : windowStarted' <= i
              BY <5>1 DEF Since
            <6>3. QED
              BY <5>1, <6>1, <6>2
          <5>5. QED
            BY <5>2, <5>3, <5>4
        <4>3. /\ IsFiniteSet(JustBefore') /\ IsFiniteSet(Since')
              /\ IsFiniteSet(JustBefore' \cup Since')
              /\ \A i \in JustBefore' \cup Since' : granted'[i] \in Nat
          <5>1. JustBefore' \cup Since' \in SUBSET (0..MaxClock)
            BY <4>2
          <5>2. IsFiniteSet(JustBefore') /\ IsFiniteSet(Since') /\ IsFiniteSet(JustBefore' \cup Since')
            BY <4>2, <5>1, TicksFinite
          <5>3. QED
            BY <1>1, <5>1, <5>2 DEF TypeOK
        <4>4. SumFunctionOnSet(granted', JustBefore' \cup Since')
                = SumFunctionOnSet(granted', JustBefore') + SumFunctionOnSet(granted', Since')
          <5>1. \A i \in JustBefore' \cup Since' : granted'[i] \in Int
            BY <4>3
          <5>2. QED
            BY <4>2, <4>3, <5>1, SumSplit
        <4>5. SumFunctionOnSet(granted', T)
                <= SumFunctionOnSet(granted', JustBefore' \cup Since')
          BY <4>1, <4>3, SumSubset
        <4>6. /\ SumFunctionOnSet(granted', JustBefore') <= LimitPerMinute
              /\ SumFunctionOnSet(granted', Since') <= LimitPerMinute
          BY <1>1, <2>1 DEF GrantedIn, TypeOK
        <4>7. /\ SumFunctionOnSet(granted', JustBefore') \in Nat
              /\ SumFunctionOnSet(granted', Since') \in Nat
              /\ SumFunctionOnSet(granted', T) \in Nat
          <5>1. IsFiniteSet(T) /\ \A i \in T : granted'[i] \in Nat
            BY <3>1, <4>1, <4>3, TicksFinite
          <5>2. QED
            BY <4>3, <5>1, SumNat
        <4>8. QED
          BY <3>2, <4>4, <4>5, <4>6, <4>7 DEF GrantedIn
      <3>5. QED
        BY <3>3, <3>4
    <2>3. QED
      BY <1>1, <2>1, <2>2 DEF MinuteInv
  <1>4. QED
    BY <1>2, <1>3 DEF Next

(* No stretch as long as a window holds more than twice the budget: what   *)
(* it shares with the window in force is at most one budget, and so is     *)
(* what it shares with the one before.                                     *)
THEOREM MinuteBounded == Spec => []AnyMinuteBounded
  <1>1. MinuteInv => AnyMinuteBounded
    BY DEF MinuteInv
  <1>2. QED
    BY <1>1, MinuteInit, MinuteStep, PTL DEF Spec

-----------------------------------------------------------------------------
(* A token was minted at a moment that has passed.                         *)
TokenDated == token.exists => token.minted <= clock

(* Each use was made while the token was, by the wall clock, neither too   *)
(* young nor expired, and so near those moments by the true time.          *)
UsedInTime ==
  used.ever =>
    /\ token.exists /\ token.exp \in Int
    /\ token.exp - (MaxLifetime + ClockSkew + MaxDrift) <= used.first
    /\ used.latest <= token.exp + ClockSkew + MaxDrift

AuthInv == AuthTypeOK /\ TokenDated /\ UsedInTime /\ FreshTokensWork

LEMMA DriftBounded ==
  ASSUME AuthTypeOK
  PROVE  /\ Wall \in Int /\ clock \in Nat
         /\ Wall <= clock + MaxDrift /\ clock <= Wall + MaxDrift
  BY DenialBudgetAssumption, IdentityAssumption DEF AuthTypeOK, TypeOK, Drifts, Wall

LEMMA TokenTyped ==
  ASSUME AuthTypeOK, token.exists
  PROVE  token \in Token /\ token.minted \in Nat /\ token.exp \in Int \cup {Absent}
  <1>1. token \in Token
    BY DEF AuthTypeOK, NoToken
  <1>2. QED
    BY <1>1 DEF Token

LEMMA AuthInitial == AuthInit => AuthInv
  <1> SUFFICES ASSUME AuthInit PROVE AuthInv
    OBVIOUS
  <1>1. TypeOK
    BY TypeInit DEF AuthInit
  <1>2. AuthTypeOK
    BY <1>1, IdentityAssumption DEF AuthInit, AuthTypeOK, Unused
  <1>3. QED
    BY <1>2 DEF AuthInit, AuthInv, TokenDated, UsedInTime, FreshTokensWork, NoToken, Unused

LEMMA MintStep == ASSUME AuthInv, Mint PROVE AuthInv'
  <1> USE DEF AuthInv
  <1>1. PICK shape \in Shapes :
          token' = [exists |-> TRUE, defect |-> shape.defect, minted |-> clock,
                    exp |-> IF Present(shape.life) THEN clock + shape.life ELSE Absent,
                    nbf |-> IF Present(shape.delay) THEN clock + shape.delay ELSE Absent,
                    iat |-> IF shape.dated THEN clock ELSE Absent]
    BY DEF Mint
  <1>2. clock \in Nat
    BY DriftBounded
  <1>3. /\ shape.defect \in Defects /\ shape.dated \in BOOLEAN
        /\ shape.life \in Nat \cup {Absent} /\ shape.delay \in Nat \cup {Absent}
    BY IdentityAssumption DEF Shape
  <1>4. /\ (IF Present(shape.life) THEN clock + shape.life ELSE Absent) \in Int \cup {Absent}
        /\ (IF Present(shape.delay) THEN clock + shape.delay ELSE Absent) \in Int \cup {Absent}
        /\ (IF shape.dated THEN clock ELSE Absent) \in Int \cup {Absent}
    BY <1>2, <1>3 DEF Present
  <1>5. token' \in Token
    BY <1>1, <1>2, <1>3, <1>4 DEF Token
  <1>6. UNCHANGED <<vars, settings, drift, used, answered, turnedAway>>
    BY DEF Mint
  <1>7. TypeOK'
    BY <1>6 DEF AuthTypeOK, TypeOK, vars
  <1>8. AuthTypeOK'
    BY <1>5, <1>6, <1>7 DEF AuthTypeOK
  <1>9. TokenDated'
    BY <1>1, <1>2, <1>6 DEF TokenDated, vars
  <1>10. UsedInTime'
    BY <1>6 DEF Mint, UsedInTime
  <1>11. FreshTokensWork'
    BY <1>6 DEF FreshTokensWork
  <1>12. QED
    BY <1>8, <1>9, <1>10, <1>11

(* A token that is fresh passes every date, read through the drift.        *)
LEMMA FreshIsVerified ==
  ASSUME AuthTypeOK, TokenDated, MaxDrift <= ClockSkew, Fresh(token)
  PROVE  Verified(token, Wall)
  <1> USE DriftBounded, IdentityAssumption
  <1>1. token \in Token /\ token.minted <= clock
    BY DEF AuthTypeOK, Fresh, NoToken, TokenDated
  <1>2. /\ token.minted \in Nat
        /\ token.exp \in Int \cup {Absent} /\ token.nbf \in Int \cup {Absent}
        /\ token.iat \in Int \cup {Absent}
    BY <1>1 DEF Token
  <1>3. ExpiryWithin(token.exp, Wall)
    BY <1>1, <1>2 DEF Fresh, ExpiryWithin, Present
  <1>4. Begun(token.nbf, Wall)
    BY <1>2 DEF Fresh, Begun, Present
  <1>5. Begun(token.iat, Wall)
    BY <1>1, <1>2 DEF Fresh, Begun, Present
  <1>6. QED
    BY <1>3, <1>4, <1>5 DEF Fresh, Verified

LEMMA RequestStep ==
  ASSUME AuthInv, NEW authorization \in Authorizations, NEW demo \in DemoHeaders,
         Request(authorization, demo)
  PROVE  AuthInv'
  <1> USE DriftBounded, IdentityAssumption DEF AuthInv
  <1> DEFINE accepted == Somebody(authorization, demo)
  <1>1. UNCHANGED <<vars, settings, drift, token>>
    BY DEF Request
  <1>2. TypeOK'
    BY <1>1 DEF AuthTypeOK, TypeOK, vars
  <1>3. accepted \in BOOLEAN
    BY DEF Somebody, Verified, DemoAccepted
  <1>4. /\ answered' = [fresh |-> authorization = "token" /\ Fresh(token), accepted |-> accepted]
        /\ used' = IF authorization = "token" /\ accepted THEN Use ELSE used
        /\ turnedAway' \in 0 .. MaxTurnedAway
    <2>1. turnedAway' = turnedAway \/ (turnedAway < MaxTurnedAway /\ turnedAway' = turnedAway + 1)
      BY DEF Request
    <2>2. turnedAway' \in 0 .. MaxTurnedAway
      BY <2>1 DEF AuthTypeOK
    <2>3. QED
      BY <2>2 DEF Request
  <1> HIDE DEF accepted
  <1>5. used' \in [ever : BOOLEAN, first : Nat, latest : Nat]
    BY <1>4 DEF Use, AuthTypeOK
  <1>6. AuthTypeOK'
    BY <1>1, <1>2, <1>3, <1>4, <1>5 DEF AuthTypeOK
  <1>7. TokenDated'
    BY <1>1 DEF TokenDated, vars
  <1>8. UsedInTime'
    <2>1. CASE authorization = "token" /\ accepted
      <3>1. token.exists /\ Verified(token, Wall)
        BY <2>1 DEF Request, Somebody, accepted
      <3>2. token.exp \in Int
        BY <3>1, TokenTyped DEF Verified, ExpiryWithin, Present
      <3>3. /\ token.exp - (MaxLifetime + ClockSkew + MaxDrift) <= clock
            /\ clock <= token.exp + ClockSkew + MaxDrift
        BY <3>1, <3>2 DEF Verified, ExpiryWithin
      <3>4. used' = Use
        BY <1>4, <2>1
      <3>5. CASE used.ever
        BY <1>1, <3>1, <3>2, <3>3, <3>4, <3>5 DEF Use, UsedInTime
      <3>6. CASE ~ used.ever
        BY <1>1, <3>1, <3>2, <3>3, <3>4, <3>6 DEF Use, UsedInTime
      <3>7. QED
        BY <3>5, <3>6
    <2>2. CASE ~ (authorization = "token" /\ accepted)
      BY <1>1, <1>4, <2>2 DEF UsedInTime
    <2>3. QED
      BY <2>1, <2>2
  <1>9. FreshTokensWork'
    <2> SUFFICES ASSUME MaxDrift <= ClockSkew, authorization = "token", Fresh(token)
                 PROVE  accepted
      BY <1>4 DEF FreshTokensWork
    <2>1. Verified(token, Wall)
      BY FreshIsVerified
    <2>2. QED
      BY <2>1 DEF accepted, Somebody
  <1>10. QED
    BY <1>6, <1>7, <1>8, <1>9

LEMMA AuthStep == AuthInv /\ [AuthNext]_allVars => AuthInv'
  <1> SUFFICES ASSUME AuthInv, [AuthNext]_allVars PROVE AuthInv'
    OBVIOUS
  <1> USE DEF AuthInv
  <1>1. CASE TickBoth
    <2>1. TypeOK' /\ clock' = clock + 1
      BY <1>1, TypeStep DEF TickBoth, Tick, Next, AuthTypeOK
    <2>2. UNCHANGED authVars
      BY <1>1 DEF TickBoth
    <2>3. AuthTypeOK'
      BY <2>1, <2>2 DEF AuthTypeOK, authVars
    <2>4. TokenDated'
      BY <2>1, <2>2, DriftBounded, TokenTyped DEF TokenDated, authVars
    <2>5. UsedInTime' /\ FreshTokensWork'
      BY <2>2 DEF UsedInTime, FreshTokensWork, authVars
    <2>6. QED
      BY <2>3, <2>4, <2>5
  <1>2. CASE SetWallClock
    <2>1. TypeOK'
      BY <1>2 DEF SetWallClock, AuthTypeOK, TypeOK, vars
    <2>2. QED
      BY <1>2, <2>1 DEF SetWallClock, AuthTypeOK, TokenDated, UsedInTime, FreshTokensWork, vars
  <1>3. CASE Mint
    BY <1>3, MintStep
  <1>4. CASE RecordDenial
    <2>1. TypeOK'
      BY <1>4, TypeStep DEF RecordDenial, Next, AuthTypeOK
    <2>2. /\ UNCHANGED <<settings, drift, token, used, answered>>
          /\ clock' = clock
          /\ turnedAway' \in 0 .. MaxTurnedAway
      BY <1>4, IdentityAssumption DEF RecordDenial, Allow, AuthTypeOK
    <2>3. QED
      BY <2>1, <2>2 DEF AuthTypeOK, TokenDated, UsedInTime, FreshTokensWork
  <1>5. ASSUME NEW authorization \in Authorizations, NEW demo \in DemoHeaders,
               Request(authorization, demo)
        PROVE  AuthInv'
    BY <1>5, RequestStep
  <1>6. CASE UNCHANGED allVars
    <2>1. TypeOK'
      BY <1>6 DEF allVars, AuthTypeOK, TypeOK, vars
    <2>2. QED
      BY <1>6, <2>1 DEF allVars, authVars, vars, AuthTypeOK, TokenDated, UsedInTime, FreshTokensWork
  <1>7. QED
    BY <1>1, <1>2, <1>3, <1>4, <1>5, <1>6 DEF AuthNext

(* Every variable keeps its type.                                          *)
THEOREM AuthTypeCorrect == AuthSpec => []AuthTypeOK
  <1>1. AuthInv => AuthTypeOK
    BY DEF AuthInv
  <1>2. QED
    BY <1>1, AuthInitial, AuthStep, PTL DEF AuthSpec

(* Two uses of one token are no further apart than the longest lifetime,   *)
(* the skew and the drift allow, for tokens of any dates.                  *)
THEOREM TokensUsedBriefly == AuthSpec => []AcceptedBriefly
  <1>1. AuthInv => AcceptedBriefly
    BY IdentityAssumption DEF AuthInv, AuthTypeOK, UsedInTime, AcceptedBriefly
  <1>2. QED
    BY <1>1, AuthInitial, AuthStep, PTL DEF AuthSpec

(* A drift within the skew turns no fresh token away.                      *)
THEOREM FreshTokensAccepted == AuthSpec => []FreshTokensWork
  <1>1. AuthInv => FreshTokensWork
    BY DEF AuthInv
  <1>2. QED
    BY <1>1, AuthInitial, AuthStep, PTL DEF AuthSpec

(* Below the handlers the denial budget is still DenialBudget: no handler  *)
(* spends from it but by allow().                                          *)
LEMMA DenialsOfHandlers == AuthSpec => Spec
  <1>1. AuthInit => Init
    BY DEF AuthInit
  <1>2. [AuthNext]_allVars => [Next]_vars
    BY DEF AuthNext, TickBoth, SetWallClock, Mint, RecordDenial, Request, Next, allVars
  <1>3. QED
    BY <1>1, <1>2, PTL DEF AuthSpec, Spec

(* So it implements the abstract window under the handlers, too...         *)
THEOREM DenialsBudgeted == AuthSpec => ImplementsBudget
  BY DenialsOfHandlers, BudgetImplemented

(* ...and a burst of callers who never authenticated is written at most    *)
(* twice over.                                                             *)
THEOREM DenialsBounded == AuthSpec => []AnyMinuteBounded
  BY DenialsOfHandlers, MinuteBounded
=============================================================================
