--------------------- MODULE CommunicationWatchdog_proofs ---------------------
(***************************************************************************)
(* The watchdog's invariants and its refinement of IdealWatchdog, for any  *)
(* units, tick length, limit and clock period.                             *)
(***************************************************************************)
EXTENDS CommunicationWatchdog, TLAPS

(* Arithmetic modulo the clock's period.                                   *)

LEMMA DivMod ==
  \A w \in Nat \ {0}, x \in Int :
    /\ x % w \in 0 .. w - 1
    /\ x \div w \in Int
    /\ x = w * (x \div w) + (x % w)
  OBVIOUS

LEMMA ModUnique ==
  \A w \in Nat \ {0}, x, q \in Int : \A r \in 0 .. w - 1 :
    x = w * q + r => x % w = r
  OBVIOUS

LEMMA ModOfSum ==
  \A w \in Nat \ {0}, a, b \in Int : ((a % w) + b) % w = (a + b) % w
<1> TAKE w \in Nat \ {0}, a, b \in Int
<1> DEFINE q == a \div w
           s == (a + b) \div w
           r == (a + b) % w
<1>1. /\ a % w \in Int /\ q \in Int
      /\ a = w * q + (a % w)
  BY DivMod
<1>2. /\ r \in 0 .. w - 1 /\ s \in Int
      /\ a + b = w * s + r
  BY DivMod, a + b \in Int
<1>3. (a % w) + b = w * (s - q) + r
  <2>1. (a % w) + b = w * s + r - w * q
    BY <1>1, <1>2
  <2>2. w * (s - q) = w * s - w * q
    BY <1>1, <1>2
  <2> HIDE DEF q, s, r
  <2>3. w * s \in Int /\ w * q \in Int
    BY <1>1, <1>2
  <2> QED BY <2>1, <2>2, <2>3, <1>2
<1> HIDE DEF q, s, r
<1>4. s - q \in Int /\ (a % w) + b \in Int
  BY <1>1, <1>2
<1>5. ((a % w) + b) % w = r
  BY <1>2, <1>3, <1>4, ModUnique
<1> QED BY <1>5 DEF r

LEMMA ModOfDifference ==
  \A w \in Nat \ {0}, a, b \in Int :
    a - b \in 0 .. w - 1 => ((a % w) - (b % w)) % w = a - b
<1> SUFFICES ASSUME NEW w \in Nat \ {0}, NEW a \in Int, NEW b \in Int, a - b \in 0 .. w - 1
             PROVE ((a % w) - (b % w)) % w = a - b
  OBVIOUS
<1>1. b % w \in Int /\ a % w \in Int
  BY DivMod
<1>2. ((a % w) + (-(b % w))) % w = (a + (-(b % w))) % w
  <2>1. -(b % w) \in Int
    BY <1>1
  <2> QED BY <2>1, ModOfSum, Zenon
<1> DEFINE q == b \div w
<1>3. q \in Int /\ b = w * q + (b % w)
  BY DivMod
<1>4. a - (b % w) = w * q + (a - b)
  <2> HIDE DEF q
  <2>1. w * q \in Int
    BY <1>3
  <2> QED BY <1>1, <1>3, <2>1
<1> HIDE DEF q
<1>5. a - (b % w) \in Int
  BY <1>1
<1>6. (a - (b % w)) % w = a - b
  BY <1>3, <1>4, <1>5, ModUnique
<1>7. (a % w) - (b % w) = (a % w) + (-(b % w)) /\ a - (b % w) = a + (-(b % w))
  BY <1>1
<1> QED BY <1>2, <1>6, <1>7

------------------------------------------------------------------------------
(* advance() counts exactly the true ticks, whatever millis() has wrapped to. *)

LEMMA ElapsedTicksAreTrue ==
  ASSUME TypeOK, NEW u \in Unit, UnitInv(u), enabled[u]
  PROVE /\ TrueTicks(u) \in Nat
        /\ ElapsedTicks(u) = TrueTicks(u)
        /\ TrueTicks(u) * TICK_MS \in Nat
        /\ ticked_at[u] + TrueTicks(u) * TICK_MS <= clock
        /\ AdvancedTickTime(u) = (ticked_at[u] + TrueTicks(u) * TICK_MS) % CLOCK_WRAP
<1> DEFINE d == clock - ticked_at[u]
           n == d \div TICK_MS
<1>1. clock \in Nat /\ ticked_at[u] \in Nat /\ d \in 0 .. CLOCK_WRAP - 1
  BY TimesAssumption DEF TypeOK, UnitInv
<1>2. TICK_MS \in Nat \ {0} /\ CLOCK_WRAP \in Nat \ {0}
  BY TimesAssumption
<1>3. (millis - last_tick_ms[u]) % CLOCK_WRAP = d
  <2>1. clock \in Int /\ ticked_at[u] \in Int
    BY <1>1
  <2>2. ((clock % CLOCK_WRAP) - (ticked_at[u] % CLOCK_WRAP)) % CLOCK_WRAP = d
    BY <1>1, <1>2, <2>1, ModOfDifference, Zenon
  <2> QED BY <2>2 DEF millis, UnitInv
<1>4. /\ d % TICK_MS \in 0 .. TICK_MS - 1
      /\ n \in Int
      /\ d = TICK_MS * n + (d % TICK_MS)
  <2>1. d \in Int
    BY <1>1
  <2> QED BY <1>2, <2>1, DivMod, Zenon
<1>5. n \in Nat
  BY <1>1, <1>2
<1>6. ElapsedTicks(u) = n /\ TrueTicks(u) = n
  BY <1>3 DEF ElapsedTicks, TrueTicks
<1> HIDE DEF n, d
<1>7. n * TICK_MS \in Nat /\ n * TICK_MS <= d
  <2>1. n * TICK_MS \in Nat
    BY <1>2, <1>5
  <2>2. n * TICK_MS = TICK_MS * n
    BY <1>2, <1>5
  <2> QED BY <1>1, <1>2, <1>4, <2>1, <2>2
<1>8. ticked_at[u] + n * TICK_MS <= clock
  BY <1>1, <1>7 DEF d
<1>9. AdvancedTickTime(u) = (ticked_at[u] + n * TICK_MS) % CLOCK_WRAP
  <2>1. ((ticked_at[u] % CLOCK_WRAP) + n * TICK_MS) % CLOCK_WRAP
          = (ticked_at[u] + n * TICK_MS) % CLOCK_WRAP
    <3>1. ticked_at[u] \in Int /\ n * TICK_MS \in Int
      BY <1>1, <1>7
    <3> QED BY <1>2, <3>1, ModOfSum, Zenon
  <2>2. AdvancedTickTime(u) = ((ticked_at[u] % CLOCK_WRAP) + n * TICK_MS) % CLOCK_WRAP
    BY <1>6 DEF AdvancedTickTime, UnitInv
  <2> QED BY <2>1, <2>2
<1> QED BY <1>5, <1>6, <1>7, <1>8, <1>9

\* Both handlers of a tick, with or without a feed, preserve the invariant.
LEMMA AdvanceKeepsUnits ==
  ASSUME IInv, NEW fed \in SUBSET Unit, Advance(fed), RecordHistory(fed),
         UNCHANGED <<clock, enabled>>
  PROVE  /\ last_tick_ms' \in [Unit -> 0 .. CLOCK_WRAP - 1]
         /\ counter' \in [Unit -> 0 .. LIMIT]
         /\ timed_out' \in [Unit -> BOOLEAN]
         /\ ticked_at' \in [Unit -> Nat]
         /\ silence' \in [Unit -> Nat]
         /\ \A u \in Unit : UnitInv(u)'
<1> USE DEF IInv
<1>1. ASSUME NEW u \in Unit
      PROVE  /\ last_tick_ms'[u] \in 0 .. CLOCK_WRAP - 1
             /\ counter'[u] \in 0 .. LIMIT
             /\ timed_out'[u] \in BOOLEAN
             /\ ticked_at'[u] \in Nat
             /\ silence'[u] \in Nat
             /\ UnitInv(u)'
  <2>1. CASE ~enabled[u]
    BY <2>1 DEF Advance, RecordHistory, TypeOK, UnitInv, Lesser
  <2>2. CASE enabled[u]
    <3> DEFINE n == TrueTicks(u)
    <3>1. /\ n \in Nat
          /\ ElapsedTicks(u) = n
          /\ n * TICK_MS \in Nat
          /\ ticked_at[u] + n * TICK_MS <= clock
          /\ AdvancedTickTime(u) = (ticked_at[u] + n * TICK_MS) % CLOCK_WRAP
      BY <2>2, ElapsedTicksAreTrue
    <3>2. /\ last_tick_ms'[u] = AdvancedTickTime(u)
          /\ timed_out'[u] = AdvancedVerdict(u)
          /\ counter'[u] = IF u \in fed THEN 0 ELSE AdvancedCounter(u)
          /\ ticked_at'[u] = ticked_at[u] + n * TICK_MS
          /\ silence'[u] = IF u \in fed THEN 0 ELSE silence[u] + n
      BY <2>2 DEF Advance, RecordHistory
    <3> HIDE DEF n
    <3>3. /\ ticked_at[u] \in Nat /\ clock \in Nat /\ silence[u] \in Nat
          /\ counter[u] \in 0 .. LIMIT /\ timed_out[u] \in BOOLEAN
          /\ LIMIT \in Nat \ {0} /\ CLOCK_WRAP \in Nat \ {0}
      BY TimesAssumption DEF TypeOK
    <3>4. last_tick_ms'[u] \in 0 .. CLOCK_WRAP - 1
      <4>1. ticked_at[u] + n * TICK_MS \in Int
        BY <3>1, <3>3
      <4>2. (ticked_at[u] + n * TICK_MS) % CLOCK_WRAP \in 0 .. CLOCK_WRAP - 1
        BY <4>1, <3>3, DivMod, Zenon
      <4> QED BY <4>2, <3>1, <3>2
    <3>5. AdvancedCounter(u) = Lesser(silence[u] + n, LIMIT)
      BY <3>1, <3>3 DEF AdvancedCounter, UnitInv, Lesser
    <3>6. timed_out'[u] = IF n = 0 THEN timed_out[u] ELSE silence[u] + n > LIMIT
      BY <3>1, <3>2, <3>3 DEF AdvancedVerdict, UnitInv, Lesser
    <3>7. counter'[u] \in 0 .. LIMIT /\ counter'[u] = Lesser(silence'[u], LIMIT)
      BY <3>1, <3>2, <3>3, <3>5 DEF Lesser
    <3>8. /\ last_tick_ms'[u] = ticked_at'[u] % CLOCK_WRAP
          /\ ticked_at'[u] \in Nat /\ silence'[u] \in Nat
          /\ ticked_at'[u] <= clock
          /\ clock - ticked_at'[u] < CLOCK_WRAP
      BY <2>2, <3>1, <3>2, <3>3 DEF UnitInv
    <3>9. timed_out'[u] \in BOOLEAN
      <4>1. CASE n = 0
        BY <3>3, <3>6, <4>1
      <4>2. CASE n # 0
        <5>1. (silence[u] + n > LIMIT) \in BOOLEAN
          BY <3>1, <3>3
        <5>2. timed_out'[u] = (silence[u] + n > LIMIT)
          BY <3>6, <4>2
        <5> QED BY <5>1, <5>2, Zenon
      <4> QED BY <4>1, <4>2
    <3>10. /\ silence'[u] > LIMIT => timed_out'[u]
           /\ timed_out'[u] => silence'[u] > LIMIT \/ silence'[u] = 0
      <4>1. CASE n = 0
        <5>1. timed_out'[u] = timed_out[u]
          BY <3>6, <4>1
        <5>2. silence'[u] = silence[u] \/ silence'[u] = 0
          BY <3>2, <3>3, <4>1
        <5>3. ~(0 > LIMIT)
          BY <3>3
        <5> QED BY <5>1, <5>2, <5>3, Zenon DEF UnitInv
      <4>2. CASE n # 0
        <5>1. timed_out'[u] = (silence[u] + n > LIMIT)
          BY <3>6, <4>2
        <5>2. ~(0 > LIMIT)
          BY <3>3
        <5>3. CASE u \in fed
          BY <3>2, <5>2, <5>3, Zenon
        <5>4. CASE u \notin fed
          BY <3>2, <5>1, <5>4, Zenon
        <5> QED BY <5>3, <5>4
      <4> QED BY <4>1, <4>2
    <3> QED
      BY <3>4, <3>7, <3>8, <3>9, <3>10 DEF UnitInv, Lesser
  <2> QED BY <2>1, <2>2
<1>2. /\ last_tick_ms' = [u \in Unit |-> last_tick_ms'[u]]
      /\ counter' = [u \in Unit |-> counter'[u]]
      /\ timed_out' = [u \in Unit |-> timed_out'[u]]
      /\ ticked_at' = [u \in Unit |-> ticked_at'[u]]
      /\ silence' = [u \in Unit |-> silence'[u]]
  BY DEF Advance, RecordHistory
<1> QED BY <1>1, <1>2

LEMMA InitEstablishes == Init => IInv
<1> SUFFICES ASSUME Init PROVE IInv
  OBVIOUS
<1>1. TypeOK
  BY TimesAssumption DEF Init, TypeOK
<1>2. ASSUME NEW u \in Unit PROVE UnitInv(u)
  <2>1. 0 % CLOCK_WRAP = 0
    BY TimesAssumption
  <2> QED BY <2>1, TimesAssumption DEF Init, UnitInv, Lesser
<1> QED BY <1>1, <1>2 DEF IInv

LEMMA NextPreserves == IInv /\ [Next]_vars => IInv'
<1> SUFFICES ASSUME IInv, [Next]_vars PROVE IInv'
  OBVIOUS
<1> USE DEF IInv
<1>1. ASSUME NEW ms \in Gap, Pass(ms) PROVE IInv'
  <2>1. ms \in Nat
    BY TimesAssumption
  <2>2. TypeOK'
    BY <1>1, <2>1 DEF Pass, TypeOK
  <2>3. ASSUME NEW u \in Unit PROVE UnitInv(u)'
    BY <1>1, <2>1 DEF Pass, UnitInv, TypeOK
  <2> QED BY <2>2, <2>3
<1>2. ASSUME LoopAdvance PROVE IInv'
  <2>1. Advance({}) /\ RecordHistory({}) /\ UNCHANGED <<clock, enabled, injected>>
    BY <1>2 DEF LoopAdvance
  <2>2. \A u \in Unit : UnitInv(u)'
    BY <2>1, AdvanceKeepsUnits
  <2>3. TypeOK'
    <3>1. /\ last_tick_ms' \in [Unit -> 0 .. CLOCK_WRAP - 1]
          /\ counter' \in [Unit -> 0 .. LIMIT]
          /\ timed_out' \in [Unit -> BOOLEAN]
          /\ ticked_at' \in [Unit -> Nat]
          /\ silence' \in [Unit -> Nat]
      BY <2>1, AdvanceKeepsUnits
    <3>2. fault_bit' \in [Unit -> BOOLEAN]
      BY <1>2, <3>1 DEF LoopAdvance, SyncedFault, TypeOK
    <3> QED BY <2>1, <3>1, <3>2 DEF TypeOK
  <2> QED BY <2>2, <2>3
<1>3. ASSUME NEW request \in Request, observe_modbus_request(request) PROVE IInv'
  <2> DEFINE fed == {u \in Unit : enabled[u] /\ Feeds(u, request)}
  <2>1. Advance(fed) /\ RecordHistory(fed) /\ UNCHANGED <<clock, enabled, injected>>
    BY <1>3 DEF observe_modbus_request
  <2>2. fed \in SUBSET Unit
    OBVIOUS
  <2> HIDE DEF fed
  <2>3. \A u \in Unit : UnitInv(u)'
    BY <2>1, <2>2, AdvanceKeepsUnits
  <2>4. TypeOK'
    <3>1. /\ last_tick_ms' \in [Unit -> 0 .. CLOCK_WRAP - 1]
          /\ counter' \in [Unit -> 0 .. LIMIT]
          /\ timed_out' \in [Unit -> BOOLEAN]
          /\ ticked_at' \in [Unit -> Nat]
          /\ silence' \in [Unit -> Nat]
      BY <2>1, <2>2, AdvanceKeepsUnits
    <3>2. fault_bit' \in [Unit -> BOOLEAN]
      BY <1>3, <3>1 DEF observe_modbus_request, SyncedFault, TypeOK
    <3> QED BY <2>1, <3>1, <3>2 DEF TypeOK
  <2> QED BY <2>3, <2>4
<1>4. ASSUME NEW u \in Unit, NEW b \in BOOLEAN, set_fault_word(u, b) PROVE IInv'
  <2>1. TypeOK'
    BY <1>4 DEF set_fault_word, TypeOK, watchdog, history
  <2>2. ASSUME NEW v \in Unit PROVE UnitInv(v)'
    BY <1>4 DEF set_fault_word, UnitInv, watchdog, history
  <2> QED BY <2>1, <2>2
<1>5. ASSUME NEW u \in Unit, NEW b \in BOOLEAN, configure(u, b) PROVE IInv'
  <2>1. CLOCK_WRAP \in Nat \ {0} /\ LIMIT \in Nat /\ clock \in Nat /\ clock \in Int
    BY TimesAssumption DEF TypeOK
  <2>2. millis \in 0 .. CLOCK_WRAP - 1
    BY <2>1, DivMod, Zenon DEF millis
  <2>3. TypeOK'
    BY <1>5, <2>1, <2>2 DEF configure, TypeOK
  <2>4. ASSUME NEW v \in Unit PROVE UnitInv(v)'
    <3>1. CASE v # u
      BY <1>5, <3>1 DEF configure, UnitInv, TypeOK
    <3>2. CASE v = u
      BY <1>5, <2>1, <3>2 DEF configure, UnitInv, TypeOK, Lesser, millis
    <3> QED BY <3>1, <3>2
  <2> QED BY <2>3, <2>4
<1>6. CASE UNCHANGED vars
  <2>1. TypeOK'
    BY <1>6 DEF vars, TypeOK
  <2>2. ASSUME NEW v \in Unit PROVE UnitInv(v)'
    BY <1>6 DEF vars, UnitInv
  <2> QED BY <2>1, <2>2
<1> QED BY <1>1, <1>2, <1>3, <1>4, <1>5, <1>6 DEF Next

\* Every reachable state satisfies the inductive invariant.
THEOREM InductiveInvariant == Spec => []IInv
  BY InitEstablishes, NextPreserves, PTL DEF Spec

\* advance() and observe_request() keep the 32-bit state within its types.
THEOREM TypeCorrect == Spec => []TypeOK
<1>1. IInv => TypeOK
  BY DEF IInv
<1> QED BY <1>1, InductiveInvariant, PTL

\* A unit trips after more than LIMIT silent ticks, and for no other reason.
THEOREM FaultCorrect == Spec => []FaultMeansSilence
<1>1. IInv => FaultMeansSilence
  BY DEF IInv, FaultMeansSilence, UnitInv
<1> QED BY <1>1, InductiveInvariant, PTL

------------------------------------------------------------------------------
(* Refinement.  A tick of all enabled units is, for each of them, the ideal *)
(* watchdog's Look; a disabled unit stutters.                               *)

LEMMA AdvanceIsLook ==
  ASSUME IInv, NEW fed \in SUBSET Unit, Advance(fed), RecordHistory(fed),
         UNCHANGED clock, NEW u \in Unit
  PROVE  IdealStep(u)
<1>1. CASE ~enabled[u]
  BY <1>1 DEF IInv, TypeOK, Advance, RecordHistory, IdealStep, Ideal!ideal_vars
<1>2. CASE enabled[u]
  <2>1. /\ TrueTicks(u) \in Nat
        /\ ElapsedTicks(u) = TrueTicks(u)
    BY <1>2, ElapsedTicksAreTrue DEF IInv
  <2>2. TrueTicks(u) = Ideal(u)!Ticks
    BY DEF TrueTicks, Ideal!Ticks
  <2>3. timed_out'[u] =
          IF TrueTicks(u) = 0 THEN timed_out[u] ELSE silence[u] + TrueTicks(u) > LIMIT
    <3>1. /\ silence[u] \in Nat /\ counter[u] = Lesser(silence[u], LIMIT) /\ LIMIT \in Nat
          /\ silence[u] > LIMIT => timed_out[u]
      BY TimesAssumption DEF IInv, TypeOK, UnitInv
    <3>2. timed_out'[u] = AdvancedVerdict(u)
      BY <1>2 DEF Advance
    <3> QED BY <2>1, <3>1, <3>2 DEF AdvancedVerdict, Lesser
  <2>4. /\ ticked_at'[u] = ticked_at[u] + TrueTicks(u) * TICK_MS
        /\ silence'[u] = IF u \in fed THEN 0 ELSE silence[u] + TrueTicks(u)
    BY <1>2 DEF RecordHistory
  <2>5. Ideal(u)!Look(u \in fed)
    BY <2>2, <2>3, <2>4, Zenon DEF Ideal!Look
  <2>6. (u \in fed) \in BOOLEAN
    OBVIOUS
  <2> QED BY <2>5, <2>6, Zenon DEF IdealStep, Ideal!Next
<1> QED BY <1>1, <1>2

LEMMA NextRefines ==
  ASSUME IInv, [Next]_vars, NEW u \in Unit
  PROVE  IdealStep(u)
<1>1. ASSUME NEW ms \in Gap, Pass(ms) PROVE IdealStep(u)
  <2>1. clock \in Nat /\ ms \in Nat \ {0}
    BY TimesAssumption DEF IInv, TypeOK
  <2>2. Ideal(u)!Pass
    BY <1>1, <2>1 DEF Pass, Ideal!Pass
  <2> QED BY <2>2 DEF IdealStep, Ideal!Next
<1>2. CASE LoopAdvance
  BY <1>2, AdvanceIsLook DEF LoopAdvance
<1>3. ASSUME NEW request \in Request, observe_modbus_request(request) PROVE IdealStep(u)
  <2> DEFINE fed == {v \in Unit : enabled[v] /\ Feeds(v, request)}
  <2>1. fed \in SUBSET Unit /\ Advance(fed) /\ RecordHistory(fed) /\ UNCHANGED clock
    BY <1>3 DEF observe_modbus_request
  <2> HIDE DEF fed
  <2> QED BY <2>1, AdvanceIsLook
<1>4. ASSUME NEW v \in Unit, NEW b \in BOOLEAN, set_fault_word(v, b) PROVE IdealStep(u)
  BY <1>4 DEF set_fault_word, watchdog, history, IdealStep, Ideal!ideal_vars
<1>5. ASSUME NEW v \in Unit, NEW b \in BOOLEAN, configure(v, b) PROVE IdealStep(u)
  <2>1. CASE v = u
    <3>1. Ideal(u)!Reset
      BY <1>5, <2>1 DEF configure, Ideal!Reset, IInv, TypeOK
    <3> QED BY <3>1 DEF IdealStep, Ideal!Next
  <2>2. CASE v # u
    BY <1>5, <2>2 DEF configure, IdealStep, Ideal!ideal_vars, IInv, TypeOK
  <2> QED BY <2>1, <2>2
<1>6. CASE UNCHANGED vars
  BY <1>6 DEF vars, IdealStep, Ideal!ideal_vars
<1> QED BY <1>1, <1>2, <1>3, <1>4, <1>5, <1>6 DEF Next

\* The watchdog of every unit implements the one that counts every tick on an
\* unbounded clock.
THEOREM Refinement == Spec => ImplementsIdeal
<1>1. Init => \A u \in Unit : Ideal(u)!Init
  BY DEF Init, Ideal!Init
<1>2. IInv /\ [Next]_vars => [\A u \in Unit : IdealStep(u)]_vars
  BY NextRefines
<1> QED BY <1>1, <1>2, InductiveInvariant, PTL DEF Spec, ImplementsIdeal

------------------------------------------------------------------------------
(* Refinement of TickWatchdog: what a wrapping clock and batches of ticks   *)
(* leave of the watchdog for those who only count whole ticks.              *)

\* What a count of whole ticks leaves over is less than a tick, and more time is
\* never fewer ticks.
LEMMA RestIsNoTick ==
  \A w \in Nat \ {0}, x \in Nat : (x - (x \div w) * w) \div w = 0
<1> TAKE w \in Nat \ {0}, x \in Nat
<1> DEFINE q == x \div w
<1>1. x % w \in 0 .. w - 1 /\ q \in Int /\ x = w * q + (x % w)
  BY DivMod
<1>2. w * q = q * w /\ w * q \in Int
  BY <1>1
<1> HIDE DEF q
<1>3. x - q * w = x % w
  BY <1>1, <1>2
<1>4. (x % w) \div w = 0
  BY <1>1
<1> QED
  BY <1>3, <1>4 DEF q

LEMMA MoreTimeMoreTicks ==
  \A w \in Nat \ {0}, x, y \in Nat :
    x <= y => x \div w \in Nat /\ y \div w \in Nat /\ x \div w <= y \div w
  OBVIOUS

LEMMA AdvanceIsTick ==
  ASSUME IInv, NEW fed \in SUBSET Unit, Advance(fed), RecordHistory(fed),
         fault_bit' = [u \in Unit |-> IF enabled[u] THEN SyncedFault(u) ELSE fault_bit[u]],
         UNCHANGED <<clock, enabled, injected>>, NEW u \in Unit
  PROVE  TickStep(u)
<1>1. CASE ~enabled[u]
  <2>1. /\ counter'[u] = counter[u] /\ timed_out'[u] = timed_out[u]
        /\ injected'[u] = injected[u] /\ fault_bit'[u] = fault_bit[u]
        /\ enabled'[u] = enabled[u]
    BY <1>1 DEF Advance
  <2> QED
    BY <1>1, <2>1 DEF TickStep, Ticked!tick_vars
<1>2. CASE enabled[u]
  <2> DEFINE n == TrueTicks(u)
             d == clock - ticked_at[u]
  <2>1. n \in Nat /\ ElapsedTicks(u) = n
    BY <1>2, ElapsedTicksAreTrue DEF IInv
  <2>2. /\ timed_out'[u] = AdvancedVerdict(u)
        /\ counter'[u] = (IF u \in fed THEN 0 ELSE AdvancedCounter(u))
        /\ ticked_at'[u] = ticked_at[u] + n * TICK_MS
        /\ fault_bit'[u] = (timed_out'[u] \/ injected[u])
    BY <1>2 DEF Advance, RecordHistory, SyncedFault
  <2>3. /\ clock \in Nat /\ ticked_at[u] \in Nat /\ ticked_at[u] <= clock
        /\ counter[u] \in 0 .. LIMIT /\ LIMIT \in Nat /\ TICK_MS \in Nat \ {0}
    BY TimesAssumption DEF IInv, TypeOK, UnitInv
  <2>4. TrueTicks(u)' = 0
    <3>1. d \in Nat /\ n = d \div TICK_MS
      BY <2>3 DEF TrueTicks
    <3>2. (d - n * TICK_MS) \div TICK_MS = 0
      BY <2>3, <3>1, RestIsNoTick
    <3>3. n * TICK_MS \in Int
      BY <2>1, <2>3
    <3> HIDE DEF n
    <3>4. clock' - ticked_at'[u] = d - n * TICK_MS
      BY <2>2, <2>3, <3>3
    <3> QED
      BY <3>2, <3>4 DEF TrueTicks
  <2> HIDE DEF n, d
  <2>5. enabled'[u] = enabled[u] /\ injected'[u] = injected[u]
    OBVIOUS
  <2> DEFINE before == IF enabled[u] THEN TrueTicks(u) ELSE 0
             after == IF enabled'[u] THEN TrueTicks(u)' ELSE 0
  <2>6. before = n /\ after = 0
    BY <1>2, <2>4, <2>5 DEF n
  <2>7. Ticked(u)!TooMany <=> n > LIMIT - counter[u]
    BY <2>6 DEF Ticked!TooMany
  <2>8. AdvancedVerdict(u) = Ticked(u)!Verdict
    BY <2>1, <2>6 DEF AdvancedVerdict, Ticked!Verdict, Ticked!TooMany
  <2>9. AdvancedCounter(u) = IF n > LIMIT - counter[u] THEN LIMIT ELSE counter[u] + n
    BY <2>1, <2>3 DEF AdvancedCounter, Lesser
  <2>10. Ticked(u)!Look(u \in fed)
    <3>1. timed_out'[u] = Ticked(u)!Verdict
      BY <2>2, <2>8
    <3>2. counter'[u] = IF u \in fed THEN 0
                        ELSE IF Ticked(u)!TooMany THEN LIMIT ELSE counter[u] + before
      BY <2>2, <2>6, <2>7, <2>9
    <3>3. fault_bit'[u] = (Ticked(u)!Verdict \/ injected[u])
      BY <2>2, <2>8
    <3> QED
      BY <1>2, <2>5, <2>6, <3>1, <3>2, <3>3 DEF Ticked!Look
  <2>11. (u \in fed) \in BOOLEAN
    OBVIOUS
  <2> QED
    BY <2>10, <2>11, Zenon DEF TickStep, Ticked!Next
<1> QED
  BY <1>1, <1>2

LEMMA NextRefinesTicks ==
  ASSUME IInv, [Next]_vars, NEW u \in Unit
  PROVE  TickStep(u)
<1>1. ASSUME NEW ms \in Gap, Pass(ms) PROVE TickStep(u)
  <2>1. /\ clock \in Nat /\ ms \in Nat /\ clock' = clock + ms
        /\ ticked_at[u] \in Nat /\ ticked_at[u] <= clock /\ ticked_at' = ticked_at
        /\ TICK_MS \in Nat \ {0}
    BY <1>1, TimesAssumption DEF IInv, TypeOK, UnitInv, Pass
  <2>2. TrueTicks(u) \in Nat /\ TrueTicks(u)' \in Nat /\ TrueTicks(u) <= TrueTicks(u)'
    <3>1. /\ clock - ticked_at[u] \in Nat /\ clock' - ticked_at'[u] \in Nat
          /\ clock - ticked_at[u] <= clock' - ticked_at'[u]
      BY <2>1
    <3> QED
      BY <2>1, <3>1, MoreTimeMoreTicks DEF TrueTicks
  <2>3. /\ counter' = counter /\ timed_out' = timed_out /\ enabled' = enabled
        /\ injected' = injected /\ fault_bit' = fault_bit
    BY <1>1 DEF Pass
  <2>4. CASE enabled[u] /\ TrueTicks(u) < TrueTicks(u)'
    <3>1. Ticked(u)!Pass
      BY <2>2, <2>3, <2>4 DEF Ticked!Pass
    <3> QED
      BY <3>1 DEF TickStep, Ticked!Next
  <2>5. CASE ~enabled[u] \/ TrueTicks(u) = TrueTicks(u)'
    BY <2>3, <2>5 DEF TickStep, Ticked!tick_vars
  <2> QED
    BY <2>2, <2>4, <2>5
<1>2. CASE LoopAdvance
  BY <1>2, AdvanceIsTick DEF LoopAdvance
<1>3. ASSUME NEW request \in Request, observe_modbus_request(request) PROVE TickStep(u)
  <2> DEFINE fed == {v \in Unit : enabled[v] /\ Feeds(v, request)}
  <2>1. /\ fed \in SUBSET Unit /\ Advance(fed) /\ RecordHistory(fed)
        /\ fault_bit' =
             [v \in Unit |-> IF enabled[v] THEN SyncedFault(v) ELSE fault_bit[v]]
        /\ UNCHANGED <<clock, enabled, injected>>
    BY <1>3 DEF observe_modbus_request
  <2> HIDE DEF fed
  <2> QED
    BY <2>1, AdvanceIsTick
<1>4. ASSUME NEW v \in Unit, NEW b \in BOOLEAN, set_fault_word(v, b) PROVE TickStep(u)
  <2>1. /\ counter' = counter /\ timed_out' = timed_out /\ enabled' = enabled
        /\ TrueTicks(u)' = TrueTicks(u)
    BY <1>4 DEF set_fault_word, watchdog, history, TrueTicks
  <2>2. CASE v = u
    <3>1. injected'[u] = b /\ fault_bit'[u] = (timed_out[u] \/ b)
      BY <1>4, <2>2 DEF set_fault_word, IInv, TypeOK
    <3>2. Ticked(u)!set_fault_word(b)
      BY <2>1, <3>1 DEF Ticked!set_fault_word
    <3> QED
      BY <3>2 DEF TickStep, Ticked!Next
  <2>3. CASE v # u
    <3>1. injected'[u] = injected[u] /\ fault_bit'[u] = fault_bit[u]
      BY <1>4, <2>3 DEF set_fault_word, IInv, TypeOK
    <3> QED
      BY <2>1, <3>1 DEF TickStep, Ticked!tick_vars
  <2> QED
    BY <2>2, <2>3
<1>5. ASSUME NEW v \in Unit, NEW b \in BOOLEAN, configure(v, b) PROVE TickStep(u)
  <2>1. CASE v = u
    <3>1. /\ counter'[u] = 0 /\ timed_out'[u] = FALSE /\ enabled'[u] = b
          /\ injected'[u] = FALSE /\ fault_bit'[u] = FALSE
          /\ ticked_at'[u] = clock /\ clock' = clock
      BY <1>5, <2>1 DEF configure, IInv, TypeOK
    <3>2. TrueTicks(u)' = 0
      <4>1. clock \in Nat /\ TICK_MS \in Nat \ {0}
        BY TimesAssumption DEF IInv, TypeOK
      <4>2. clock' - ticked_at'[u] = 0 /\ 0 \div TICK_MS = 0
        BY <3>1, <4>1
      <4> QED
        BY <4>2 DEF TrueTicks
    <3>3. Ticked(u)!configure
      BY <3>1, <3>2 DEF Ticked!configure
    <3> QED
      BY <3>3 DEF TickStep, Ticked!Next
  <2>2. CASE v # u
    <3>1. /\ counter'[u] = counter[u] /\ timed_out'[u] = timed_out[u]
          /\ enabled'[u] = enabled[u] /\ injected'[u] = injected[u]
          /\ fault_bit'[u] = fault_bit[u] /\ ticked_at'[u] = ticked_at[u] /\ clock' = clock
      BY <1>5, <2>2 DEF configure, IInv, TypeOK
    <3>2. TrueTicks(u)' = TrueTicks(u)
      BY <3>1 DEF TrueTicks
    <3> QED
      BY <3>1, <3>2 DEF TickStep, Ticked!tick_vars
  <2> QED
    BY <2>1, <2>2
<1>6. CASE UNCHANGED vars
  BY <1>6 DEF vars, TickStep, Ticked!tick_vars, TrueTicks
<1> QED
  BY <1>1, <1>2, <1>3, <1>4, <1>5, <1>6 DEF Next

\* Whoever sees a unit's watchdog and its bit in whole ticks sees TickWatchdog,
\* which is the watchdog that CommunicationLoss composes with the unit.
THEOREM TickRefinement == Spec => ImplementsTicks
<1>1. Init => \A u \in Unit : Ticked(u)!Init
  <2> SUFFICES ASSUME Init, NEW u \in Unit PROVE Ticked(u)!Init
    OBVIOUS
  <2>1. /\ enabled[u] = FALSE /\ counter[u] = 0 /\ timed_out[u] = FALSE
        /\ injected[u] = FALSE /\ fault_bit[u] = FALSE
    BY DEF Init
  <2> QED
    BY <2>1 DEF Ticked!Init
<1>2. IInv /\ [Next]_vars => [\A u \in Unit : TickStep(u)]_vars
  BY NextRefinesTicks
<1> QED
  BY <1>1, <1>2, InductiveInvariant, PTL DEF Spec, ImplementsTicks

------------------------------------------------------------------------------
LEMMA SyncPreserved == TypeOK /\ FaultBitInSync /\ [Next]_vars => FaultBitInSync'
<1> SUFFICES ASSUME TypeOK, FaultBitInSync, [Next]_vars, NEW v \in Unit, enabled'[v]
             PROVE  fault_bit'[v] <=> timed_out'[v] \/ injected'[v]
  BY DEF FaultBitInSync
<1>1. ASSUME NEW ms \in Gap, Pass(ms)
      PROVE fault_bit'[v] <=> timed_out'[v] \/ injected'[v]
  BY <1>1 DEF Pass, FaultBitInSync
<1>2. CASE LoopAdvance
  BY <1>2 DEF LoopAdvance, SyncedFault
<1>3. ASSUME NEW request \in Request, observe_modbus_request(request)
      PROVE fault_bit'[v] <=> timed_out'[v] \/ injected'[v]
  BY <1>3 DEF observe_modbus_request, SyncedFault
<1>4. ASSUME NEW u \in Unit, NEW b \in BOOLEAN, set_fault_word(u, b)
      PROVE fault_bit'[v] <=> timed_out'[v] \/ injected'[v]
  <2>1. CASE u = v
    BY <1>4, <2>1 DEF set_fault_word, watchdog, TypeOK
  <2>2. CASE u # v
    BY <1>4, <2>2 DEF set_fault_word, watchdog, TypeOK, FaultBitInSync
  <2> QED BY <2>1, <2>2
<1>5. ASSUME NEW u \in Unit, NEW b \in BOOLEAN, configure(u, b)
      PROVE fault_bit'[v] <=> timed_out'[v] \/ injected'[v]
  <2>1. CASE u = v
    BY <1>5, <2>1 DEF configure, TypeOK
  <2>2. CASE u # v
    BY <1>5, <2>2 DEF configure, TypeOK, FaultBitInSync
  <2> QED BY <2>1, <2>2
<1>6. CASE UNCHANGED vars
  BY <1>6 DEF vars, FaultBitInSync
<1> QED BY <1>1, <1>2, <1>3, <1>4, <1>5, <1>6 DEF Next

\* Every path that changes the watchdog or the injection re-derives the bit.
THEOREM FaultBitCorrect == Spec => []FaultBitInSync
<1>1. Init => FaultBitInSync
  BY DEF Init, FaultBitInSync
<1> QED BY <1>1, SyncPreserved, TypeCorrect, PTL DEF Spec

\* Traffic for one unit never feeds the other: their addresses differ.
THEOREM OnlyOneUnitFed == Spec => OneUnitFed
<1>1. IInv /\ [Next]_vars =>
        [\A u, v \in Unit :
           counter'[u] < counter[u] /\ counter'[v] < counter[v] => u = v]_vars
  <2> SUFFICES ASSUME IInv, [Next]_vars, NEW u \in Unit, NEW v \in Unit,
                      counter'[u] < counter[u], counter'[v] < counter[v], u # v
               PROVE FALSE
    OBVIOUS
  <2>1. \A w \in Unit :
          /\ counter[w] \in 0 .. LIMIT /\ LIMIT \in Nat
          /\ enabled[w] => ElapsedTicks(w) \in Nat
    BY TimesAssumption, ElapsedTicksAreTrue DEF IInv, TypeOK
  <2>2. ASSUME NEW fed \in SUBSET Unit, Advance(fed), NEW w \in Unit,
               counter'[w] < counter[w]
        PROVE w \in fed
    <3> SUFFICES ASSUME w \notin fed PROVE FALSE
      OBVIOUS
    <3>1. counter[w] \in 0 .. LIMIT /\ LIMIT \in Nat
      BY <2>1
    <3>2. CASE enabled[w]
      <4>1. ElapsedTicks(w) \in Nat
        BY <2>1, <3>2
      <4>2. counter'[w] = AdvancedCounter(w)
        BY <2>2, <3>2 DEF Advance
      <4>3. AdvancedCounter(w) >= counter[w]
        BY <3>1, <4>1 DEF AdvancedCounter, Lesser
      <4> HIDE DEF AdvancedCounter
      <4> QED BY <2>2, <3>1, <4>1, <4>2, <4>3 DEF AdvancedCounter, Lesser
    <3>3. CASE ~enabled[w]
      BY <2>2, <3>1, <3>3 DEF Advance
    <3> QED BY <3>2, <3>3
  <2>3. ASSUME NEW ms \in Gap, Pass(ms) PROVE FALSE
    BY <2>1, <2>3 DEF Pass
  <2>4. CASE LoopAdvance
    <3>1. {} \in SUBSET Unit /\ Advance({})
      BY <2>4 DEF LoopAdvance
    <3>2. u \in {}
      BY <2>2, <3>1
    <3> QED BY <3>2
  <2>5. ASSUME NEW request \in Request, observe_modbus_request(request) PROVE FALSE
    <3>1. Feeds(u, request) /\ Feeds(v, request)
      BY <2>2, <2>5 DEF observe_modbus_request
    <3> QED BY <3>1, UnitsAssumption DEF Feeds
  <2>6. ASSUME NEW w \in Unit, NEW b \in BOOLEAN,
               set_fault_word(w, b) \/ configure(w, b)
        PROVE FALSE
    <3>1. \A x \in Unit \ {w} : counter'[x] = counter[x]
      BY <2>6 DEF set_fault_word, configure, watchdog, IInv, TypeOK
    <3>2. \A x \in Unit : counter[x] \in Nat
      BY <2>1
    <3> QED
      BY <3>1, <3>2
  <2>7. CASE UNCHANGED vars
    BY <2>1, <2>7 DEF vars
  <2> QED BY <2>3, <2>4, <2>5, <2>6, <2>7 DEF Next
<1> QED BY <1>1, InductiveInvariant, PTL DEF Spec, OneUnitFed
==============================================================================
