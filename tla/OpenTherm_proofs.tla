---------------------------- MODULE OpenTherm_proofs ----------------------------
(***************************************************************************)
(* The two simulators that use the OpenTherm driver.  The slave: its types,*)
(* that a reply is held back only while it runs and may answer, and that   *)
(* normal load meets no counter of its diagnostics and gets its answers in *)
(* time.  The thermostat: its requests are kept apart by the poll interval *)
(* alone, and the timeouts it counts are stalls of its loop.               *)
(***************************************************************************)
EXTENDS MCOpenTherm, OpenThermDriver_proofs

\* A slave that runs is not in an update, and its device is up.
RunningInv == life.started => ~life.ota_active /\ life.phase = "running"

SInv == TypeOK /\ PendingOnlyWhileServing /\ RunningInv

Life == [phase : {"running", "failed", "off"}, started : BOOLEAN,
         start_pending : BOOLEAN, since : -STARTUP_SETTLE .. STARTUP_FORCE,
         idle : NONE .. BUS_IDLE_MIN, ota_active : BOOLEAN]

Scheduler == [pending : BOOLEAN, due : Nat, delay : Delays, counted : SUBSET Counter]

MasterState == [waited : NONE .. PATIENCE, owed : BOOLEAN, unsolicited : BOOLEAN]

LEMMA Types ==
  TypeOK <=> /\ DriverOK(ot) /\ life \in Life /\ scheduler \in Scheduler
             /\ response_enabled \in BOOLEAN /\ master \in MasterState
             /\ looped \in BOOLEAN /\ normal \in BOOLEAN
BY DEF TypeOK, DriverOK, Life, Scheduler, MasterState

LEMMA TypesNext ==
  ASSUME /\ DriverOK(ot') /\ life' \in Life /\ scheduler' \in Scheduler
         /\ response_enabled' \in BOOLEAN /\ master' \in MasterState
         /\ looped' \in BOOLEAN /\ normal' \in BOOLEAN
  PROVE  TypeOK'
BY DEF TypeOK, DriverOK, Life, Scheduler, MasterState

------------------------------------------------------------------------------
(* The scheduler and the life cycle.                                       *)

LEMMA CountOK ==
  ASSUME NEW s \in Scheduler, NEW c \in Counter
  PROVE  count(s, c) \in Scheduler /\ count(s, c).pending = s.pending
BY DEF count, Scheduler

LEMMA ClearOK ==
  ASSUME NEW s \in Scheduler
  PROVE  clear_pending(s) \in Scheduler /\ ~clear_pending(s).pending
BY DEF clear_pending, Scheduler

LEMMA ScheduleOK ==
  ASSUME NEW s \in Scheduler, NEW age \in Nat
  PROVE  schedule(s, age) \in Scheduler
<1> DEFINE o == overlapped(s)
           due == IF s.delay > age THEN s.delay - age ELSE 0
<1>1. o \in Scheduler
  BY CountOK DEF overlapped, Counter
<1>2. due \in Nat
  <2>1. s.delay \in Nat
    BY SlaveAssumption DEF Scheduler
  <2> HIDE DEF o
  <2> QED
    BY <2>1
<1>3. schedule(s, age) = [o EXCEPT !.pending = TRUE, !.due = due]
  BY DEF schedule
<1> HIDE DEF o, due
<1> QED
  BY <1>1, <1>2, <1>3 DEF Scheduler

LEMMA ProcessRequestOK ==
  ASSUME NEW s \in Scheduler, NEW report, NEW age \in Nat
  PROVE  /\ process_request(s, report, age) \in Scheduler
         /\ process_request(s, report, age).pending => response_enabled \/ s.pending
<1>1. CASE report = "SUCCESS" /\ response_enabled
  BY <1>1, ScheduleOK DEF process_request
<1>2. CASE report \in {"INVALID", "TIMEOUT"}
  BY <1>2, CountOK DEF process_request, Counter
<1>3. CASE /\ ~(report = "SUCCESS" /\ response_enabled)
           /\ report \notin {"INVALID", "TIMEOUT"}
  BY <1>3 DEF process_request
<1> QED
  BY <1>1, <1>2, <1>3

LEMMA BootedOK == Booted \in Life /\ ~Booted.started
<1>1. /\ -STARTUP_SETTLE \in -STARTUP_SETTLE .. STARTUP_FORCE
      /\ NONE \in NONE .. BUS_IDLE_MIN
  BY SlaveAssumption DEF NONE
<1> QED
  BY <1>1 DEF Booted, Life

LEMMA ScheduleStartOK ==
  ASSUME NEW l \in Life
  PROVE  /\ schedule_start(l) \in Life
         /\ schedule_start(l).started = l.started
         /\ schedule_start(l).ota_active = l.ota_active
         /\ schedule_start(l).phase = l.phase
<1>1. /\ -STARTUP_SETTLE \in -STARTUP_SETTLE .. STARTUP_FORCE
      /\ NONE \in NONE .. BUS_IDLE_MIN
  BY SlaveAssumption DEF NONE
<1> QED
  BY <1>1 DEF schedule_start, Life

LEMMA TryStartOK ==
  ASSUME NEW l \in Life, NEW idle \in BOOLEAN, NEW ok \in BOOLEAN
  PROVE  /\ try_start_waits(l, idle) \in Life
         /\ try_start_waits(l, idle).started = l.started
         /\ try_start_waits(l, idle).ota_active = l.ota_active
         /\ try_start_waits(l, idle).phase = l.phase
         /\ started(l, ok) \in Life
         /\ started(l, ok).ota_active = l.ota_active
         /\ started(l, ok).started /\ ~l.started => ok /\ started(l, ok).phase = l.phase
<1>1. /\ 0 \in -STARTUP_SETTLE .. STARTUP_FORCE
      /\ NONE \in NONE .. BUS_IDLE_MIN /\ 0 \in NONE .. BUS_IDLE_MIN
  BY SlaveAssumption DEF NONE
<1>2. /\ try_start_waits(l, idle) \in Life
      /\ try_start_waits(l, idle).started = l.started
      /\ try_start_waits(l, idle).ota_active = l.ota_active
      /\ try_start_waits(l, idle).phase = l.phase
  BY <1>1 DEF try_start_waits, Life
<1>3. CASE ok
  BY <1>1, <1>2, <1>3 DEF started, Life
<1>4. CASE ~ok
  BY <1>1, <1>2, <1>4 DEF started, Life
<1> QED
  BY <1>3, <1>4

LEMMA HaltedOK ==
  ASSUME NEW l \in Life
  PROVE  /\ halted(l) \in Life /\ ~halted(l).started
         /\ halted(l).phase = l.phase
<1>1. 0 \in -STARTUP_SETTLE .. STARTUP_FORCE /\ NONE \in NONE .. BUS_IDLE_MIN
  BY SlaveAssumption DEF NONE
<1> QED
  BY <1>1 DEF halted, Life

\* stop_() cancels the reply that waits.
LEMMA StopOK ==
  ASSUME TypeOK, stop
  PROVE  /\ DriverOK(ot') /\ scheduler' \in Scheduler /\ ~scheduler'.pending
         /\ master' \in MasterState
<1>1. DriverOK(ot') 
  BY Types, StoppedOK DEF stop, end
<1>2. scheduler' \in Scheduler /\ ~scheduler'.pending
  BY Types, ClearOK DEF stop, stopped
<1>3. NONE \in NONE .. PATIENCE
  BY SlaveAssumption DEF NONE
<1>4. master' \in MasterState
  BY <1>3, Types DEF stop, NotOwed, MasterState
<1> QED
  BY <1>1, <1>2, <1>4

------------------------------------------------------------------------------
(* The invariant.                                                          *)

LEMMA Starts_SInv == Init => SInv
<1> SUFFICES ASSUME Init PROVE SInv
  OBVIOUS
<1>1. DriverOK(ot)
  BY StoppedOK DEF Init
<1>2. life \in Life /\ ~life.started
  BY BootedOK DEF Init
<1>3. scheduler \in Scheduler /\ ~scheduler.pending
  <2>1. {} \in SUBSET Counter
    OBVIOUS
  <2>2. scheduler \in [pending : {FALSE}, due : {0}, delay : Delays, counted : {{}}]
    BY DEF Init
  <2>3. scheduler.counted \in {{}}
    BY <2>2
  <2>4. scheduler = [pending |-> FALSE, due |-> 0, delay |-> scheduler.delay,
                     counted |-> scheduler.counted] /\ scheduler.delay \in Delays
    BY <2>2
  <2>5. scheduler.counted \in SUBSET Counter
    BY <2>3, Zenon
  <2>6. ~scheduler.pending
    BY <2>2
  <2> DEFINE delay == scheduler.delay
             counted == scheduler.counted
  <2>7. /\ scheduler = [pending |-> FALSE, due |-> 0, delay |-> delay, counted |-> counted]
        /\ delay \in Delays /\ counted \in SUBSET Counter
    BY <2>4, <2>5, Zenon
  <2> HIDE DEF delay, counted
  <2>8. scheduler \in Scheduler
    BY <2>7 DEF Scheduler
  <2> QED
    BY <2>6, <2>8
<1>4. master \in MasterState
  BY SlaveAssumption DEF Init, NotFollowed, MasterState, NONE
<1>5. response_enabled \in BOOLEAN /\ looped \in BOOLEAN /\ normal \in BOOLEAN
  BY DEF Init
<1>6. TypeOK
  BY <1>1, <1>2, <1>3, <1>4, <1>5, Types
<1> QED
  BY <1>2, <1>3, <1>6 DEF SInv, PendingOnlyWhileServing, RunningInv

\* What a step of the main loop does to the reply: it is held back only when it
\* was before, or when the slave may answer the request.
LEMMA ServeKeeps ==
  ASSUME SInv, Serve
  PROVE  SInv'
<1> DEFINE age == IF ot.queue = <<>> THEN 0 ELSE Head(ot.queue).age
           driver == process(ot)
           s == process_request(scheduler, Report(ot), age)
<1>1. /\ DriverOK(ot) /\ life \in Life /\ scheduler \in Scheduler
      /\ response_enabled \in BOOLEAN /\ master \in MasterState /\ normal \in BOOLEAN
      /\ life.started /\ ~life.ota_active /\ life.phase = "running"
      /\ scheduler.pending => response_enabled
  BY Types DEF SInv, RunningInv, PendingOnlyWhileServing, Serve
<1>2. age \in Nat
  <2>1. CASE ot.queue = <<>>
    BY <2>1
  <2>2. CASE ot.queue # <<>>
    <3>1. Head(ot.queue) \in Frame
      BY <1>1, <2>2 DEF DriverOK, Driver
    <3> QED
      BY <2>2, <3>1, DriverAssumption DEF Frame
  <2> QED
    BY <2>1, <2>2
<1>3. DriverOK(driver)
  BY <1>1, ProcessOK
<1> HIDE DEF age
<1>4. s \in Scheduler /\ (s.pending => response_enabled)
  BY <1>1, <1>2, ProcessRequestOK
<1>5. /\ try_send_pending_response(driver, s)
      /\ looped' = TRUE
      /\ UNCHANGED <<life, response_enabled, master, normal>>
  BY DEF Serve, age
<1> HIDE DEF driver, s
<1>6. CASE ~MaySend(s)
  <2>1. ot' = driver
    BY <1>5, <1>6 DEF try_send_pending_response
  <2>2. scheduler' = s \/ scheduler' = clear_pending(s)
    BY <1>5, <1>6 DEF try_send_pending_response
  <2>3. scheduler' \in Scheduler /\ (scheduler'.pending => response_enabled)
    BY <1>4, <2>2, ClearOK
  <2>4. TypeOK'
    BY <1>1, <1>3, <1>5, <2>1, <2>3, TypesNext
  <2> QED
    BY <1>1, <1>5, <2>3, <2>4 DEF SInv, PendingOnlyWhileServing, RunningInv
<1>7. CASE MaySend(s)
  <2>1. DriverOK(ot')
    BY <1>3, <1>5, <1>7, SendResponseOK DEF try_send_pending_response
  <2> DEFINE cleared == clear_pending(s)
  <2>2. cleared \in Scheduler /\ ~cleared.pending
    BY <1>4, ClearOK
  <2>3. scheduler' = cleared \/ scheduler' = count(cleared, "queue_failure")
    BY <1>5, <1>7 DEF try_send_pending_response
  <2> HIDE DEF cleared
  <2>4. scheduler' \in Scheduler /\ ~scheduler'.pending
    BY <2>2, <2>3, CountOK DEF Counter
  <2>5. TypeOK'
    BY <1>1, <1>5, <2>1, <2>4, TypesNext
  <2> QED
    BY <1>1, <1>5, <2>4, <2>5 DEF SInv, PendingOnlyWhileServing, RunningInv
<1> QED
  BY <1>6, <1>7

\* Starting and stopping: a slave that is to start holds no reply, since it was
\* cancelled when the slave was stopped.
LEMMA StartKeeps ==
  ASSUME SInv, Start
  PROVE  SInv'
<1>1. /\ TypeOK /\ DriverOK(ot) /\ life \in Life /\ scheduler \in Scheduler
      /\ life.phase = "running" /\ ~life.started /\ ~life.ota_active
      /\ ~scheduler.pending
      /\ response_enabled \in BOOLEAN /\ master \in MasterState /\ normal \in BOOLEAN
  BY Types DEF SInv, PendingOnlyWhileServing, Start
<1>2. looped' = TRUE /\ UNCHANGED <<scheduler, response_enabled, master, normal>>
  BY DEF Start
<1> DEFINE l == IF life.start_pending THEN life ELSE schedule_start(life)
<1>3. PICK idle \in BOOLEAN, ok \in BOOLEAN :
        IF Starts(l, idle)
        THEN life' = started(l, ok) /\ ot' = (IF ok THEN begin(ot) ELSE ot)
        ELSE life' = try_start_waits(l, idle) /\ UNCHANGED ot
  BY DEF Start
<1>4. l \in Life /\ ~l.started /\ ~l.ota_active /\ l.phase = "running"
  BY <1>1, ScheduleStartOK
<1> HIDE DEF l
<1>5. DriverOK(ot')
  BY <1>1, <1>3, BeginOK
<1>6. /\ life' \in Life
      /\ life'.started => ~life'.ota_active /\ life'.phase = "running"
  BY <1>3, <1>4, TryStartOK
<1>7. TypeOK'
  BY <1>1, <1>2, <1>5, <1>6, TypesNext
<1> QED
  BY <1>1, <1>2, <1>6, <1>7 DEF SInv, PendingOnlyWhileServing, RunningInv

LEMMA OtaKeeps ==
  ASSUME SInv, ota_started \/ on_shutdown
  PROVE  SInv'
<1>1. /\ TypeOK /\ life \in Life /\ stop
      /\ UNCHANGED <<response_enabled, looped, normal>>
      /\ response_enabled \in BOOLEAN /\ looped \in BOOLEAN /\ normal \in BOOLEAN
  BY Types DEF SInv, ota_started, on_shutdown
<1>2. /\ DriverOK(ot') /\ scheduler' \in Scheduler /\ ~scheduler'.pending
      /\ master' \in MasterState
  BY <1>1, StopOK
<1> DEFINE l == halted(life)
<1>3. l \in Life /\ ~l.started
  BY <1>1, HaltedOK
<1>4. \/ life' = [l EXCEPT !.ota_active = TRUE]
      \/ life' = [l EXCEPT !.phase = "off", !.ota_active = FALSE]
  BY DEF ota_started, on_shutdown
<1> HIDE DEF l
<1>5. life' \in Life /\ ~life'.started
  BY <1>3, <1>4 DEF Life
<1>6. TypeOK'
  BY <1>1, <1>2, <1>5, TypesNext
<1> QED
  BY <1>2, <1>5, <1>6 DEF SInv, PendingOnlyWhileServing, RunningInv

LEMMA Next_SInv ==
  ASSUME SInv, [Next]_vars
  PROVE  SInv'
<1>1. /\ TypeOK /\ DriverOK(ot) /\ life \in Life /\ scheduler \in Scheduler
      /\ response_enabled \in BOOLEAN /\ master \in MasterState
      /\ looped \in BOOLEAN /\ normal \in BOOLEAN
  BY Types DEF SInv
<1>2. /\ life.started => ~life.ota_active /\ life.phase = "running"
      /\ scheduler.pending => life.started /\ ~life.ota_active /\ response_enabled
  BY DEF SInv, RunningInv, PendingOnlyWhileServing
<1>3. CASE Serve
  BY <1>3, ServeKeeps
<1>4. CASE Start
  BY <1>4, StartKeeps
<1>5. CASE ota_started \/ on_shutdown
  BY <1>5, OtaKeeps
<1>6. CASE ota_ended
  <2> DEFINE l == [life EXCEPT !.ota_active = FALSE]
  <2>1. l \in Life /\ ~l.started
    BY <1>1, <1>2, <1>6 DEF ota_ended, Life
  <2>2. /\ life' = schedule_start(l)
        /\ UNCHANGED <<ot, scheduler, response_enabled, master, looped, normal>>
    BY <1>6 DEF ota_ended
  <2> HIDE DEF l
  <2>3. life' \in Life /\ ~life'.started
    BY <2>1, <2>2, ScheduleStartOK
  <2>4. TypeOK'
    BY <1>1, <2>2, <2>3, TypesNext
  <2>5. ~scheduler'.pending
    BY <1>2, <1>6, <2>2 DEF ota_ended
  <2> QED
    BY <2>3, <2>4, <2>5 DEF SInv, PendingOnlyWhileServing, RunningInv
<1>7. ASSUME NEW value \in BOOLEAN, set_response_enabled(value)
      PROVE  SInv'
  <2>1. response_enabled' = value /\ UNCHANGED <<ot, life, looped, normal>>
    BY <1>7 DEF set_response_enabled
  <2>2. scheduler' = (IF value = response_enabled THEN scheduler
                      ELSE IF value THEN scheduler ELSE clear_pending(scheduler))
    BY <1>7 DEF set_response_enabled, cancelled
  <2>3. scheduler' \in Scheduler
    BY <1>1, <2>2, ClearOK
  <2>4. scheduler'.pending => scheduler.pending /\ value
    BY <1>1, <1>2, <2>2, ClearOK
  <2>5. master' \in MasterState
    BY <1>1, <1>7 DEF set_response_enabled, NotOwed, MasterState
  <2>6. TypeOK'
    BY <1>1, <2>1, <2>3, <2>5, TypesNext
  <2> QED
    BY <1>2, <2>1, <2>4, <2>6 DEF SInv, PendingOnlyWhileServing, RunningInv
<1>8. CASE reset_protocol_diagnostics \/ \E delay \in Delays : set_response_delay(delay)
  <2>1. UNCHANGED <<ot, life, response_enabled, master, looped, normal>>
    BY <1>8 DEF reset_protocol_diagnostics, set_response_delay
  <2>2. {} \in SUBSET Counter
    OBVIOUS
  <2>3. scheduler' \in Scheduler /\ scheduler'.pending = scheduler.pending
    BY <1>1, <1>8, <2>2 DEF reset_protocol_diagnostics, set_response_delay, Scheduler
  <2>4. TypeOK'
    BY <1>1, <2>1, <2>3, TypesNext
  <2> QED
    BY <1>2, <2>1, <2>3, <2>4 DEF SInv, PendingOnlyWhileServing, RunningInv
<1>9. CASE setup
  <2>1. /\ life' = Booted /\ response_enabled' = TRUE
        /\ UNCHANGED <<ot, master, looped, normal>>
        /\ ~scheduler.pending
    BY <1>2, <1>9 DEF setup
  <2>2. {} \in SUBSET Counter
    OBVIOUS
  <2>3. scheduler' \in Scheduler /\ ~scheduler'.pending
    BY <1>1, <1>9, <2>1, <2>2 DEF setup, Scheduler
  <2>4. life' \in Life /\ ~life'.started
    BY <2>1, BootedOK
  <2>5. TypeOK'
    BY <1>1, <2>1, <2>3, <2>4, TypesNext
  <2> QED
    BY <2>3, <2>4, <2>5 DEF SInv, PendingOnlyWhileServing, RunningInv
<1>10. ASSUME NEW kind \in FrameKind, ReceiveFrame(kind)
       PROVE  SInv'
  <2>1. UNCHANGED <<life, response_enabled, looped>> /\ normal' \in BOOLEAN
    BY <1>1, <1>10 DEF ReceiveFrame
  <2>2. DriverOK(ot')
    BY <1>1, <1>10, QueueRxOK DEF ReceiveFrame
  <2>3. scheduler' = scheduler \/ scheduler' = count(scheduler, "overflow")
    BY <1>10 DEF ReceiveFrame
  <2>4. scheduler' \in Scheduler /\ scheduler'.pending = scheduler.pending
    BY <1>1, <2>3, CountOK DEF Counter
  <2>5. /\ NotFollowed \in MasterState
        /\ 0 \in NONE .. PATIENCE
    BY SlaveAssumption DEF NotFollowed, MasterState, NONE
  <2>6. (life.started /\ response_enabled) \in BOOLEAN
    OBVIOUS
  <2>7. \/ master' = [master EXCEPT !.waited = 0, !.owed = life.started /\ response_enabled]
        \/ master' = NotFollowed
    BY <1>10 DEF ReceiveFrame
  <2>8. master' \in MasterState
    BY <1>1, <2>5, <2>6, <2>7 DEF MasterState
  <2>9. TypeOK'
    BY <1>1, <2>1, <2>2, <2>4, <2>8, TypesNext
  <2> QED
    BY <1>2, <2>1, <2>4, <2>9 DEF SInv, PendingOnlyWhileServing, RunningInv
<1>11. CASE TxDone
  <2>1. UNCHANGED <<life, scheduler, response_enabled, looped, normal>>
    BY <1>11 DEF TxDone
  <2>2. DriverOK(ot')
    BY <1>1, <1>11, TxDoneOK DEF TxDone
  <2>3. NotFollowed \in MasterState
    BY SlaveAssumption DEF NotFollowed, MasterState, NONE
  <2> DEFINE unsolicited == master.unsolicited \/ master.waited = NONE
  <2>4. unsolicited \in BOOLEAN
    OBVIOUS
  <2>5. \/ master' = [NotFollowed EXCEPT !.unsolicited = unsolicited]
        \/ master' = NotFollowed
    BY <1>11 DEF TxDone
  <2> HIDE DEF unsolicited
  <2>6. master' \in MasterState
    BY <2>3, <2>4, <2>5 DEF MasterState
  <2>7. TypeOK'
    BY <1>1, <2>1, <2>2, <2>6, TypesNext
  <2> QED
    BY <1>2, <2>1, <2>7 DEF SInv, PendingOnlyWhileServing, RunningInv
<1>12. CASE GivesUp
  <2>1. UNCHANGED <<ot, life, scheduler, response_enabled, looped, normal>>
    BY <1>12 DEF GivesUp
  <2>2. NONE \in NONE .. PATIENCE
    BY SlaveAssumption DEF NONE
  <2>3. master' \in MasterState
    BY <1>1, <1>12, <2>2 DEF GivesUp, MasterState
  <2>4. TypeOK'
    BY <1>1, <2>1, <2>3, TypesNext
  <2> QED
    BY <1>2, <2>1, <2>4 DEF SInv, PendingOnlyWhileServing, RunningInv
<1>13. CASE Tick
  <2>1. response_enabled' = response_enabled /\ looped' = FALSE /\ normal' \in BOOLEAN
    BY <1>1, <1>13 DEF Tick
  <2>2. DriverOK(ot')
    BY <1>1, <1>13, TickOK DEF Tick
  <2> DEFINE since == IF life.start_pending /\ life.since < STARTUP_FORCE
                      THEN life.since + 1 ELSE life.since
             idle == Waits(life.idle, BUS_IDLE_MIN)
             due == IF scheduler.due = 0 THEN 0 ELSE scheduler.due - 1
             waited == Waits(master.waited, PATIENCE)
  <2>3. since \in -STARTUP_SETTLE .. STARTUP_FORCE
    BY <1>1, SlaveAssumption DEF Life
  <2>4. idle \in NONE .. BUS_IDLE_MIN
    BY <1>1, SlaveAssumption DEF Life, Waits, NONE
  <2>5. due \in Nat
    BY <1>1 DEF Scheduler
  <2>6. waited \in NONE .. PATIENCE /\ NotFollowed \in MasterState
    BY <1>1, SlaveAssumption DEF MasterState, Waits, NONE, NotFollowed
  <2>7. /\ life' = [life EXCEPT !.since = since, !.idle = idle]
        /\ scheduler' = [scheduler EXCEPT !.due = due]
        /\ \/ master' = [master EXCEPT !.waited = waited]
           \/ master' = NotFollowed
    BY <1>13 DEF Tick
  <2> HIDE DEF since, idle, due, waited
  <2>8. /\ life' \in Life /\ life'.started = life.started
        /\ life'.ota_active = life.ota_active /\ life'.phase = life.phase
    BY <1>1, <2>3, <2>4, <2>7 DEF Life
  <2>9. scheduler' \in Scheduler /\ scheduler'.pending = scheduler.pending
    BY <1>1, <2>5, <2>7 DEF Scheduler
  <2>10. master' \in MasterState
    BY <1>1, <2>6, <2>7 DEF MasterState
  <2>11. TypeOK'
    BY <2>1, <2>2, <1>1, <2>8, <2>9, <2>10, TypesNext
  <2> QED
    BY <1>2, <2>1, <2>8, <2>9, <2>11 DEF SInv, PendingOnlyWhileServing, RunningInv
<1>14. CASE UNCHANGED vars
  BY <1>14 DEF vars, SInv, TypeOK, PendingOnlyWhileServing, RunningInv
<1> QED
  BY <1>3, <1>4, <1>5, <1>6, <1>7, <1>8, <1>9, <1>10, <1>11, <1>12, <1>13, <1>14 DEF Next

\* The types, the slave that runs outside updates only, and the reply that is
\* held back only by such a slave hold together in every reachable state.
THEOREM InductiveInvariant == Spec => []SInv
<1>1. Init => SInv
  BY Starts_SInv
<1>2. SInv /\ [Next]_vars => SInv'
  BY Next_SInv
<1> QED
  BY <1>1, <1>2, PTL DEF Spec

\* Every field keeps within its range, and the ring of received frames keeps one
\* slot empty (queue_rx_frame_), for every ring, delay and timeout.
THEOREM TypeCorrect == Spec => []TypeOK
<1>1. SInv => TypeOK
  BY DEF SInv
<1> QED
  BY <1>1, InductiveInvariant, PTL

\* Neither an update, a restart nor responses that are switched off leave a reply
\* behind that is sent later (stop_, set_response_enabled), for every delay.
THEOREM NoReplyIsLeftBehind == Spec => []PendingOnlyWhileServing
<1>1. SInv => PendingOnlyWhileServing
  BY DEF SInv
<1> QED
  BY <1>1, InductiveInvariant, PTL

------------------------------------------------------------------------------
(* The normal load: a request, its reply and the master's patience.        *)

\* A slave that does not run has a driver at rest.
Rested ==
  /\ ~life.started => ot = Stopped
  /\ life.started => ot.status # "NOT_INITIALIZED"

\* A request that waits in the ring is the only one, alone on the bus, and is
\* taken before the second tick.
Incoming(d, s, m, ran) ==
  d.queue # <<>> =>
    /\ Len(d.queue) = 1 /\ Head(d.queue).kind = "valid"
    /\ Head(d.queue).age = m.waited /\ m.waited \in {0, 1}
    /\ m.waited = 1 => ~ran
    /\ ~s.pending /\ d.sending = 0

\* A reply that is held back still fits, and goes out in the tick it is due.
Waiting(d, s, m, ran) ==
  s.pending =>
    /\ d.queue = <<>> /\ d.sending = 0
    /\ m.waited \in Nat /\ m.waited + s.due + TX_TIME < PATIENCE
    /\ s.due = 0 => ~ran

\* A reply on the wire ends before the master gives up, and its driver sends.
Replying(d, m) ==
  d.sending # 0 =>
    /\ d.sending = 1 /\ d.queue = <<>>
    /\ m.waited \in Nat /\ m.waited + d.left < PATIENCE
    /\ d.status = "REQUEST_SENDING" /\ ~d.tx_complete

\* A reply that is owed is in the ring, held back or on the wire.
Owing(d, s, m, enabled) ==
  m.owed => enabled /\ (d.queue # <<>> \/ s.pending \/ d.sending # 0)

Clean(d, s, m) == s.counted = {} /\ ~m.unsolicited /\ ~d.edge_overflow

Loaded(d, s, m, ran, enabled) ==
  /\ Told(d)
  /\ Incoming(d, s, m, ran) /\ Waiting(d, s, m, ran) /\ Replying(d, m)
  /\ Owing(d, s, m, enabled) /\ Clean(d, s, m)

LoadInv ==
  /\ Rested
  /\ normal => Loaded(ot, scheduler, master, looped, response_enabled)

LEMMA LoadInit == Init => LoadInv
<1> SUFFICES ASSUME Init PROVE LoadInv
  OBVIOUS
<1>1. ot = Stopped /\ ~life.started
  BY DEF Init, Booted
<1>2. /\ ot.status = "NOT_INITIALIZED" /\ ot.queue = <<>> /\ ot.sending = 0
      /\ ~ot.edge_overflow
  BY <1>1 DEF Stopped
<1>3. ~scheduler.pending /\ scheduler.counted = {}
  BY DEF Init
<1>4. ~master.owed /\ ~master.unsolicited
  BY DEF Init, NotFollowed
<1> QED
  BY <1>1, <1>2, <1>3, <1>4
     DEF LoadInv, Rested, Loaded, Told, Incoming, Waiting, Replying, Owing, Clean

\* The scheduler's operations on one that was not used meanwhile
LEMMA CountedNothing ==
  ASSUME NEW s \in Scheduler, NEW age \in Nat, ~s.pending, s.counted = {}
  PROVE  /\ schedule(s, age).pending /\ schedule(s, age).counted = {}
         /\ schedule(s, age).due = IF s.delay > age THEN s.delay - age ELSE 0
BY DEF schedule, overlapped, Scheduler

LEMMA ClearFields ==
  ASSUME NEW s \in Scheduler
  PROVE  clear_pending(s).counted = s.counted /\ ~clear_pending(s).pending
BY DEF clear_pending, Scheduler

\* A reply that goes out is on the wire, and none is left behind.
LEMMA SendsReply ==
  ASSUME NEW d \in Driver, d.status # "NOT_INITIALIZED",
         d.sending = 0, d.queue = <<>>, NEW s \in Scheduler, NEW m, NEW ran, NEW enabled,
         m.waited \in Nat, m.waited + TX_TIME < PATIENCE,
         m.owed => enabled, Clean(d, s, m)
  PROVE  Loaded(sendResponse(d), clear_pending(s), m, ran, enabled)
<1> DEFINE r == sendResponse(d)
           c == clear_pending(s)
<1>1. /\ r.sending = 1 /\ r.left = TX_TIME /\ r.status = "REQUEST_SENDING"
      /\ ~r.tx_complete /\ r.queue = <<>> /\ ~r.edge_overflow
  BY SendFields DEF Clean
<1>2. Told(r)
  BY ToldSend
<1>3. ~c.pending /\ c.counted = {}
  BY ClearFields DEF Clean
<1> HIDE DEF r, c
<1>4. Loaded(r, c, m, ran, enabled)
  BY <1>1, <1>2, <1>3 DEF Loaded, Incoming, Waiting, Replying, Owing, Clean
<1> QED
  BY <1>4 DEF r, c

LEMMA ServeLoaded ==
  ASSUME SInv, LoadInv, Serve, normal
  PROVE  Loaded(ot', scheduler', master', looped', response_enabled')
<1> DEFINE age == IF ot.queue = <<>> THEN 0 ELSE Head(ot.queue).age
           driver == process(ot)
           s == process_request(scheduler, Report(ot), age)
<1>1. /\ ot \in Driver /\ DriverOK(ot) /\ scheduler \in Scheduler
      /\ response_enabled \in BOOLEAN
      /\ scheduler.pending => response_enabled
  BY Types DEF SInv, PendingOnlyWhileServing, DriverOK
<1>2. /\ Told(ot) /\ Incoming(ot, scheduler, master, looped)
      /\ Waiting(ot, scheduler, master, looped) /\ Replying(ot, master)
      /\ Owing(ot, scheduler, master, response_enabled)
      /\ Clean(ot, scheduler, master)
  BY DEF LoadInv, Loaded
<1>3. ot.status # "NOT_INITIALIZED"
  BY DEF LoadInv, Rested, Serve
<1>4. /\ try_send_pending_response(driver, s)
      /\ looped' = TRUE
      /\ UNCHANGED <<life, response_enabled, master, normal>>
  BY DEF Serve
<1>5. /\ driver \in Driver /\ driver.sending = ot.sending /\ driver.left = ot.left
      /\ ~driver.edge_overflow /\ Told(driver)
      /\ driver.queue = IF ot.queue = <<>> THEN <<>> ELSE Tail(ot.queue)
      /\ driver.status # "NOT_INITIALIZED"
      /\ driver.status = "REQUEST_SENDING" => driver.tx_complete = ot.tx_complete
  BY <1>1, <1>2, <1>3, ProcessOK, ProcessFields, ToldProcess DEF DriverOK
<1>6. CASE ot.queue # <<>>
  <2>1. /\ Len(ot.queue) = 1 /\ Head(ot.queue).kind = "valid"
        /\ age = master.waited /\ master.waited \in {0, 1}
        /\ ~scheduler.pending /\ ot.sending = 0
    BY <1>2, <1>6 DEF Incoming
  <2>2. age \in Nat /\ Head(ot.queue).age <= TIMEOUT
    BY <1>6, <2>1, DriverAssumption
  <2>3. Report(ot) = "SUCCESS" /\ driver.queue = <<>>
    BY <1>1, <1>2, <1>3, <2>1, <2>2, TakesRequest DEF Clean
  <2> HIDE DEF driver, age
  <2>4. CASE ~response_enabled
    <3>1. s = scheduler
      BY <2>3, <2>4 DEF process_request
    <3> HIDE DEF s
    <3>2. ~MaySend(s)
      BY <2>4 DEF MaySend
    <3>3. ot' = driver /\ scheduler' = scheduler
      BY <1>4, <2>1, <3>1, <3>2 DEF try_send_pending_response
    <3>4. ~scheduler.pending /\ driver.sending = 0 /\ driver.queue = <<>> /\ ~master.owed
      BY <1>2, <1>5, <2>1, <2>3, <2>4 DEF Owing
    <3> QED
      BY <1>2, <1>4, <1>5, <3>3, <3>4
         DEF Loaded, Incoming, Waiting, Replying, Owing, Clean
  <2>5. CASE response_enabled
    <3>1. s = schedule(scheduler, age)
      BY <2>3, <2>5 DEF process_request
    <3>2. /\ s \in Scheduler /\ s.pending /\ s.counted = {}
          /\ s.due = IF scheduler.delay > age THEN scheduler.delay - age ELSE 0
      BY <1>1, <1>2, <2>1, <2>2, <3>1, CountedNothing, ScheduleOK DEF Clean
    <3>3. /\ scheduler.delay \in Nat /\ TX_TIME \in Nat /\ PATIENCE \in Nat
          /\ scheduler.delay + TX_TIME < PATIENCE /\ 1 + TX_TIME < PATIENCE
      BY <1>1, SlaveAssumption, DriverAssumption, LoadAssumption DEF Scheduler
    <3> HIDE DEF s
    <3>4. /\ age + s.due + TX_TIME < PATIENCE
          /\ master.waited \in Nat /\ master.waited + TX_TIME < PATIENCE
          /\ master.waited = age
      BY <2>1, <2>2, <3>2, <3>3
    <3>5. CASE s.due = 0
      <4>1. ot' = sendResponse(driver) /\ CanTransmit(driver)
        BY <1>4, <1>5, <2>1, <2>5, <3>2, <3>5, SendFields
           DEF try_send_pending_response, MaySend
      <4>2. scheduler' = clear_pending(s)
        BY <1>4, <2>5, <3>2, <3>5, <4>1 DEF try_send_pending_response, MaySend
      <4>3. Clean(driver, s, master)
        BY <1>2, <1>5, <3>2 DEF Clean
      <4>4. Loaded(sendResponse(driver), clear_pending(s), master, TRUE, response_enabled)
        BY <1>5, <2>1, <2>3, <2>5, <3>2, <3>4, <4>3, SendsReply
      <4> QED
        BY <1>4, <4>1, <4>2, <4>4
    <3>6. CASE s.due # 0
      <4>1. ot' = driver /\ scheduler' = s
        BY <1>4, <2>5, <3>6 DEF try_send_pending_response, MaySend
      <4>2. Waiting(driver, s, master, TRUE)
        BY <1>5, <2>1, <2>3, <3>4, <3>6 DEF Waiting
      <4>3. /\ Incoming(driver, s, master, TRUE) /\ Replying(driver, master)
            /\ Owing(driver, s, master, response_enabled) /\ Clean(driver, s, master)
        BY <1>2, <1>5, <2>1, <2>3, <2>5, <3>2 DEF Incoming, Replying, Owing, Clean
      <4> QED
        BY <1>4, <1>5, <4>1, <4>2, <4>3 DEF Loaded
    <3> QED
      BY <3>5, <3>6
  <2> QED
    BY <1>1, <2>4, <2>5
<1>7. CASE ot.queue = <<>>
  <2>1. Report(ot) = "NONE"
    BY <1>1, <1>2, <1>7, NothingToReport, LoadAssumption DEF Clean
  <2>2. s = scheduler
    BY <2>1 DEF process_request
  <2>3. driver.queue = <<>>
    BY <1>5, <1>7
  <2>4. driver.sending # 0 => driver.status = "REQUEST_SENDING" /\ ~driver.tx_complete
    BY <1>1, <1>2, <1>5, <1>7, ProcessWaits, LoadAssumption DEF Replying, Clean
  <2> HIDE DEF driver, s
  <2>5. CASE MaySend(s)
    <3>1. /\ driver.sending = 0 /\ master.waited \in Nat
          /\ scheduler.due = 0 /\ master.waited + scheduler.due + TX_TIME < PATIENCE
      BY <1>2, <1>5, <2>2, <2>5 DEF MaySend, Waiting
    <3>2. ot' = sendResponse(driver) /\ CanTransmit(driver)
      BY <1>4, <1>5, <2>5, <3>1, SendFields DEF try_send_pending_response
    <3>3. scheduler' = clear_pending(scheduler)
      BY <1>4, <2>2, <2>5, <3>2 DEF try_send_pending_response
    <3>4. Clean(driver, scheduler, master)
      BY <1>2, <1>5 DEF Clean
    <3>5. master.waited + TX_TIME < PATIENCE
      BY <3>1, DriverAssumption
    <3>6. master.owed => response_enabled
      BY <1>2 DEF Owing
    <3>7. Loaded(sendResponse(driver), clear_pending(scheduler), master, TRUE,
                 response_enabled)
      BY <1>1, <1>5, <2>3, <3>1, <3>4, <3>5, <3>6, SendsReply
    <3> QED
      BY <1>4, <3>2, <3>3, <3>7
  <2>6. CASE ~MaySend(s)
    <3>1. ot' = driver /\ scheduler' = scheduler
      BY <1>1, <1>4, <2>2, <2>6 DEF try_send_pending_response
    <3>2. scheduler.pending => scheduler.due # 0
      BY <1>1, <2>2, <2>6 DEF MaySend
    <3>3. Waiting(driver, scheduler, master, TRUE)
      BY <1>2, <1>5, <2>3, <3>2 DEF Waiting
    <3>4. Replying(driver, master)
      BY <1>2, <1>5, <2>3, <2>4 DEF Replying
    <3>5. /\ Incoming(driver, scheduler, master, TRUE)
          /\ Owing(driver, scheduler, master, response_enabled)
          /\ Clean(driver, scheduler, master)
      BY <1>2, <1>5, <1>7, <2>3 DEF Incoming, Owing, Clean
    <3> QED
      BY <1>4, <1>5, <3>1, <3>3, <3>4, <3>5 DEF Loaded
  <2> QED
    BY <2>5, <2>6
<1> QED
  BY <1>6, <1>7

\* A master that gives up or a frame that nobody takes meets an idle slave.
LEMMA IdleSlave ==
  ASSUME NEW d, NEW s, NEW m, NEW ran, NEW enabled, Loaded(d, s, m, ran, enabled),
         m.waited \notin 0 .. PATIENCE - 1, PATIENCE \in Nat, PATIENCE > 1,
         d.left \in Nat, s.due \in Nat
  PROVE  d.queue = <<>> /\ ~s.pending /\ d.sending = 0
<1>1. d.queue = <<>>
  BY DEF Loaded, Incoming
<1>2. ~s.pending
  BY DriverAssumption DEF Loaded, Waiting
<1>3. d.sending = 0
  BY DEF Loaded, Replying
<1> QED
  BY <1>1, <1>2, <1>3

LEMMA TickLoaded ==
  ASSUME SInv, LoadInv, Tick, normal'
  PROVE  Loaded(ot', scheduler', master', looped', response_enabled')
<1> DEFINE waited == Waits(master.waited, PATIENCE)
           due == IF scheduler.due = 0 THEN 0 ELSE scheduler.due - 1
<1>1. /\ ot \in Driver /\ DriverOK(ot') /\ scheduler \in Scheduler
      /\ master \in MasterState
      /\ scheduler.pending => life.started
      /\ PATIENCE \in Nat /\ TX_TIME \in Nat
  BY Types, TickOK, SlaveAssumption, DriverAssumption
     DEF SInv, PendingOnlyWhileServing, DriverOK, Tick
<1>2. /\ normal /\ (looped \/ ~life.started) /\ MayTick(ot) /\ ot' = tick(ot)
      /\ looped' = FALSE /\ response_enabled' = response_enabled
      /\ scheduler' = [scheduler EXCEPT !.due = due]
      /\ master' = [master EXCEPT !.waited = waited]
  BY DEF Tick
<1>3. /\ Told(ot) /\ Incoming(ot, scheduler, master, looped)
      /\ Waiting(ot, scheduler, master, looped) /\ Replying(ot, master)
      /\ Owing(ot, scheduler, master, response_enabled)
      /\ Clean(ot, scheduler, master)
  BY <1>2 DEF LoadInv, Loaded
<1>4. ot.queue # <<>> \/ ot.sending # 0 => life.started
  BY DEF LoadInv, Rested, Stopped
<1>5. /\ scheduler'.pending = scheduler.pending /\ scheduler'.due = due
      /\ scheduler'.counted = scheduler.counted
      /\ master'.waited = waited /\ master'.owed = master.owed
      /\ master'.unsolicited = master.unsolicited
  BY <1>1, <1>2 DEF Scheduler, MasterState
<1>6. /\ ot'.status = ot.status /\ ot'.sending = ot.sending
      /\ ot'.tx_complete = ot.tx_complete /\ ot'.edge_overflow = ot.edge_overflow
      /\ ot'.queue = Aged(ot.queue)
      /\ ot'.left = IF ot.left = 0 THEN 0 ELSE ot.left - 1
      /\ Told(ot')
  BY <1>1, <1>2, <1>3, TickFields, ToldTick
<1>7. /\ ot.queue \in Seq(Frame) /\ Len(ot'.queue) = Len(ot.queue)
      /\ ot'.queue \in Seq(Frame)
      /\ ot'.queue = <<>> <=> ot.queue = <<>>
  <2>1. ot.queue \in Seq(Frame)
    BY <1>1 DEF Driver
  <2> QED
    BY <1>6, <2>1, AgedFields, EmptySeq
<1>8. /\ scheduler.due \in Nat /\ due \in Nat /\ master.waited \in Int
      /\ ot.left \in Nat /\ TIMEOUT \in Nat
  BY <1>1, DriverAssumption DEF Scheduler, MasterState, NONE, Driver
<1>9. Incoming(ot', scheduler', master', FALSE)
  <2> SUFFICES ASSUME ot.queue # <<>>
               PROVE  /\ Len(ot'.queue) = 1 /\ Head(ot'.queue).kind = "valid"
                      /\ Head(ot'.queue).age = 1 /\ waited = 1
                      /\ ~scheduler.pending /\ ot.sending = 0
    BY <1>5, <1>6, <1>7 DEF Incoming
  <2>1. /\ Len(ot.queue) = 1 /\ Head(ot.queue).kind = "valid"
        /\ Head(ot.queue).age = 0 /\ master.waited = 0
        /\ ~scheduler.pending /\ ot.sending = 0
    BY <1>2, <1>3, <1>4 DEF Incoming
  <2>2. Head(ot.queue) = ot.queue[1] /\ Head(ot'.queue) = ot'.queue[1]
    BY <1>7, <2>1
  <2>3. Head(ot'.queue).kind = "valid" /\ Head(ot'.queue).age = Older(0)
    BY <1>6, <1>7, <2>1, <2>2, AgedFields
  <2>4. Older(0) = 1 /\ waited = 1
    BY <2>1, DriverAssumption, SlaveAssumption, LoadAssumption DEF Older, Waits, NONE
  <2> QED
    BY <1>7, <2>1, <2>3, <2>4
<1>10. Waiting(ot', scheduler', master', FALSE)
  <2> SUFFICES ASSUME scheduler.pending
               PROVE  /\ ot.queue = <<>> /\ ot.sending = 0
                      /\ waited \in Nat /\ waited + due + TX_TIME < PATIENCE
    <3> HIDE DEF waited, due
    <3> QED
      BY <1>5, <1>6, <1>7 DEF Waiting
  <2>1. /\ ot.queue = <<>> /\ ot.sending = 0 /\ scheduler.due # 0
        /\ master.waited \in Nat
        /\ master.waited + scheduler.due + TX_TIME < PATIENCE
    BY <1>1, <1>2, <1>3 DEF Waiting
  <2>2. waited = master.waited + 1 /\ due = scheduler.due - 1
    BY <1>1, <1>8, <2>1 DEF Waits, NONE
  <2>3. PATIENCE \in Nat /\ TX_TIME \in Nat /\ scheduler.due \in Nat
    BY <1>1, <1>8
  <2> HIDE DEF waited, due
  <2>4. waited \in Nat /\ waited + due + TX_TIME < PATIENCE
    BY <2>1, <2>2, <2>3
  <2> QED
    BY <2>1, <2>4
<1>11. Replying(ot', master')
  <2> SUFFICES ASSUME ot.sending # 0
               PROVE  /\ ot.sending = 1 /\ ot.queue = <<>>
                      /\ waited \in Nat /\ waited + ot'.left < PATIENCE
                      /\ ot.status = "REQUEST_SENDING" /\ ~ot.tx_complete
    BY <1>5, <1>6, <1>7 DEF Replying
  <2>1. /\ ot.sending = 1 /\ ot.queue = <<>>
        /\ master.waited \in Nat /\ master.waited + ot.left < PATIENCE
        /\ ot.status = "REQUEST_SENDING" /\ ~ot.tx_complete
    BY <1>3 DEF Replying
  <2>2. ot.left > 0
    BY <1>2, <2>1 DEF MayTick
  <2>3. waited = master.waited + 1 /\ ot'.left = ot.left - 1
    BY <1>1, <1>6, <1>8, <2>1, <2>2 DEF Waits, NONE
  <2> QED
    BY <1>1, <1>8, <2>1, <2>2, <2>3
<1>12. /\ Owing(ot', scheduler', master', response_enabled)
       /\ Clean(ot', scheduler', master')
  BY <1>3, <1>5, <1>6, <1>7 DEF Owing, Clean
<1> QED
  BY <1>2, <1>6, <1>9, <1>10, <1>11, <1>12 DEF Loaded

LEMMA ReceiveLoaded ==
  ASSUME SInv, LoadInv, NEW kind \in FrameKind, ReceiveFrame(kind), normal'
  PROVE  Loaded(ot', scheduler', master', looped', response_enabled')
<1>1. /\ ot \in Driver /\ scheduler \in Scheduler /\ master \in MasterState
      /\ ot.left \in Nat /\ scheduler.due \in Nat
  BY Types, DriverAssumption DEF SInv, DriverOK, Driver, Scheduler
<1>2. normal /\ kind = "valid" /\ master.waited = NONE
  BY DEF ReceiveFrame
<1>3. /\ master' = [master EXCEPT !.waited = 0,
                                  !.owed = life.started /\ response_enabled]
      /\ UNCHANGED <<life, response_enabled, looped>>
  BY <1>2 DEF ReceiveFrame
<1>4. /\ Told(ot) /\ Clean(ot, scheduler, master)
      /\ ot.queue = <<>> /\ ~scheduler.pending /\ ot.sending = 0
  <2>1. Loaded(ot, scheduler, master, looped, response_enabled)
    BY <1>2 DEF LoadInv
  <2>2. master.waited \notin 0 .. PATIENCE - 1 /\ PATIENCE \in Nat /\ PATIENCE > 1
    BY <1>2, SlaveAssumption, DriverAssumption, LoadAssumption DEF NONE
  <2> QED
    BY <1>1, <2>1, <2>2, IdleSlave DEF Loaded
<1>5. /\ master'.waited = 0 /\ master'.unsolicited = master.unsolicited
      /\ master'.owed = (life.started /\ response_enabled)
  BY <1>1, <1>3 DEF MasterState
<1>6. CASE ~life.started
  <2>1. ot' = ot /\ scheduler' = scheduler
    BY <1>6 DEF ReceiveFrame
  <2> QED
    BY <1>3, <1>4, <1>5, <1>6, <2>1
       DEF Loaded, Incoming, Waiting, Replying, Owing, Clean
<1>7. CASE life.started
  <2> DEFINE frame == [kind |-> kind, age |-> 0]
  <2>1. ~QueueFull(ot)
    BY <1>4, DriverAssumption DEF QueueFull
  <2>2. ot' = queue_rx_frame(ot, kind) /\ scheduler' = scheduler
    BY <1>7, <2>1 DEF ReceiveFrame
  <2>3. /\ ot'.status = ot.status /\ ot'.age = ot.age /\ ot'.left = ot.left
        /\ ot'.tx_in_progress = ot.tx_in_progress /\ ot'.tx_complete = ot.tx_complete
        /\ ot'.sending = 0 /\ ~ot'.edge_overflow
        /\ ot'.queue = Append(ot.queue, frame)
    BY <1>1, <1>4, <2>1, <2>2, RxFields DEF Clean
  <2>4. ot'.queue = <<frame>>
    BY <1>4, <2>3
  <2>5. /\ Len(ot'.queue) = 1 /\ Head(ot'.queue).kind = "valid"
        /\ Head(ot'.queue).age = 0 /\ ot'.queue # <<>>
    BY <1>2, <2>4
  <2>6. Told(ot')
    BY <1>4, <2>3 DEF Told
  <2> HIDE DEF frame
  <2>7. Incoming(ot', scheduler', master', looped')
    BY <1>4, <1>5, <2>2, <2>3, <2>5 DEF Incoming
  <2>8. Waiting(ot', scheduler', master', looped') /\ Replying(ot', master')
    BY <1>4, <2>2, <2>3 DEF Waiting, Replying
  <2>9. /\ Owing(ot', scheduler', master', response_enabled')
        /\ Clean(ot', scheduler', master')
    BY <1>3, <1>4, <1>5, <2>2, <2>3, <2>5 DEF Owing, Clean
  <2> QED
    BY <2>6, <2>7, <2>8, <2>9 DEF Loaded
<1> QED
  BY <1>6, <1>7

LEMMA TxDoneLoaded ==
  ASSUME SInv, LoadInv, TxDone, normal
  PROVE  Loaded(ot', scheduler', master', looped', response_enabled')
<1>1. ot \in Driver /\ scheduler \in Scheduler /\ ot.sending \in Nat
  BY Types, DriverAssumption DEF SInv, DriverOK, Driver
<1>2. Loaded(ot, scheduler, master, looped, response_enabled)
  BY DEF LoadInv
<1>3. /\ ot.sending = 1 /\ ot.queue = <<>> /\ master.waited \in Nat
      /\ Told(ot) /\ Clean(ot, scheduler, master) /\ ~scheduler.pending
  BY <1>1, <1>2 DEF Loaded, Replying, Waiting, TxDone
<1>4. /\ ot' = tx_done(ot) /\ scheduler' = scheduler
      /\ master' = [NotFollowed EXCEPT !.unsolicited = FALSE]
  <2>1. master.unsolicited = FALSE /\ master.waited # NONE
    BY <1>3, Types DEF SInv, MasterState, Clean, NONE
  <2> QED
    BY <2>1 DEF TxDone
<1>5. ~master'.owed /\ ~master'.unsolicited
  BY <1>4 DEF NotFollowed
<1>6. ot'.sending = 0 /\ ot'.queue = <<>> /\ ~ot'.edge_overflow /\ Told(ot')
  BY <1>1, <1>3, <1>4, TxDoneFields, ToldTxDone DEF Clean
<1> QED
  BY <1>3, <1>4, <1>5, <1>6 DEF Loaded, Incoming, Waiting, Replying, Owing, Clean

\* A driver at rest with no reply owed or held back is under any load.
LEMMA RestLoaded ==
  ASSUME NEW d \in {Stopped, [Stopped EXCEPT !.status = "READY"]},
         NEW s, NEW m, NEW ran, NEW enabled,
         ~s.pending, s.counted = {}, ~m.owed, ~m.unsolicited
  PROVE  Loaded(d, s, m, ran, enabled)
<1>1. /\ d.status # "REQUEST_SENDING" /\ d.queue = <<>> /\ d.sending = 0
      /\ ~d.edge_overflow
  BY DEF Stopped
<1> QED
  BY <1>1 DEF Loaded, Told, Incoming, Waiting, Replying, Owing, Clean

LEMMA StopLoaded ==
  ASSUME SInv, LoadInv, ota_started \/ on_shutdown
  PROVE  LoadInv'
<1>1. /\ scheduler \in Scheduler /\ master \in MasterState /\ life \in Life
      /\ stop /\ UNCHANGED <<response_enabled, looped, normal>>
  BY Types DEF SInv, ota_started, on_shutdown
<1>2. ot' = Stopped
  BY <1>1 DEF stop, end, LoadInv, Rested
<1>3. ~life'.started
  <2> DEFINE l == halted(life)
  <2>1. l \in Life /\ ~l.started
    BY <1>1, HaltedOK
  <2>2. \/ life' = [l EXCEPT !.ota_active = TRUE]
        \/ life' = [l EXCEPT !.phase = "off", !.ota_active = FALSE]
    BY DEF ota_started, on_shutdown
  <2> HIDE DEF l
  <2> QED
    BY <2>1, <2>2 DEF Life
<1>4. /\ ~master'.owed /\ master'.unsolicited = master.unsolicited
      /\ ~scheduler'.pending /\ scheduler'.counted = scheduler.counted
  BY <1>1, ClearFields DEF stop, stopped, NotOwed, MasterState
<1>5. normal => Loaded(ot', scheduler', master', looped', response_enabled')
  <2> SUFFICES ASSUME normal
               PROVE  Loaded(ot', scheduler', master', looped', response_enabled')
    OBVIOUS
  <2>1. scheduler.counted = {} /\ ~master.unsolicited
    BY DEF LoadInv, Loaded, Clean
  <2> QED
    BY <1>2, <1>4, <2>1, RestLoaded
<1> QED
  BY <1>1, <1>2, <1>3, <1>5 DEF LoadInv, Rested

LEMMA StartLoaded ==
  ASSUME SInv, LoadInv, Start
  PROVE  LoadInv'
<1>1. /\ life \in Life /\ ~life.started /\ ~scheduler.pending /\ ot = Stopped
      /\ looped' = TRUE /\ UNCHANGED <<scheduler, response_enabled, master, normal>>
  BY Types DEF SInv, PendingOnlyWhileServing, LoadInv, Rested, Start
<1> DEFINE l == IF life.start_pending THEN life ELSE schedule_start(life)
<1>2. PICK idle \in BOOLEAN, ok \in BOOLEAN :
        IF Starts(l, idle)
        THEN life' = started(l, ok) /\ ot' = (IF ok THEN begin(ot) ELSE ot)
        ELSE life' = try_start_waits(l, idle) /\ UNCHANGED ot
  BY DEF Start
<1>3. l \in Life /\ ~l.started
  BY <1>1, ScheduleStartOK
<1> HIDE DEF l
<1>4. life'.started = (Starts(l, idle) /\ ok)
  <2>1. CASE ~Starts(l, idle)
    <3>1. life' = try_start_waits(l, idle)
      BY <1>2, <2>1
    <3>2. try_start_waits(l, idle).started = FALSE
      BY <1>3, <2>1, TryStartOK
    <3> QED
      BY <2>1, <3>1, <3>2
  <2>2. CASE Starts(l, idle) /\ ok
    BY <1>2, <1>3, <2>2 DEF started, Life
  <2>3. CASE Starts(l, idle) /\ ~ok
    BY <1>2, <1>3, <2>3 DEF started, Life
  <2> QED
    BY <2>1, <2>2, <2>3
<1>5. ot' = IF life'.started THEN begin(ot) ELSE Stopped
  BY <1>1, <1>2, <1>4
<1>6. begin(ot).status = "READY" /\ begin(ot) = [Stopped EXCEPT !.status = "READY"]
  BY DEF begin, Stopped
<1>7. Rested'
  BY <1>5, <1>6 DEF Rested
<1>8. normal => Loaded(ot', scheduler', master', looped', response_enabled')
  <2> SUFFICES ASSUME normal
               PROVE  Loaded(ot', scheduler', master', looped', response_enabled')
    OBVIOUS
  <2>1. Loaded(Stopped, scheduler, master, looped, response_enabled)
    BY <1>1 DEF LoadInv
  <2>2. ~master.owed /\ scheduler.counted = {} /\ ~master.unsolicited
    <3>1. Stopped.queue = <<>> /\ Stopped.sending = 0
      BY DEF Stopped
    <3> QED
      BY <1>1, <2>1, <3>1 DEF Loaded, Owing, Clean
  <2>3. ot' \in {Stopped, [Stopped EXCEPT !.status = "READY"]}
    BY <1>1, <1>5, <1>6
  <2>4. ~scheduler'.pending /\ scheduler'.counted = {} /\ ~master'.owed
        /\ ~master'.unsolicited
    BY <1>1, <2>2
  <2> QED
    BY <2>3, <2>4, RestLoaded
<1> QED
  BY <1>1, <1>7, <1>8 DEF LoadInv

LEMMA Next_LoadInv ==
  ASSUME SInv, LoadInv, [Next]_vars
  PROVE  LoadInv'
<1>1. /\ ot \in Driver /\ scheduler \in Scheduler /\ master \in MasterState
      /\ life \in Life
      /\ scheduler.pending => response_enabled
      /\ response_enabled \in BOOLEAN
      /\ ot.left \in Nat /\ scheduler.due \in Nat
  BY Types, DriverAssumption
     DEF SInv, PendingOnlyWhileServing, DriverOK, Driver, Scheduler
<1>2. Rested /\ (normal => Loaded(ot, scheduler, master, looped, response_enabled))
  BY DEF LoadInv
<1>3. CASE Serve
  <2>1. normal => Loaded(ot', scheduler', master', looped', response_enabled')
    BY <1>3, ServeLoaded
  <2>2. /\ UNCHANGED <<life, normal>> /\ life.started
        /\ \E s : try_send_pending_response(process(ot), s)
    BY <1>3 DEF Serve
  <2>3. process(ot).status # "NOT_INITIALIZED"
    BY <1>1, <1>2, <2>2, ProcessFields DEF Rested
  <2>4. ot' = process(ot) \/ ot' = sendResponse(process(ot))
    BY <2>2 DEF try_send_pending_response
  <2>5. sendResponse(process(ot)).status # "NOT_INITIALIZED"
    <3> DEFINE d == process(ot)
    <3>1. d \in Driver
      BY ProcessOK, Types DEF SInv, DriverOK
    <3> HIDE DEF d
    <3>2. sendResponse(d).status \in {"REQUEST_SENDING", "READY"}
      BY <3>1 DEF sendResponse, Driver
    <3> QED
      BY <3>2 DEF d
  <2>6. Rested'
    BY <2>2, <2>3, <2>4, <2>5 DEF Rested
  <2> QED
    BY <2>1, <2>2, <2>6 DEF LoadInv
<1>4. CASE Start
  BY <1>4, StartLoaded
<1>5. CASE ota_started \/ on_shutdown
  BY <1>5, StopLoaded
<1>6. CASE ota_ended
  <2> DEFINE l == [life EXCEPT !.ota_active = FALSE]
  <2>1. l \in Life /\ l.started = life.started
    BY <1>1 DEF Life
  <2>2. life' = schedule_start(l)
        /\ UNCHANGED <<ot, scheduler, response_enabled, master, looped, normal>>
    BY <1>6 DEF ota_ended
  <2> HIDE DEF l
  <2>3. life'.started = life.started
    BY <2>1, <2>2, ScheduleStartOK
  <2> QED
    BY <1>2, <2>2, <2>3 DEF LoadInv, Rested
<1>7. ASSUME NEW value \in BOOLEAN, set_response_enabled(value)
      PROVE  LoadInv'
  <2>1. /\ response_enabled' = value /\ UNCHANGED <<ot, life, looped, normal>>
        /\ scheduler' = IF value THEN scheduler ELSE scheduler'
        /\ scheduler' = scheduler \/ scheduler' = clear_pending(scheduler)
        /\ master' = IF value THEN master ELSE NotOwed(master)
    BY <1>1, <1>7 DEF set_response_enabled, cancelled
  <2>2. ~value => ~scheduler'.pending
    BY <1>1, <1>7, ClearFields DEF set_response_enabled, cancelled
  <2>3. value => scheduler' = scheduler /\ master' = master
    BY <1>7 DEF set_response_enabled, cancelled
  <2>4. /\ scheduler'.counted = scheduler.counted
        /\ master'.waited = master.waited /\ master'.unsolicited = master.unsolicited
        /\ ~value => ~master'.owed
    BY <1>1, <2>1, ClearFields DEF NotOwed, MasterState
  <2>5. CASE value
    BY <1>2, <2>1, <2>3, <2>5 DEF LoadInv, Rested, Loaded, Owing
  <2>6. CASE ~value
    <3>1. normal => Loaded(ot, scheduler', master', looped, value)
      <4> SUFFICES ASSUME normal PROVE Loaded(ot, scheduler', master', looped, value)
        OBVIOUS
      <4>1. Loaded(ot, scheduler, master, looped, response_enabled)
        BY <1>2
      <4>2. /\ Told(ot) /\ Incoming(ot, scheduler', master', looped)
            /\ Waiting(ot, scheduler', master', looped)
        BY <2>2, <2>4, <2>6, <4>1 DEF Loaded, Incoming, Waiting
      <4>3. /\ Replying(ot, master') /\ Owing(ot, scheduler', master', value)
            /\ Clean(ot, scheduler', master')
        BY <2>4, <2>6, <4>1 DEF Loaded, Replying, Owing, Clean
      <4> QED
        BY <4>2, <4>3 DEF Loaded
    <3> QED
      BY <1>2, <2>1, <3>1 DEF LoadInv, Rested
  <2> QED
    BY <2>5, <2>6
<1>8. CASE \/ reset_protocol_diagnostics \/ setup
           \/ \E delay \in Delays : set_response_delay(delay)
  <2>1. UNCHANGED <<ot, master, looped, normal>>
    BY <1>8 DEF reset_protocol_diagnostics, set_response_delay, setup
  <2>2. /\ scheduler'.pending = scheduler.pending /\ scheduler'.due = scheduler.due
        /\ scheduler'.counted \in {{}, scheduler.counted}
    BY <1>1, <1>8 DEF reset_protocol_diagnostics, set_response_delay, setup, Scheduler
  <2>3. response_enabled' \in {TRUE, response_enabled}
    BY <1>8 DEF reset_protocol_diagnostics, set_response_delay, setup
  <2>4. Rested'
    <3>1. CASE ~setup
      BY <1>2, <1>8, <2>1, <3>1 DEF reset_protocol_diagnostics, set_response_delay, Rested
    <3>2. CASE setup
      BY <1>2, <2>1, <3>2, BootedOK DEF setup, Rested, SInv, RunningInv
    <3> QED
      BY <3>1, <3>2
  <2>5. normal => Loaded(ot, scheduler', master, looped, response_enabled')
    <3> SUFFICES ASSUME normal
                 PROVE  Loaded(ot, scheduler', master, looped, response_enabled')
      OBVIOUS
    <3>1. Loaded(ot, scheduler, master, looped, response_enabled)
      BY <1>2
    <3>2. /\ Told(ot) /\ Incoming(ot, scheduler', master, looped)
          /\ Waiting(ot, scheduler', master, looped) /\ Replying(ot, master)
      BY <2>2, <3>1 DEF Loaded, Incoming, Waiting
    <3>3. /\ Owing(ot, scheduler', master, response_enabled')
          /\ Clean(ot, scheduler', master)
      BY <2>2, <2>3, <3>1 DEF Loaded, Owing, Clean
    <3> QED
      BY <3>2, <3>3 DEF Loaded
  <2> QED
    BY <2>1, <2>4, <2>5 DEF LoadInv
<1>9. ASSUME NEW kind \in FrameKind, ReceiveFrame(kind)
      PROVE  LoadInv'
  <2>1. normal' => Loaded(ot', scheduler', master', looped', response_enabled')
    BY <1>9, ReceiveLoaded
  <2>2. /\ life' = life /\ (~life.started => ot' = ot)
        /\ life.started => ot'.status = ot.status
    BY <1>1, <1>9, RxFields DEF ReceiveFrame
  <2> QED
    BY <1>2, <2>1, <2>2 DEF LoadInv, Rested
<1>10. CASE TxDone
  <2>1. normal => Loaded(ot', scheduler', master', looped', response_enabled')
    BY <1>10, TxDoneLoaded
  <2>2. UNCHANGED <<life, normal>> /\ ot'.status = ot.status
    BY <1>1, <1>10, TxDoneFields DEF TxDone
  <2>3. life.started
    BY <1>2, <1>10 DEF Rested, TxDone, Stopped
  <2> QED
    BY <1>2, <2>1, <2>2, <2>3 DEF LoadInv, Rested
<1>11. CASE GivesUp
  <2>1. UNCHANGED <<ot, life, scheduler, response_enabled, looped, normal>>
    BY <1>11 DEF GivesUp
  <2>2. ~master'.owed /\ master'.unsolicited = master.unsolicited
    BY <1>1, <1>11 DEF GivesUp, MasterState
  <2>3. normal => Loaded(ot, scheduler, master', looped, response_enabled)
    <3> SUFFICES ASSUME normal
                 PROVE  Loaded(ot, scheduler, master', looped, response_enabled)
      OBVIOUS
    <3>1. Loaded(ot, scheduler, master, looped, response_enabled)
      BY <1>2
    <3>2. /\ master.waited \notin 0 .. PATIENCE - 1 /\ PATIENCE \in Nat /\ PATIENCE > 1
      BY <1>11, SlaveAssumption, DriverAssumption, LoadAssumption DEF GivesUp
    <3>3. ot.queue = <<>> /\ ~scheduler.pending /\ ot.sending = 0
      BY <1>1, <3>1, <3>2, IdleSlave
    <3> QED
      BY <2>2, <3>1, <3>3 DEF Loaded, Incoming, Waiting, Replying, Owing, Clean
  <2> QED
    BY <1>2, <2>1, <2>3 DEF LoadInv, Rested
<1>12. CASE Tick
  <2>1. normal' => Loaded(ot', scheduler', master', looped', response_enabled')
    BY <1>12, TickLoaded
  <2>2. ot' = tick(ot) /\ life'.started = life.started
    BY <1>1, <1>12 DEF Tick, Life
  <2>3. ot'.status = ot.status
    BY <1>1, <2>2, TickFields
  <2>4. ~life.started => ot' = Stopped
    <3>1. tick(Stopped) = Stopped
      <4>1. Aged(<<>>) = <<>>
        BY DEF Aged
      <4>2. tick(Stopped) =
              [Stopped EXCEPT !.age = 0, !.delay = 0, !.left = 0, !.queue = <<>>]
        <5>1. /\ Stopped.status # "REQUEST_SENDING" /\ Stopped.delay = 0
              /\ Stopped.left = 0 /\ Stopped.queue = <<>>
          BY DEF Stopped
        <5> QED
          BY <4>1, <5>1 DEF tick
      <4> QED
        BY <4>2 DEF Stopped
    <3> QED
      BY <1>2, <2>2, <3>1 DEF Rested
  <2> QED
    BY <1>2, <2>1, <2>2, <2>3, <2>4 DEF LoadInv, Rested
<1>13. CASE UNCHANGED vars
  BY <1>2, <1>13 DEF vars, LoadInv, Rested
<1> QED
  BY <1>3, <1>4, <1>5, <1>6, <1>7, <1>8, <1>9, <1>10, <1>11, <1>12, <1>13 DEF Next

LEMMA LoadAlways == Spec => [](SInv /\ LoadInv)
<1>1. Init => SInv /\ LoadInv
  BY Starts_SInv, LoadInit
<1>2. SInv /\ LoadInv /\ [Next]_vars => (SInv /\ LoadInv)'
  BY Next_SInv, Next_LoadInv
<1> QED
  BY <1>1, <1>2, PTL DEF Spec

\* Under normal load no reply overlaps another, no request is dropped, refused or
\* late, and none is answered twice (the counters of the diagnostics stay zero),
\* however delays, updates, restarts and the response switch fall in between.
THEOREM NormalLoadStaysClean == Spec => []NormalLoadIsClean
<1>1. LoadInv => NormalLoadIsClean
  BY DEF LoadInv, Loaded, Clean, NormalLoadIsClean
<1> QED
  BY <1>1, LoadAlways, PTL

\* Under normal load a reply that is owed comes before the master gives up.
THEOREM RepliesComeInTime == Spec => []AnsweredInTime
<1>1. SInv /\ LoadInv => AnsweredInTime
  <2> SUFFICES ASSUME SInv, LoadInv, normal, master.owed PROVE master.waited < PATIENCE
    BY DEF AnsweredInTime
  <2>1. /\ ot.left \in Nat /\ scheduler.due \in Nat /\ TX_TIME \in Nat /\ PATIENCE \in Nat
    BY Types, DriverAssumption, SlaveAssumption DEF SInv, DriverOK, Driver, Scheduler
  <2>2. Loaded(ot, scheduler, master, looped, response_enabled)
    BY DEF LoadInv
  <2>3. CASE ot.queue # <<>>
    BY <2>1, <2>2, <2>3, LoadAssumption DEF Loaded, Incoming
  <2>4. CASE scheduler.pending
    BY <2>1, <2>2, <2>4 DEF Loaded, Waiting
  <2>5. CASE ot.sending # 0
    BY <2>1, <2>2, <2>5 DEF Loaded, Replying
  <2> QED
    BY <2>2, <2>3, <2>4, <2>5 DEF Loaded, Owing
<1> QED
  BY <1>1, LoadAlways, PTL

\* Under normal load the driver says that it is ready only when the peripheral
\* has sent everything.
THEOREM ReadyIsIdle == Spec => []ReadyMeansIdle
<1>1. SInv /\ LoadInv => ReadyMeansIdle
  BY DEF LoadInv, Loaded, Replying, ReadyMeansIdle
<1> QED
  BY <1>1, LoadAlways, PTL
------------------------------------------------------------------------------
(* The thermostat: its driver is the slave's.                              *)

LEMMA SameStopped ==
  ASSUME NEW d
  PROVE  /\ Thermostat!Stopped = Stopped
         /\ Thermostat!begin(d) = begin(d) /\ Thermostat!end(d) = end(d)
BY DEF Thermostat!Stopped, Stopped, Thermostat!begin, begin, Thermostat!end, end

LEMMA SameKinds == Thermostat!FrameKind = FrameKind
BY DEF Thermostat!FrameKind, FrameKind

LEMMA SameProcess ==
  ASSUME NEW d
  PROVE  Thermostat!process(d) = process(d) /\ Thermostat!Report(d) = Report(d)
<1>1. /\ Thermostat!TransmissionOver(d) <=> TransmissionOver(d)
      /\ Thermostat!StartsGap(d) <=> StartsGap(d)
  BY DEF Thermostat!TransmissionOver, TransmissionOver, Thermostat!StartsGap, StartsGap
<1>2. Thermostat!Report(d) = Report(d)
  BY <1>1 DEF Thermostat!Report, Report
<1>3. Thermostat!process(d) = process(d)
  BY <1>1, <1>2 DEF Thermostat!process, process
<1> QED
  BY <1>2, <1>3

LEMMA SameSend ==
  ASSUME NEW d
  PROVE  /\ Thermostat!CanTransmit(d) <=> CanTransmit(d)
         /\ Thermostat!sendResponse(d) = sendResponse(d)
BY DEF Thermostat!CanTransmit, CanTransmit, Thermostat!sendResponse, sendResponse

LEMMA SameInterrupts ==
  ASSUME NEW d, NEW kind
  PROVE  /\ Thermostat!queue_rx_frame(d, kind) = queue_rx_frame(d, kind)
         /\ Thermostat!tx_done(d) = tx_done(d)
BY DEF Thermostat!queue_rx_frame, queue_rx_frame, Thermostat!QueueFull, QueueFull,
       Thermostat!tx_done, tx_done

LEMMA SameTick ==
  ASSUME NEW d
  PROVE  (Thermostat!MayTick(d) <=> MayTick(d)) /\ Thermostat!tick(d) = tick(d)
BY DEF Thermostat!MayTick, MayTick, Thermostat!tick, tick, Thermostat!Aged, Aged,
       Thermostat!Older, Older

ThermostatState ==
  [on : BOOLEAN, started : BOOLEAN, ota_active : BOOLEAN,
   next_request : DOMAIN Thermostat!Following, interval : PollInterval, since : Nat,
   timeout : BOOLEAN]

\* While a request is on the wire, the time since it was sent and what is left
\* of it are a frame.
WireInv(driver, t) ==
  /\ driver.sending \in {0, 1}
  /\ driver.left >= 0
  /\ driver.sending = 1 => t.since + driver.left <= TX_TIME

ThermostatRestarts ==
  \/ Thermostat!ota_started \/ Thermostat!on_shutdown
  \/ \E ok \in BOOLEAN : Thermostat!ota_ended(ok) \/ Thermostat!setup(ok)

ThermostatSet ==
  \/ \E interval \in PollInterval : Thermostat!set_poll_interval(interval)
  \/ Thermostat!reset_diagnostics

PollInv ==
  /\ DriverOK(thermostat_ot) /\ thermostat \in ThermostatState
  /\ WireInv(thermostat_ot, thermostat)

------------------------------------------------------------------------------
(* What the driver's operations do to the transmission.                    *)

LEMMA ProcessSending ==
  ASSUME NEW driver \in Driver
  PROVE  process(driver).sending = driver.sending /\ process(driver).left = driver.left
<1> DEFINE rest == IF driver.queue = <<>> THEN driver.queue ELSE Tail(driver.queue)
           taken == [driver EXCEPT !.queue = rest, !.edge_overflow = FALSE]
           gap == [taken EXCEPT !.status = "DELAY", !.delay = FRAME_DELAY, !.age = 0]
           refused == [taken EXCEPT !.status = "READY", !.delay = 0, !.age = 0]
           sent == [taken EXCEPT !.status = "READY", !.age = 0,
                                 !.tx_in_progress = FALSE, !.tx_complete = FALSE]
           rested == [taken EXCEPT !.status = "READY"]
<1>1. process(driver) \in {driver, gap, refused, sent, rested, taken}
  BY DEF process
<1>2. taken.sending = driver.sending /\ taken.left = driver.left
  BY DEF Driver
<1>3. DOMAIN taken = DOMAIN driver
  OBVIOUS
<1>4. {"sending", "left"} \subseteq DOMAIN driver
  BY DEF Driver
<1> HIDE DEF taken
<1>5. \A d \in {gap, refused, sent, rested} : d.sending = taken.sending /\ d.left = taken.left
  BY <1>3, <1>4
<1> HIDE DEF gap, refused, sent, rested
<1> QED
  BY <1>1, <1>2, <1>5

\* A frame is only handed over where the interval has outlasted the one before.
LEMMA SendingDue ==
  ASSUME NEW driver, DriverOK(driver), NEW t \in ThermostatState,
         WireInv(driver, t), Thermostat!Due(t, driver)
  PROVE  driver.sending = 0
<1>1. t.since \in Nat /\ t.interval \in PollInterval /\ t.since >= t.interval
  BY DEF Thermostat!Due, ThermostatState
<1>2. t.interval \in Nat /\ t.interval > TX_TIME /\ TX_TIME \in Nat
  BY <1>1, DriverAssumption, PollAssumption
<1>3. driver.left \in Int
  BY DriverAssumption DEF DriverOK, Driver
<1> QED
  BY <1>1, <1>2, <1>3 DEF WireInv

------------------------------------------------------------------------------

LEMMA PollInit ==
  ASSUME Thermostat!Init
  PROVE  PollInv
<1>1. thermostat_ot = Stopped /\ DriverOK(Stopped)
  BY StoppedOK, SameStopped DEF Thermostat!Init
<1>2. PICK interval \in PollInterval :
        thermostat = [Thermostat!Booted(interval) EXCEPT !.on = FALSE]
  BY DEF Thermostat!Init
<1>3. thermostat \in ThermostatState
  BY <1>2 DEF ThermostatState, Thermostat!Booted, Thermostat!Following
<1>4. Stopped.sending = 0 /\ Stopped.left = 0
  BY DEF Stopped
<1> QED
  BY <1>1, <1>3, <1>4 DEF PollInv, WireInv

\* Steps after which nothing is on the wire.
LEMMA SilentWire ==
  ASSUME NEW driver, DriverOK(driver), driver.sending = 0, NEW t \in ThermostatState
  PROVE  WireInv(driver, t)
<1>1. driver.left \in 0 .. TX_TIME
  BY DEF DriverOK, Driver
<1> QED
  BY <1>1, DriverAssumption DEF WireInv

LEMMA LoopKeeps ==
  ASSUME PollInv, Thermostat!loop
  PROVE  PollInv'
<1> DEFINE driver == process(thermostat_ot)
           report == Report(thermostat_ot)
           t == Thermostat!process_response(thermostat, report)
<1>1. /\ DriverOK(thermostat_ot) /\ thermostat_ot \in Driver
      /\ thermostat \in ThermostatState /\ WireInv(thermostat_ot, thermostat)
  BY DEF PollInv, DriverOK
<1>2. DriverOK(driver)
  BY <1>1, ProcessOK
<1>3. driver.sending = thermostat_ot.sending /\ driver.left = thermostat_ot.left
  BY <1>1, ProcessSending
<1> HIDE DEF report
<1>4. t \in ThermostatState /\ t.since = thermostat.since
  BY <1>1 DEF Thermostat!process_response, ThermostatState
<1>5. /\ ~Thermostat!Due(t, driver) => thermostat_ot' = driver /\ thermostat' = t
      /\ Thermostat!Due(t, driver) =>
           /\ thermostat_ot' = sendResponse(driver)
           /\ thermostat' = IF CanTransmit(driver)
                            THEN Thermostat!send_next_request(t) ELSE t
  BY SameProcess, SameSend DEF Thermostat!loop, report
<1> HIDE DEF driver, t
<1>6. WireInv(driver, t)
  BY <1>1, <1>3, <1>4 DEF WireInv
<1>7. CASE ~Thermostat!Due(t, driver)
  BY <1>2, <1>4, <1>5, <1>6, <1>7 DEF PollInv
<1>8. CASE Thermostat!Due(t, driver)
  <2>1. driver.sending = 0
    BY <1>2, <1>4, <1>6, <1>8, SendingDue
  <2>2. DriverOK(thermostat_ot')
    BY <1>2, <1>5, <1>8, SendResponseOK
  <2>3. driver \in Driver
    BY <1>2 DEF DriverOK
  <2>4. CASE CanTransmit(driver)
    <3>1. thermostat' = Thermostat!send_next_request(t)
      BY <1>5, <1>8, <2>4
    <3>2. Thermostat!Following[t.next_request] \in DOMAIN Thermostat!Following
      BY <1>4 DEF ThermostatState, Thermostat!Following
    <3>3. thermostat' \in ThermostatState /\ thermostat'.since = 0
      BY <1>4, <3>1, <3>2 DEF Thermostat!send_next_request, ThermostatState
    <3>4. sendResponse(driver).sending = 1 /\ sendResponse(driver).left = TX_TIME
      BY <2>1, <2>3, <2>4, SendFields DEF CanTransmit
    <3>5. thermostat_ot'.sending = 1 /\ thermostat_ot'.left = TX_TIME
      BY <1>5, <1>8, <3>4
    <3> QED
      BY <2>2, <3>3, <3>5, DriverAssumption DEF PollInv, WireInv
  <2>5. CASE ~CanTransmit(driver)
    <3>1. thermostat' = t
      BY <1>5, <1>8, <2>5
    <3>2. thermostat_ot'.sending = 0
      BY <1>5, <1>8, <2>1, <2>3, <2>5 DEF sendResponse, Driver
    <3> QED
      BY <1>4, <2>2, <3>1, <3>2, SilentWire DEF PollInv
  <2> QED
    BY <2>4, <2>5
<1> QED
  BY <1>7, <1>8

\* Restarts: the driver is stopped, begun again or left alone.
LEMMA RestartKeeps ==
  ASSUME PollInv,
         ThermostatRestarts
  PROVE  PollInv'
<1>1. /\ DriverOK(thermostat_ot) /\ thermostat \in ThermostatState
      /\ WireInv(thermostat_ot, thermostat)
  BY DEF PollInv
<1>2. thermostat.started \in BOOLEAN /\ thermostat.ota_active \in BOOLEAN
      /\ thermostat.interval \in PollInterval
  BY <1>1 DEF ThermostatState
<1>3. thermostat' \in ThermostatState
  <2>1. CASE Thermostat!ota_started
    BY <1>1, <2>1 DEF Thermostat!ota_started, ThermostatState
  <2>2. CASE Thermostat!on_shutdown
    BY <1>1, <2>2 DEF Thermostat!on_shutdown, ThermostatState
  <2>3. ASSUME NEW ok \in BOOLEAN, NEW t \in ThermostatState
        PROVE  Thermostat!start(t, ok) \in ThermostatState
    <3>1. (t.started \/ (ok /\ ~t.ota_active)) \in BOOLEAN
      BY <2>3 DEF ThermostatState
    <3> QED
      BY <2>3, <3>1 DEF Thermostat!start, ThermostatState
  <2>4. ASSUME NEW ok \in BOOLEAN, Thermostat!ota_ended(ok)
        PROVE  thermostat' \in ThermostatState
    <3> DEFINE t == [thermostat EXCEPT !.ota_active = FALSE]
    <3>1. t \in ThermostatState
      BY <1>1 DEF ThermostatState
    <3>2. thermostat' = Thermostat!start(t, ok)
      BY <2>4 DEF Thermostat!ota_ended
    <3> HIDE DEF t
    <3> QED
      BY <2>3, <3>1, <3>2
  <2>5. ASSUME NEW ok \in BOOLEAN, Thermostat!setup(ok)
        PROVE  thermostat' \in ThermostatState
    <3> DEFINE t == Thermostat!Booted(thermostat.interval)
    <3>1. t \in ThermostatState
      BY <1>2 DEF Thermostat!Booted, ThermostatState, Thermostat!Following
    <3>2. thermostat' = Thermostat!start(t, ok)
      BY <2>5 DEF Thermostat!setup
    <3> HIDE DEF t
    <3> QED
      BY <2>3, <3>1, <3>2
  <2> QED
    BY <2>1, <2>2, <2>4, <2>5 DEF ThermostatRestarts
<1>4. \/ thermostat_ot' = Stopped
      \/ thermostat_ot' = begin(thermostat_ot)
      \/ thermostat_ot' = thermostat_ot /\ thermostat'.since = thermostat.since
      \/ thermostat_ot' = thermostat_ot /\ thermostat'.since = 0
  BY <1>1, SameStopped
     DEF Thermostat!ota_started, Thermostat!on_shutdown, Thermostat!stop, end,
         Thermostat!ota_ended, Thermostat!setup, Thermostat!start, Thermostat!Booted,
         ThermostatState, ThermostatRestarts
<1>5. CASE thermostat_ot' = Stopped
  <2>1. DriverOK(Stopped) /\ Stopped.sending = 0
    BY StoppedOK DEF Stopped
  <2> QED
    BY <1>3, <1>5, <2>1, SilentWire DEF PollInv
<1>6. CASE thermostat_ot' = begin(thermostat_ot)
  <2>1. DriverOK(begin(thermostat_ot)) /\ begin(thermostat_ot).sending = 0
    BY BeginOK DEF begin, Stopped
  <2> QED
    BY <1>3, <1>6, <2>1, SilentWire DEF PollInv
<1>7. CASE thermostat_ot' = thermostat_ot /\ thermostat'.since \in {thermostat.since, 0}
  <2>1. thermostat.since \in Nat /\ thermostat'.since <= thermostat.since
        /\ thermostat'.since \in Nat
    BY <1>1, <1>7 DEF ThermostatState
  <2>2. thermostat_ot.left \in Int
    BY <1>1, DriverAssumption DEF DriverOK, Driver
  <2>3. WireInv(thermostat_ot, thermostat')
    BY <1>1, <2>1, <2>2, DriverAssumption DEF WireInv
  <2> QED
    BY <1>1, <1>3, <1>7, <2>3 DEF PollInv
<1> QED
  BY <1>4, <1>5, <1>6, <1>7

LEMMA SettingsKeep ==
  ASSUME PollInv,
         ThermostatSet
  PROVE  PollInv'
<1>1. /\ DriverOK(thermostat_ot) /\ thermostat \in ThermostatState
      /\ WireInv(thermostat_ot, thermostat) /\ thermostat_ot' = thermostat_ot
  BY DEF ThermostatSet, PollInv, Thermostat!set_poll_interval,
         Thermostat!reset_diagnostics
<1>2. thermostat' \in ThermostatState /\ thermostat'.since = thermostat.since
  BY <1>1
     DEF ThermostatSet, Thermostat!set_poll_interval, Thermostat!reset_diagnostics, ThermostatState
<1> QED
  BY <1>1, <1>2 DEF PollInv, WireInv

LEMMA ReceiveKeeps ==
  ASSUME PollInv, NEW kind \in FrameKind, Thermostat!ReceiveFrame(kind)
  PROVE  PollInv'
<1>1. /\ DriverOK(thermostat_ot) /\ thermostat_ot \in Driver
      /\ thermostat \in ThermostatState /\ WireInv(thermostat_ot, thermostat)
  BY DEF PollInv, DriverOK
<1>2. thermostat_ot' = queue_rx_frame(thermostat_ot, kind) /\ thermostat' = thermostat
  BY SameInterrupts DEF Thermostat!ReceiveFrame
<1>3. DriverOK(thermostat_ot')
  BY <1>1, <1>2, QueueRxOK
<1>4. /\ thermostat_ot'.sending = thermostat_ot.sending
      /\ thermostat_ot'.left = thermostat_ot.left
  BY <1>1, <1>2 DEF queue_rx_frame, Driver
<1> QED
  BY <1>1, <1>2, <1>3, <1>4 DEF PollInv, WireInv

LEMMA TxDoneKeeps ==
  ASSUME PollInv, Thermostat!TxDone
  PROVE  PollInv'
<1>1. /\ DriverOK(thermostat_ot) /\ thermostat_ot \in Driver
      /\ thermostat \in ThermostatState /\ WireInv(thermostat_ot, thermostat)
  BY DEF PollInv, DriverOK
<1>2. /\ thermostat_ot' = tx_done(thermostat_ot) /\ thermostat' = thermostat
      /\ thermostat_ot.sending > 0
  BY SameInterrupts DEF Thermostat!TxDone
<1>3. DriverOK(thermostat_ot')
  BY <1>1, <1>2, TxDoneOK
<1>4. thermostat_ot.sending = 1
  BY <1>1, <1>2 DEF WireInv
<1>5. thermostat_ot'.sending = 0
  BY <1>1, <1>2, <1>4 DEF tx_done, Driver
<1> QED
  BY <1>1, <1>2, <1>3, <1>5, SilentWire DEF PollInv

LEMMA TickKeeps ==
  ASSUME PollInv, Thermostat!Tick
  PROVE  PollInv'
<1> DEFINE since == IF thermostat.since = Thermostat!Longest THEN thermostat.since
                    ELSE thermostat.since + 1
<1>1. /\ DriverOK(thermostat_ot) /\ thermostat_ot \in Driver
      /\ thermostat \in ThermostatState /\ WireInv(thermostat_ot, thermostat)
  BY DEF PollInv, DriverOK
<1>2. /\ thermostat_ot' = tick(thermostat_ot)
      /\ thermostat' = [thermostat EXCEPT !.since = since]
      /\ (thermostat_ot.sending > 0 => thermostat_ot.left > 0)
  BY SameTick DEF Thermostat!Tick, MayTick
<1>3. DriverOK(thermostat_ot')
  BY <1>1, <1>2, TickOK
<1>4. thermostat.since \in Nat /\ since \in Nat /\ since <= thermostat.since + 1
  BY <1>1 DEF ThermostatState
<1> HIDE DEF since
<1>5. thermostat' \in ThermostatState /\ thermostat'.since = since
  BY <1>1, <1>2, <1>4 DEF ThermostatState
<1>6. /\ thermostat_ot'.sending = thermostat_ot.sending
      /\ thermostat_ot'.left = IF thermostat_ot.left = 0 THEN 0 ELSE thermostat_ot.left - 1
  BY <1>1, <1>2 DEF tick, Driver
<1>7. thermostat_ot.left \in Nat
  BY <1>1, DriverAssumption DEF DriverOK, Driver
<1>8. WireInv(thermostat_ot', thermostat')
  BY <1>1, <1>2, <1>4, <1>5, <1>6, <1>7, DriverAssumption DEF WireInv
<1> QED
  BY <1>3, <1>5, <1>8 DEF PollInv

------------------------------------------------------------------------------

LEMMA PollNext ==
  ASSUME PollInv, [Thermostat!Next]_Thermostat!vars
  PROVE  PollInv'
<1>1. CASE Thermostat!loop
  BY <1>1, LoopKeeps
<1>2. CASE ThermostatRestarts
  BY <1>2, RestartKeeps
<1>3. CASE ThermostatSet
  BY <1>3, SettingsKeep
<1>4. CASE \E kind \in FrameKind : Thermostat!ReceiveFrame(kind)
  BY <1>4, ReceiveKeeps
<1>5. CASE Thermostat!TxDone
  BY <1>5, TxDoneKeeps
<1>6. CASE Thermostat!Tick
  BY <1>6, TickKeeps
<1>7. CASE UNCHANGED Thermostat!vars
  BY <1>7 DEF Thermostat!vars, PollInv
<1> QED
  BY <1>1, <1>2, <1>3, <1>4, <1>5, <1>6, <1>7, SameKinds
     DEF Thermostat!Next, ThermostatRestarts, ThermostatSet

\* A request is never handed to the peripheral while another is on the wire.
THEOREM RequestsKeptApart == Thermostat!Spec => []OneRequestOnWire
<1>1. Thermostat!Init => PollInv
  BY PollInit
<1>2. PollInv /\ [Thermostat!Next]_Thermostat!vars => PollInv'
  BY PollNext
<1>3. PollInv => OneRequestOnWire
  BY DEF PollInv, WireInv, OneRequestOnWire, Thermostat!OneRequestOnWire
<1> QED
  BY <1>1, <1>2, <1>3, PTL DEF Thermostat!Spec
------------------------------------------------------------------------------
(* A timeout that is counted is a stall of the main loop.                  *)

\* The older a frame in the ring, the nearer it is to its head: each pass of the
\* loop takes one, so the frame at place i waits for i passes at most.
Fresh(queue, ran) ==
  \A i \in 1 .. Len(queue) :
    queue[i].age <= RX_FRAME_QUEUE_SIZE - 1 - i + (IF ran THEN 0 ELSE 1)

Restarted(driver, t) ==
  /\ t.started => t.on /\ driver.status # "NOT_INITIALIZED"
  /\ ~t.started => driver.queue = <<>>

StallInv ==
  /\ Restarted(thermostat_ot, thermostat) /\ Told(thermostat_ot)
  /\ thermostat_looped \in BOOLEAN
  /\ thermostat_normal =>
       Fresh(thermostat_ot.queue, thermostat_looped) /\ ~thermostat.timeout

LEMMA EmptyFresh ==
  ASSUME NEW queue, queue = <<>>, NEW ran PROVE Fresh(queue, ran)
BY DEF Fresh

\* The head of a ring that is emptied in time is no timeout, and nor is a driver
\* with nothing in its ring.
LEMMA NoTimeout ==
  ASSUME NEW driver \in Driver, Told(driver),
         NEW ran, Fresh(driver.queue, ran)
  PROVE  Report(driver) # "TIMEOUT"
<1>1. CASE driver.edge_overflow
  BY <1>1 DEF Report
<1>2. CASE ~driver.edge_overflow /\ driver.queue = <<>>
  BY <1>2, NothingToReport, RingAssumption
<1>3. CASE ~driver.edge_overflow /\ driver.queue # <<>>
  <2>1. /\ driver.queue \in Seq(Frame) /\ Len(driver.queue) \in Nat
        /\ 1 \in 1 .. Len(driver.queue) /\ Head(driver.queue) = driver.queue[1]
        /\ driver.queue[1] \in Frame
    BY <1>3 DEF Driver
  <2>2. driver.queue[1].age <= RX_FRAME_QUEUE_SIZE - 1 - 1 + (IF ran THEN 0 ELSE 1)
    BY <2>1 DEF Fresh
  <2>3. driver.queue[1].age \in Nat /\ RX_FRAME_QUEUE_SIZE \in Nat /\ TIMEOUT \in Nat
    BY <2>1, DriverAssumption DEF Frame
  <2>4. ~(Head(driver.queue).age > TIMEOUT)
    BY <2>1, <2>2, <2>3, RingAssumption
  <2> QED
    BY <1>3, <2>4 DEF Report
<1> QED
  BY <1>1, <1>2, <1>3

\* A pass of the loop that takes the head leaves the others younger by a place.
LEMMA TakenFresh ==
  ASSUME NEW queue \in Seq(Frame), NEW ran, Fresh(queue, ran), queue # <<>>
  PROVE  Fresh(Tail(queue), TRUE)
<1>1. Len(queue) \in Nat /\ Len(Tail(queue)) = Len(queue) - 1
  OBVIOUS
<1>2. ASSUME NEW i \in 1 .. Len(Tail(queue))
      PROVE  Tail(queue)[i].age <= RX_FRAME_QUEUE_SIZE - 1 - i
  <2>1. i + 1 \in 1 .. Len(queue) /\ Tail(queue)[i] = queue[i + 1]
    BY <1>1
  <2>2. queue[i + 1].age <= RX_FRAME_QUEUE_SIZE - 1 - (i + 1) + (IF ran THEN 0 ELSE 1)
    BY <2>1 DEF Fresh
  <2>3. queue[i + 1].age \in Nat /\ RX_FRAME_QUEUE_SIZE \in Nat
    <3>1. queue[i + 1] \in Frame
      BY <2>1
    <3> QED
      BY <3>1, DriverAssumption DEF Frame
  <2> QED
    BY <2>1, <2>2, <2>3
<1>3. \A i \in 1 .. Len(Tail(queue)) : Tail(queue)[i].age \in Nat
  <2> SUFFICES ASSUME NEW i \in 1 .. Len(Tail(queue)) PROVE Tail(queue)[i].age \in Nat
    OBVIOUS
  <2>1. Tail(queue)[i] \in Frame
    BY <1>1
  <2> QED
    BY <2>1, DriverAssumption DEF Frame
<1> QED
  BY <1>2, <1>3, DriverAssumption DEF Fresh

LEMMA ReceivedFresh ==
  ASSUME NEW driver, DriverOK(driver), ~QueueFull(driver),
         NEW ran \in BOOLEAN, Fresh(driver.queue, ran), NEW kind \in FrameKind
  PROVE  Fresh(Append(driver.queue, [kind |-> kind, age |-> 0]), ran)
<1> DEFINE queue == driver.queue
           frame == [kind |-> kind, age |-> 0]
<1>1. /\ queue \in Seq(Frame) /\ Len(queue) \in Nat
      /\ RX_FRAME_QUEUE_SIZE \in Nat /\ Len(queue) + 1 < RX_FRAME_QUEUE_SIZE
  BY DriverAssumption DEF DriverOK, Driver, QueueFull
<1>2. frame \in Frame /\ frame.age = 0
  BY DriverAssumption DEF Frame
<1> HIDE DEF frame
<1>3. Fresh(queue, ran)
  OBVIOUS
<1> HIDE DEF queue
<1>4. Len(Append(queue, frame)) = Len(queue) + 1
  BY <1>1, <1>2
<1>5. ASSUME NEW i \in 1 .. Len(queue) + 1
      PROVE  Append(queue, frame)[i].age
               <= RX_FRAME_QUEUE_SIZE - 1 - i + (IF ran THEN 0 ELSE 1)
  <2>1. CASE i = Len(queue) + 1
    <3>1. Append(queue, frame)[i] = frame
      BY <1>1, <1>2, <2>1
    <3> QED
      BY <1>1, <1>2, <2>1, <3>1
  <2>2. CASE i # Len(queue) + 1
    <3>1. i \in 1 .. Len(queue) /\ Append(queue, frame)[i] = queue[i]
      BY <1>1, <1>2, <2>2
    <3> QED
      BY <1>3, <3>1 DEF Fresh
  <2> QED
    BY <2>1, <2>2
<1> QED
  BY <1>4, <1>5 DEF Fresh, queue, frame

LEMMA TickedFresh ==
  ASSUME NEW queue \in Seq(Frame), Fresh(queue, TRUE)
  PROVE  Fresh(Aged(queue), FALSE)
<1>1. ASSUME NEW i \in 1 .. Len(queue)
      PROVE  Aged(queue)[i].age <= RX_FRAME_QUEUE_SIZE - 1 - i + 1
  <2>1. /\ Aged(queue)[i].age <= queue[i].age + 1
        /\ Aged(queue)[i].age \in Nat /\ queue[i].age \in Nat
    BY AgedFields
  <2>2. queue[i].age <= RX_FRAME_QUEUE_SIZE - 1 - i + 0
    BY DEF Fresh
  <2> QED
    BY <2>1, <2>2, DriverAssumption
<1>2. Len(Aged(queue)) = Len(queue)
  BY AgedFields
<1> QED
  BY <1>1, <1>2 DEF Fresh

LEMMA LoopStall ==
  ASSUME PollInv, StallInv,
         Thermostat!loop
  PROVE  StallInv'
<1> DEFINE driver == process(thermostat_ot)
           report == Report(thermostat_ot)
           t == Thermostat!process_response(thermostat, report)
<1>1. /\ DriverOK(thermostat_ot) /\ thermostat_ot \in Driver
      /\ thermostat \in ThermostatState
      /\ WireInv(thermostat_ot, thermostat) /\ thermostat.started /\ thermostat.on
      /\ thermostat_ot.status # "NOT_INITIALIZED"
      /\ thermostat_ot.queue \in Seq(Frame) /\ Told(thermostat_ot)
  BY DEF PollInv, StallInv, Restarted, Thermostat!loop, DriverOK, Driver
<1>2. /\ thermostat_looped' = TRUE /\ thermostat_normal' = thermostat_normal
      /\ ~Thermostat!Due(t, driver) => thermostat_ot' = driver /\ thermostat' = t
      /\ Thermostat!Due(t, driver) =>
           /\ thermostat_ot' = sendResponse(driver)
           /\ thermostat' = IF CanTransmit(driver)
                            THEN Thermostat!send_next_request(t) ELSE t
  BY SameProcess, SameSend DEF Thermostat!loop
<1>3. DriverOK(driver) /\ driver \in Driver /\ Told(driver)
  BY <1>1, ProcessOK, ToldProcess DEF DriverOK
<1>4. /\ driver.queue = IF thermostat_ot.queue = <<>> THEN thermostat_ot.queue
                        ELSE Tail(thermostat_ot.queue)
      /\ driver.sending = thermostat_ot.sending /\ driver.left = thermostat_ot.left
      /\ driver.status # "NOT_INITIALIZED"
  BY <1>1, ProcessFields
<1>5. /\ t \in ThermostatState /\ t.started /\ t.on /\ t.since = thermostat.since
      /\ report # "TIMEOUT" => t.timeout = thermostat.timeout
  <2> HIDE DEF report
  <2> QED
    BY <1>1 DEF Thermostat!process_response, ThermostatState
<1>6. thermostat_normal => Fresh(driver.queue, TRUE) /\ ~t.timeout
  <2> SUFFICES ASSUME thermostat_normal PROVE Fresh(driver.queue, TRUE) /\ ~t.timeout
    OBVIOUS
  <2>1. Fresh(thermostat_ot.queue, thermostat_looped) /\ ~thermostat.timeout
    BY DEF StallInv
  <2>2. report # "TIMEOUT"
    BY <1>1, <2>1, NoTimeout
  <2>3. Fresh(driver.queue, TRUE)
    BY <1>1, <1>4, <2>1, EmptyFresh, TakenFresh
  <2> QED
    BY <1>5, <2>1, <2>2, <2>3
<1> HIDE DEF driver, report, t
<1>7. CASE ~Thermostat!Due(t, driver)
  BY <1>2, <1>3, <1>4, <1>5, <1>6, <1>7 DEF StallInv, Restarted
<1>8. CASE Thermostat!Due(t, driver)
  <2>1. WireInv(driver, t)
    BY <1>1, <1>4, <1>5 DEF WireInv
  <2>2. driver.sending = 0
    BY <1>3, <1>5, <1>8, <2>1, SendingDue
  <2>3. /\ CanTransmit(driver) /\ Told(sendResponse(driver))
        /\ sendResponse(driver).queue = driver.queue
        /\ sendResponse(driver).status = "REQUEST_SENDING"
    BY <1>3, <1>4, <2>2, SendFields, ToldSend
  <2>4. /\ thermostat_ot' = sendResponse(driver)
        /\ thermostat' = Thermostat!send_next_request(t)
    BY <1>2, <1>8, <2>3
  <2>5. /\ thermostat'.started /\ thermostat'.on /\ thermostat'.timeout = t.timeout
    BY <1>5, <2>4 DEF Thermostat!send_next_request, ThermostatState
  <2> QED
    BY <1>2, <1>6, <2>3, <2>4, <2>5 DEF StallInv, Restarted
<1> QED
  BY <1>7, <1>8

LEMMA RestartStall ==
  ASSUME PollInv, StallInv,
         ThermostatRestarts
  PROVE  StallInv'
<1>1. /\ thermostat \in ThermostatState /\ Restarted(thermostat_ot, thermostat)
      /\ Told(thermostat_ot)
      /\ thermostat_looped \in BOOLEAN
  BY DEF PollInv, StallInv
<1>2. /\ Told(Stopped) /\ Told(begin(thermostat_ot)) /\ Stopped.queue = <<>>
      /\ begin(thermostat_ot).queue = <<>>
      /\ begin(thermostat_ot).status = "READY"
  BY DEF Told, begin, Stopped
<1>3. thermostat_looped' = thermostat_looped /\ thermostat_normal' = thermostat_normal
  BY DEF ThermostatRestarts, Thermostat!ota_started, Thermostat!on_shutdown,
         Thermostat!ota_ended,
         Thermostat!setup
<1>4. thermostat.timeout = FALSE => thermostat'.timeout = FALSE
  BY <1>1
     DEF ThermostatRestarts, Thermostat!ota_started, Thermostat!on_shutdown, Thermostat!ota_ended,
         Thermostat!setup, Thermostat!start, Thermostat!Booted, ThermostatState
<1>5. Restarted(thermostat_ot', thermostat') /\ Told(thermostat_ot')
      /\ (thermostat_ot' = thermostat_ot \/ thermostat_ot'.queue = <<>>)
  <2>1. CASE Thermostat!ota_started \/ Thermostat!on_shutdown
    <3>1. thermostat_ot' = Stopped
      BY <2>1, SameStopped
         DEF Thermostat!ota_started, Thermostat!on_shutdown, Thermostat!stop, end
    <3>2. ~thermostat'.started
      BY <1>1, <2>1 DEF Thermostat!ota_started, Thermostat!on_shutdown, ThermostatState
    <3> QED
      BY <1>2, <3>1, <3>2 DEF Restarted
  <2>2. ASSUME NEW ok \in BOOLEAN, Thermostat!ota_ended(ok) \/ Thermostat!setup(ok)
        PROVE  /\ Restarted(thermostat_ot', thermostat') /\ Told(thermostat_ot')
               /\ thermostat_ot' = thermostat_ot \/ thermostat_ot'.queue = <<>>
    <3>1. thermostat_ot' = IF ok THEN begin(thermostat_ot) ELSE thermostat_ot
      BY <2>2, SameStopped DEF Thermostat!ota_ended, Thermostat!setup
    <3>2. /\ ok => thermostat'.started /\ thermostat'.on
          /\ ~ok /\ thermostat'.started => thermostat.started /\ thermostat'.on
          /\ ~ok /\ thermostat.started => thermostat'.started
      <4>1. CASE Thermostat!ota_ended(ok)
        BY <1>1, <4>1 DEF Thermostat!ota_ended, Thermostat!start, ThermostatState
      <4>2. CASE Thermostat!setup(ok)
        BY <1>1, <4>2
           DEF Thermostat!setup, Thermostat!start, Thermostat!Booted, ThermostatState,
               Restarted
      <4> QED
        BY <2>2, <4>1, <4>2
    <3> QED
      BY <1>1, <1>2, <3>1, <3>2 DEF Restarted
  <2> QED
    BY <2>1, <2>2 DEF ThermostatRestarts
<1>6. thermostat_normal => Fresh(thermostat_ot'.queue, thermostat_looped)
  BY <1>5, EmptyFresh DEF StallInv
<1>7. thermostat_normal => ~thermostat'.timeout
  BY <1>1, <1>4 DEF StallInv, ThermostatState
<1> QED
  BY <1>1, <1>3, <1>5, <1>6, <1>7 DEF StallInv

LEMMA OthersStall ==
  ASSUME PollInv, StallInv, [Thermostat!Next]_Thermostat!vars,
         \/ \E interval \in PollInterval : Thermostat!set_poll_interval(interval)
         \/ Thermostat!reset_diagnostics
         \/ \E kind \in FrameKind : Thermostat!ReceiveFrame(kind)
         \/ Thermostat!TxDone \/ Thermostat!Tick \/ UNCHANGED Thermostat!vars
  PROVE  StallInv'
<1>1. /\ DriverOK(thermostat_ot) /\ thermostat_ot \in Driver
      /\ thermostat_ot.queue \in Seq(Frame)
      /\ thermostat \in ThermostatState /\ Restarted(thermostat_ot, thermostat)
      /\ Told(thermostat_ot)
      /\ thermostat_looped \in BOOLEAN
      /\ thermostat_normal =>
           Fresh(thermostat_ot.queue, thermostat_looped) /\ ~thermostat.timeout
  BY DEF PollInv, StallInv, DriverOK, Driver
<1>2. CASE ThermostatSet
  <2>1. UNCHANGED <<thermostat_ot, thermostat_looped, thermostat_normal>>
    BY <1>2 DEF ThermostatSet, Thermostat!set_poll_interval, Thermostat!reset_diagnostics
  <2>2. /\ thermostat'.started = thermostat.started /\ thermostat'.on = thermostat.on
        /\ thermostat'.timeout = thermostat.timeout \/ ~thermostat'.timeout
    BY <1>1, <1>2
       DEF ThermostatSet, Thermostat!set_poll_interval, Thermostat!reset_diagnostics, ThermostatState
  <2> QED
    BY <1>1, <2>1, <2>2 DEF StallInv, Restarted
<1>3. ASSUME NEW kind \in FrameKind, Thermostat!ReceiveFrame(kind) PROVE StallInv'
  <2>1. /\ thermostat.started /\ thermostat_ot' = queue_rx_frame(thermostat_ot, kind)
        /\ UNCHANGED <<thermostat, thermostat_looped, thermostat_normal>>
    BY <1>3, SameInterrupts DEF Thermostat!ReceiveFrame
  <2>2. /\ thermostat_ot'.status = thermostat_ot.status /\ Told(thermostat_ot')
        /\ thermostat_ot'.queue = IF QueueFull(thermostat_ot) THEN thermostat_ot.queue
                       ELSE Append(thermostat_ot.queue, [kind |-> kind, age |-> 0])
    BY <1>1, <2>1, RxFields DEF Told
  <2>3. thermostat_normal => Fresh(thermostat_ot'.queue, thermostat_looped)
    BY <1>1, <2>2, ReceivedFresh
  <2> QED
    BY <1>1, <2>1, <2>2, <2>3 DEF StallInv, Restarted
<1>4. CASE Thermostat!TxDone
  <2>1. /\ thermostat_ot' = tx_done(thermostat_ot)
        /\ UNCHANGED <<thermostat, thermostat_looped, thermostat_normal>>
    BY <1>4, SameInterrupts DEF Thermostat!TxDone
  <2>2. /\ thermostat_ot'.status = thermostat_ot.status
        /\ thermostat_ot'.queue = thermostat_ot.queue /\ Told(thermostat_ot')
    BY <1>1, <2>1, TxDoneFields, ToldTxDone
  <2> QED
    BY <1>1, <2>1, <2>2 DEF StallInv, Restarted
<1>5. CASE Thermostat!Tick
  <2>1. /\ thermostat_ot' = tick(thermostat_ot) /\ MayTick(thermostat_ot)
        /\ thermostat_looped' = FALSE
        /\ thermostat_normal' =
             (thermostat_normal /\ (thermostat_looped \/ ~thermostat.started))
    BY <1>5, SameTick DEF Thermostat!Tick
  <2>2. /\ thermostat'.started = thermostat.started /\ thermostat'.on = thermostat.on
        /\ thermostat'.timeout = thermostat.timeout
    BY <1>1, <1>5 DEF Thermostat!Tick, ThermostatState
  <2>3. /\ thermostat_ot'.status = thermostat_ot.status
        /\ thermostat_ot'.queue = Aged(thermostat_ot.queue) /\ Told(thermostat_ot')
    BY <1>1, <2>1, TickFields, ToldTick
  <2>4. thermostat_ot.queue = <<>> => thermostat_ot'.queue = <<>>
    BY <1>1, <2>3, AgedFields, EmptySeq
  <2>5. thermostat_normal' => Fresh(thermostat_ot'.queue, FALSE)
    <3>1. CASE thermostat_looped
      <4>1. thermostat_looped = TRUE
        BY <1>1, <3>1
      <4> QED
        BY <1>1, <2>1, <2>3, <4>1, TickedFresh
    <3>2. CASE ~thermostat_looped
      BY <1>1, <2>1, <2>4, <3>2, EmptyFresh DEF Restarted
    <3> QED
      BY <3>1, <3>2
  <2> QED
    BY <1>1, <2>1, <2>2, <2>3, <2>4, <2>5 DEF StallInv, Restarted
<1>6. CASE UNCHANGED Thermostat!vars
  BY <1>1, <1>6 DEF Thermostat!vars, StallInv
<1> QED
  BY <1>2, <1>3, <1>4, <1>5, <1>6 DEF ThermostatSet

LEMMA StallInit ==
  ASSUME Thermostat!Init PROVE StallInv
<1>1. thermostat_ot = Stopped /\ thermostat_looped = FALSE
  BY SameStopped DEF Thermostat!Init
<1>2. PICK interval \in PollInterval :
        thermostat = [Thermostat!Booted(interval) EXCEPT !.on = FALSE]
  BY DEF Thermostat!Init
<1>3. ~thermostat.started /\ ~thermostat.timeout
  BY <1>2 DEF Thermostat!Booted
<1>4. Stopped.queue = <<>> /\ Told(Stopped)
  BY DEF Stopped, Told
<1> QED
  BY <1>1, <1>3, <1>4, EmptyFresh DEF StallInv, Restarted

LEMMA StallNext ==
  ASSUME PollInv, StallInv,
         [Thermostat!Next]_Thermostat!vars
  PROVE  StallInv'
<1>1. CASE Thermostat!loop
  BY <1>1, LoopStall
<1>2. CASE ThermostatRestarts
  BY <1>2, RestartStall
<1>3. CASE \/ \E interval \in PollInterval : Thermostat!set_poll_interval(interval)
           \/ Thermostat!reset_diagnostics
           \/ \E kind \in FrameKind : Thermostat!ReceiveFrame(kind)
           \/ Thermostat!TxDone \/ Thermostat!Tick \/ UNCHANGED Thermostat!vars
  BY <1>3, OthersStall
<1> QED
  BY <1>1, <1>2, <1>3, SameKinds
     DEF Thermostat!Next, ThermostatRestarts, ThermostatSet

\* The thermostat counts a timeout only where its loop was held up: a controller
\* that never answers, or floods the wire, is none.
THEOREM TimeoutsAreStalls == Thermostat!Spec => []TimeoutMeansStall
<1>1. Thermostat!Init => PollInv /\ StallInv
  BY PollInit, StallInit
<1>2. PollInv /\ StallInv /\ [Thermostat!Next]_Thermostat!vars => (PollInv /\ StallInv)'
  BY PollNext, StallNext
<1>3. StallInv => TimeoutMeansStall
  BY DEF StallInv, TimeoutMeansStall, Thermostat!TimeoutMeansStall
<1> QED
  BY <1>1, <1>2, <1>3, PTL DEF Thermostat!Spec
==============================================================================
