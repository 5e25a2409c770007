--------------------------- MODULE EventSource_proofs ---------------------------
(***************************************************************************)
(* The two threads of the event source, for any number of sessions,        *)
(* sockets and sources: a session outlives what HTTPD still has of it, its *)
(* buffer stands still while HTTPD sends from it, a client that is served  *)
(* misses no state but while others are listed to it, only a client that   *)
(* is stuck is given up, and only the sockets of sessions that were given  *)
(* up are shut down.                                                       *)
(*                                                                         *)
(* SessionOK is what every operation of the main loop keeps of one         *)
(* session, Kept what it may not do to what HTTPD relies on, and Carries   *)
(* that no source is lost on the way.                                      *)
(***************************************************************************)
EXTENDS EventSource, TLAPS

SessionOK(r) ==
  /\ r \in Response
  /\ IsInjective(r.deferred_queue)
  /\ r.send_work_queued =>
       r.event_buffer # NONE /\ r.send_result_pending /\ ~r.close_work_queued
  /\ r.close_work_queued => r.close_requested
  /\ r.send_result > 0 => r.event_buffer # NONE /\ r.send_result <= r.event_buffer.left
  /\ r.event_buffer # NONE /\ r.event_buffer.fresh => r.event_buffer.source # NONE
  /\ r.send_result_pending /\ ~r.send_work_queued => r.send_result # 0
  /\ ~r.close_requested /\ r.stalled # -1 =>
       r.event_buffer # NONE /\ r.stalled <= r.quiet

\* What gives a session up
Stuck(r) == r.send_result \in {INVALID, FAIL} \/ r.quiet = SEND_STALL_TIMEOUT

Raised(r, t) ==
  /\ t.place = r.place /\ t.fd = r.fd
  /\ r.send_work_queued => t.send_work_queued /\ t.send_result = r.send_result
  /\ r.close_work_queued => t.close_work_queued
  /\ r.close_requested => t.close_requested

\* A session that is not given up was, before this, as stuck as it is now.
Kept(r, t) ==
  /\ Raised(r, t)
  /\ ~r.close_requested /\ t.close_requested => Stuck(r)
  /\ ~t.close_requested =>
       t.send_result \in {0, r.send_result} /\ t.quiet \in {0, r.quiet}

Keeps(r, t) == SessionOK(t) /\ Kept(r, t)

\* The client has the latest state of a source, or is about to be sent it.
Has(r, x) ==
  \/ x \in r.latest
  \/ r.event_buffer # NONE /\ r.event_buffer.source = x /\ r.event_buffer.fresh

Queued(q, x) == x \in {q[i].source : i \in 1 .. Len(q)}

Accounted(r, x) ==
  x \in r.to_list \cup r.missed \/ Queued(r.deferred_queue, x) \/ Has(r, x)

\* No source is lost on the way, unless the session is given up.
Carries(r, t) ==
  ~t.close_requested =>
    \A x \in Source : /\ Has(r, x) => Has(t, x)
                      /\ Accounted(r, x) => Accounted(t, x)

Whole(r) == ~r.close_requested => \A x \in Source : Accounted(r, x)

\* An operation on the buffer leaves the deferred queue alone, or gives up.
Sends(r, t) ==
  /\ Keeps(r, t) /\ Carries(r, t)
  /\ t.close_requested \/ t.deferred_queue = r.deferred_queue
  /\ t.sorting_group_index = r.sorting_group_index

\* An operation that gives the session up, for whatever reason
Gives(r, t) ==
  /\ SessionOK(t) /\ Raised(r, t)
  /\ t.close_requested
  /\ t.sorting_group_index = r.sorting_group_index

LEMMA NotStuckAtZero ==
  /\ 0 \notin {INVALID, FAIL} /\ SEND_STALL_TIMEOUT # 0 /\ SEND_STALL_TIMEOUT \in Nat
BY EventSourceAssumption DEF INVALID, FAIL

LEMMA StuckBefore ==
  ASSUME NEW r, NEW s, Kept(r, s), ~s.close_requested, Stuck(s)
  PROVE  Stuck(r)
BY NotStuckAtZero DEF Kept, Stuck

LEMMA KeptTwice ==
  ASSUME NEW r, NEW s, NEW t, Kept(r, s), Kept(s, t)
  PROVE  Kept(r, t)
<1>1. Raised(r, t)
  BY DEF Kept, Raised
<1>2. ~r.close_requested /\ t.close_requested => Stuck(r)
  BY StuckBefore DEF Kept
<1>3. ~t.close_requested => ~s.close_requested
  BY DEF Kept, Raised
<1>4. ~t.close_requested =>
        t.send_result \in {0, r.send_result} /\ t.quiet \in {0, r.quiet}
  BY <1>3 DEF Kept
<1> QED
  BY <1>1, <1>2, <1>4 DEF Kept

LEMMA CarriesTwice ==
  ASSUME NEW r, NEW s, NEW t, Carries(r, s), Carries(s, t), Kept(s, t)
  PROVE  Carries(r, t)
<1>1. ~t.close_requested => ~s.close_requested
  BY DEF Kept, Raised
<1> QED
  BY <1>1 DEF Carries

LEMMA SameCarries ==
  ASSUME NEW r, NEW t, t.deferred_queue = r.deferred_queue, t.event_buffer = r.event_buffer,
         t.latest = r.latest, t.to_list = r.to_list, t.missed = r.missed
  PROVE  Carries(r, t)
BY DEF Carries, Accounted, Has

LEMMA SelfCarries == ASSUME NEW r PROVE Carries(r, r)
BY DEF Carries

LEMMA WholeStays ==
  ASSUME NEW r, NEW t, Keeps(r, t), Carries(r, t), Whole(r)
  PROVE  Whole(t)
<1>1. ~t.close_requested => ~r.close_requested
  BY DEF Keeps, Kept, Raised
<1> QED
  BY <1>1 DEF Carries, Whole

LEMMA KeepsTwice ==
  ASSUME NEW r, NEW s, NEW t, Keeps(r, s), Keeps(s, t)
  PROVE  Keeps(r, t)
BY KeptTwice DEF Keeps

LEMMA KeepsSelf == ASSUME NEW r, SessionOK(r) PROVE Keeps(r, r)
BY DEF Keeps, Kept, Raised

LEMMA SendsTwice ==
  ASSUME NEW r, NEW s, NEW t, Sends(r, s), Sends(s, t)
  PROVE  Sends(r, t)
BY KeepsTwice, CarriesTwice DEF Sends, Keeps, Kept, Raised

LEMMA SendsSelf == ASSUME NEW r, SessionOK(r) PROVE Sends(r, r)
BY KeepsSelf, SelfCarries DEF Sends

LEMMA GivesAfter ==
  ASSUME NEW r, NEW s, NEW t, Sends(r, s), Gives(s, t)
  PROVE  Gives(r, t)
BY DEF Sends, Keeps, Kept, Raised, Gives

LEMMA GivesSends ==
  ASSUME NEW r, NEW t, Gives(r, t), r.close_requested \/ Stuck(r)
  PROVE  Sends(r, t)
BY DEF Sends, Keeps, Kept, Gives, Carries

------------------------------------------------------------------------------
(* Closing.                                                                *)

LEMMA EmptyQueue == IsInjective(<<>>) /\ <<>> \in Seq(Event)
BY DEF IsInjective

LEMMA CloseSends ==
  ASSUME NEW r, SessionOK(r), NEW io
  PROVE  Sends(r, process_close(r, io))
<1>1. CASE ~r.close_requested \/ r.close_work_queued \/ r.send_work_queued
  BY <1>1, SendsSelf DEF process_close
<1>2. CASE ~(~r.close_requested \/ r.close_work_queued \/ r.send_work_queued)
  <2> DEFINE c == [r EXCEPT !.send_result_pending = FALSE, !.send_result = 0,
                            !.event_buffer = NONE]
             queued == [c EXCEPT !.close_work_queued = TRUE, !.close_wait = CLOSE_CONFIRM_INTERVAL]
             later == [c EXCEPT !.close_wait = RETRY_INTERVAL]
  <2>1. process_close(r, io) \in {c, queued, later}
    BY <1>2 DEF process_close
  <2>2. /\ 0 \in SendResult
        /\ CLOSE_CONFIRM_INTERVAL \in 0 .. CLOSE_CONFIRM_INTERVAL
        /\ RETRY_INTERVAL \in 0 .. CLOSE_CONFIRM_INTERVAL
    BY EventSourceAssumption DEF SendResult, TIMEOUT
  <2>3. r \in Response
    BY DEF SessionOK
  <2>4. c \in Response
    BY <2>2, <2>3 DEF Response
  <2>5. /\ c.place = r.place /\ c.fd = r.fd
        /\ c.sorting_group_index = r.sorting_group_index /\ c.deferred_queue = r.deferred_queue
        /\ c.send_work_queued = r.send_work_queued
        /\ c.close_work_queued = r.close_work_queued
        /\ c.close_requested = r.close_requested /\ c.send_result = 0
        /\ c.quiet = r.quiet /\ c.stalled = r.stalled
        /\ c.event_buffer = NONE /\ ~c.send_result_pending
    BY <2>3 DEF Response
  <2> HIDE DEF c
  <2>6. queued \in Response /\ later \in Response
    BY <2>2, <2>4 DEF Response
  <2>7. \A t \in {queued, later} :
          /\ t.place = c.place /\ t.fd = c.fd
          /\ t.sorting_group_index = c.sorting_group_index /\ t.deferred_queue = c.deferred_queue
          /\ t.send_work_queued = c.send_work_queued
          /\ t.close_requested = c.close_requested /\ t.send_result = c.send_result
          /\ t.quiet = c.quiet /\ t.stalled = c.stalled
          /\ t.event_buffer = c.event_buffer
          /\ t.send_result_pending = c.send_result_pending
    BY <2>4 DEF Response
  <2> HIDE DEF queued, later
  <2>8. Sends(r, c)
    BY <1>2, <2>4, <2>5 DEF Sends, Keeps, Kept, Raised, Carries, SessionOK
  <2>9. \A t \in {queued, later} : Sends(r, t)
    BY <1>2, <2>5, <2>6, <2>7 DEF Sends, Keeps, Kept, Raised, Carries, SessionOK
  <2> QED
    BY <2>1, <2>8, <2>9
<1> QED
  BY <1>1, <1>2

LEMMA RequestCloseGives ==
  ASSUME NEW r, SessionOK(r), NEW io
  PROVE  Gives(r, request_close(r, io))
<1> DEFINE s == IF r.close_requested THEN r
                ELSE [r EXCEPT !.close_requested = TRUE, !.deferred_queue = <<>>, !.close_wait = 0]
<1>1. r \in Response /\ 0 \in 0 .. CLOSE_CONFIRM_INTERVAL
  BY EventSourceAssumption DEF SessionOK
<1>2. s \in Response
  BY <1>1, EmptyQueue DEF Response
<1>3. /\ s.place = r.place /\ s.fd = r.fd
      /\ s.sorting_group_index = r.sorting_group_index
      /\ s.deferred_queue \in {r.deferred_queue, <<>>}
      /\ s.send_work_queued = r.send_work_queued
      /\ s.send_result_pending = r.send_result_pending
      /\ s.close_work_queued = r.close_work_queued
      /\ s.event_buffer = r.event_buffer
      /\ s.close_requested /\ s.send_result = r.send_result
  BY <1>1 DEF Response
<1>4. request_close(r, io) = process_close(s, io)
  BY DEF request_close
<1> HIDE DEF s
<1>5. Gives(r, s)
  BY <1>2, <1>3, EmptyQueue DEF Gives, Raised, SessionOK
<1>6. Sends(s, process_close(s, io))
  BY <1>5, CloseSends DEF Gives
<1>7. Gives(r, process_close(s, io))
  BY <1>5, <1>6 DEF Gives, Sends, Keeps, Kept, Raised
<1> QED
  BY <1>4, <1>7

------------------------------------------------------------------------------
(* Sending.                                                                *)

LEMMA StalledSends ==
  ASSUME NEW r, SessionOK(r), ~r.close_requested, r.event_buffer # NONE, NEW io
  PROVE  Sends(r, Stalled(r, io))
<1> DEFINE since == IF r.stalled = -1 THEN 0 ELSE r.stalled
           s == [r EXCEPT !.stalled = since]
<1>1. r \in Response
  BY DEF SessionOK
<1>2. since \in -1 .. SEND_STALL_TIMEOUT
  BY <1>1, EventSourceAssumption DEF Response
<1>3. Stalled(r, io) = IF since >= SEND_STALL_TIMEOUT THEN request_close(s, io) ELSE s
  BY DEF Stalled
<1>4. since <= r.quiet /\ r.quiet \in 0 .. SEND_STALL_TIMEOUT
  BY <1>1, EventSourceAssumption DEF SessionOK, Response
<1> HIDE DEF since
<1>5. s \in Response
  BY <1>1, <1>2 DEF Response
<1>6. /\ s.place = r.place /\ s.fd = r.fd
      /\ s.sorting_group_index = r.sorting_group_index /\ s.deferred_queue = r.deferred_queue
      /\ s.send_work_queued = r.send_work_queued
      /\ s.send_result_pending = r.send_result_pending
      /\ s.close_work_queued = r.close_work_queued
      /\ s.event_buffer = r.event_buffer
      /\ s.close_requested = r.close_requested /\ s.send_result = r.send_result
      /\ s.quiet = r.quiet /\ s.stalled = since
      /\ s.latest = r.latest /\ s.to_list = r.to_list /\ s.missed = r.missed
  BY <1>1 DEF Response
<1> HIDE DEF s
<1>7. Sends(r, s)
  BY SameCarries, <1>5, <1>6, <1>4 DEF Sends, Keeps, Kept, Raised, SessionOK
<1>8. since >= SEND_STALL_TIMEOUT => Sends(r, request_close(s, io))
  <2> SUFFICES ASSUME since >= SEND_STALL_TIMEOUT PROVE Sends(r, request_close(s, io))
    OBVIOUS
  <2>1. Gives(s, request_close(s, io))
    BY <1>7, RequestCloseGives DEF Sends, Keeps
  <2>2. Stuck(r)
    BY <1>2, <1>4, NotStuckAtZero DEF Stuck
  <2> QED
    BY <1>7, <2>1, <2>2, GivesAfter, GivesSends
<1> QED
  BY <1>3, <1>7, <1>8

\* `bytes` of the buffer were sent, and HTTPD is through with it.
LEMMA ProgressedSends ==
  ASSUME NEW r, SessionOK(r), ~r.send_work_queued, ~r.send_result_pending,
         r.send_result = 0, r.stalled = -1, r.event_buffer # NONE, NEW bytes \in Int, bytes > 0, bytes <= r.event_buffer.left
  PROVE  Sends(r, Progressed(r, bytes))
<1>1. r \in Response /\ r.event_buffer \in Buffer
  BY DEF SessionOK, Response
<1>2. CASE bytes = r.event_buffer.left
  <2> DEFINE latest == IF r.event_buffer.fresh THEN r.latest \cup {r.event_buffer.source}
                       ELSE r.latest
             e == [r EXCEPT !.event_buffer = NONE]
             t == [e EXCEPT !.latest = latest]
  <2>1. Progressed(r, bytes) = t
    BY <1>2 DEF Progressed, Delivered
  <2>2. r.event_buffer.fresh => r.event_buffer.source \in Source
    BY <1>1 DEF SessionOK, Buffer
  <2>3. latest \in SUBSET Source
    BY <1>1, <2>2 DEF Response
  <2>4. /\ r.latest \subseteq latest
        /\ r.event_buffer.fresh => r.event_buffer.source \in latest
    OBVIOUS
  <2> HIDE DEF latest
  <2>5. t \in Response
    <3>1. e \in Response
      BY <1>1 DEF Response
    <3> HIDE DEF e
    <3> QED
      BY <2>3, <3>1 DEF Response
  <2>6. /\ t.place = r.place /\ t.fd = r.fd
        /\ t.sorting_group_index = r.sorting_group_index /\ t.deferred_queue = r.deferred_queue
        /\ t.send_work_queued = r.send_work_queued
        /\ t.close_work_queued = r.close_work_queued
        /\ t.send_result_pending = r.send_result_pending
        /\ t.event_buffer = NONE
        /\ t.close_requested = r.close_requested /\ t.send_result = r.send_result
        /\ t.quiet = r.quiet /\ t.stalled = r.stalled
        /\ t.latest = latest /\ t.to_list = r.to_list /\ t.missed = r.missed
    BY <1>1 DEF Response
  <2> HIDE DEF t
  <2>7. Carries(r, t)
    BY <2>4, <2>6 DEF Carries, Accounted, Has
  <2> QED
    BY <2>1, <2>5, <2>6, <2>7 DEF Sends, Keeps, Kept, Raised, SessionOK
<1>3. CASE bytes # r.event_buffer.left
  <2> DEFINE left == r.event_buffer.left - bytes
             buffer == [r.event_buffer EXCEPT !.left = left]
             t == [r EXCEPT !.event_buffer = buffer]
  <2>1. Progressed(r, bytes) = t
    BY <1>3 DEF Progressed
  <2>2. left \in 1 .. PARTS
    BY <1>1, <1>3, EventSourceAssumption DEF Buffer
  <2> HIDE DEF left
  <2>3. buffer \in Buffer
    BY <1>1, <2>2 DEF Buffer
  <2>4. buffer.source = r.event_buffer.source /\ buffer.fresh = r.event_buffer.fresh
    BY <1>1 DEF Buffer
  <2> HIDE DEF buffer
  <2>5. t \in Response
    BY <1>1, <2>3 DEF Response
  <2>6. /\ t.place = r.place /\ t.fd = r.fd
        /\ t.sorting_group_index = r.sorting_group_index /\ t.deferred_queue = r.deferred_queue
        /\ t.send_work_queued = r.send_work_queued
        /\ t.close_work_queued = r.close_work_queued
        /\ t.send_result_pending = r.send_result_pending
        /\ t.event_buffer = buffer
        /\ t.close_requested = r.close_requested /\ t.send_result = r.send_result
        /\ t.quiet = r.quiet /\ t.stalled = r.stalled
        /\ t.latest = r.latest /\ t.to_list = r.to_list /\ t.missed = r.missed
    BY <1>1 DEF Response
  <2> HIDE DEF t
  <2>7. Carries(r, t)
    <3>1. buffer # NONE
      BY <2>3, BufferAssumption
    <3> QED
      BY <2>4, <2>6, <3>1 DEF Carries, Accounted, Has
  <2> QED
    BY <2>1, <2>4, <2>5, <2>6, <2>7 DEF Sends, Keeps, Kept, Raised, SessionOK
<1> QED
  BY <1>2, <1>3

LEMMA ResultSends ==
  ASSUME NEW r, SessionOK(r), r.send_result_pending, ~r.send_work_queued,
         ~r.close_requested, r.event_buffer # NONE, NEW io
  PROVE  Sends(r, Result(r, io))
<1> DEFINE s == [r EXCEPT !.send_result_pending = FALSE, !.send_result = 0]
           p == [s EXCEPT !.stalled = -1, !.quiet = 0]
<1>1. /\ r \in Response /\ r.send_result \in SendResult
      /\ 0 \in SendResult /\ 0 \in 0 .. SEND_STALL_TIMEOUT
      /\ -1 \in -1 .. SEND_STALL_TIMEOUT
  BY EventSourceAssumption DEF SessionOK, Response, SendResult, TIMEOUT
<1>2. s \in Response
  BY <1>1 DEF Response
<1>3. /\ s.place = r.place /\ s.fd = r.fd
      /\ s.sorting_group_index = r.sorting_group_index /\ s.deferred_queue = r.deferred_queue
      /\ s.send_work_queued = r.send_work_queued /\ ~s.send_result_pending
      /\ s.close_work_queued = r.close_work_queued
      /\ s.event_buffer = r.event_buffer
      /\ s.close_requested = r.close_requested /\ s.send_result = 0
      /\ s.quiet = r.quiet /\ s.stalled = r.stalled
      /\ s.latest = r.latest /\ s.to_list = r.to_list /\ s.missed = r.missed
  BY <1>1 DEF Response
<1>4. /\ r.send_result = TIMEOUT => Result(r, io) = Stalled(s, io)
      /\ r.send_result \in {INVALID, FAIL} => Result(r, io) = request_close(s, io)
      /\ r.send_result > 0 => Result(r, io) = Progressed(p, r.send_result)
  BY <1>1 DEF Result, TIMEOUT, INVALID, FAIL, SendResult
<1>5. r.send_result = TIMEOUT \/ r.send_result \in {INVALID, FAIL} \/ r.send_result > 0
  <2>1. r.send_result # 0
    BY DEF SessionOK
  <2> QED
    BY <1>1, <2>1, EventSourceAssumption DEF TIMEOUT, INVALID, FAIL, SendResult
<1> HIDE DEF s
<1>6. Sends(r, s)
  BY <1>2, <1>3, SameCarries DEF Sends, Keeps, Kept, Raised, SessionOK
<1>7. SessionOK(s)
  BY <1>6 DEF Sends, Keeps
<1>8. CASE r.send_result = TIMEOUT
  <2>1. Sends(s, Stalled(s, io))
    BY <1>3, <1>7, StalledSends
  <2> QED
    BY <1>4, <1>6, <1>8, <2>1, SendsTwice
<1>9. CASE r.send_result \in {INVALID, FAIL}
  <2>1. Gives(r, request_close(s, io))
    BY <1>6, <1>7, RequestCloseGives, GivesAfter
  <2> QED
    BY <1>4, <1>9, <2>1, GivesSends DEF Stuck
<1>10. CASE r.send_result > 0
  <2>1. p \in Response
    BY <1>1, <1>2 DEF Response
  <2>2. /\ p.place = s.place /\ p.fd = s.fd
        /\ p.sorting_group_index = s.sorting_group_index /\ p.deferred_queue = s.deferred_queue
        /\ p.send_work_queued = s.send_work_queued
        /\ p.send_result_pending = s.send_result_pending
        /\ p.close_work_queued = s.close_work_queued
        /\ p.event_buffer = s.event_buffer
        /\ p.close_requested = s.close_requested /\ p.send_result = s.send_result
        /\ p.quiet = 0 /\ p.stalled = -1
        /\ p.latest = s.latest /\ p.to_list = s.to_list /\ p.missed = s.missed
    BY <1>2 DEF Response
  <2> HIDE DEF p
  <2>3. Sends(s, p)
    BY <1>3, <1>7, <2>1, <2>2, SameCarries DEF Sends, Keeps, Kept, Raised, SessionOK
  <2>4. r.send_result \in Int /\ r.send_result <= p.event_buffer.left
    BY <1>1, <1>3, <1>10, <2>2 DEF SessionOK, SendResult
  <2>5. /\ SessionOK(p) /\ ~p.send_work_queued /\ ~p.send_result_pending
        /\ p.send_result = 0 /\ p.stalled = -1 /\ p.event_buffer # NONE
    BY <1>3, <2>2, <2>3 DEF Sends, Keeps
  <2>6. Sends(p, Progressed(p, r.send_result))
    BY <1>10, <2>4, <2>5, ProgressedSends
  <2> QED
    BY <1>4, <1>6, <1>10, <2>3, <2>6, SendsTwice
<1> QED
  BY <1>5, <1>8, <1>9, <1>10

LEMMA BufferSends ==
  ASSUME NEW r, SessionOK(r), NEW io
  PROVE  Sends(r, process_buffer(r, io))
<1> DEFINE queued == [r EXCEPT !.dispatched = TRUE, !.send_result_pending = TRUE,
                               !.send_work_queued = TRUE]
           failed == [r EXCEPT !.dispatched = TRUE, !.send_wait = RETRY_INTERVAL]
<1>1. r \in Response /\ RETRY_INTERVAL \in 0 .. RETRY_INTERVAL
  BY EventSourceAssumption DEF SessionOK, Response
<1>2. CASE r.close_requested \/ r.event_buffer = NONE
  BY <1>2, SendsSelf DEF process_buffer
<1>3. CASE ~r.close_requested /\ r.event_buffer # NONE /\ r.send_result_pending
  <2>1. process_buffer(r, io) = IF r.send_work_queued THEN r ELSE Result(r, io)
    BY <1>3 DEF process_buffer
  <2>2. ~r.send_work_queued => Sends(r, Result(r, io))
    BY <1>3, ResultSends
  <2> QED
    BY <2>1, <2>2, SendsSelf
<1>4. CASE ~r.close_requested /\ r.event_buffer # NONE /\ ~r.send_result_pending
  <2>1. process_buffer(r, io) \in {r, queued, Stalled(failed, io)}
    BY <1>4 DEF process_buffer
  <2>2. queued \in Response /\ failed \in Response
    BY <1>1 DEF Response
  <2>3. ASSUME NEW t \in {queued, failed}
        PROVE  /\ t.place = r.place /\ t.fd = r.fd
               /\ t.sorting_group_index = r.sorting_group_index /\ t.deferred_queue = r.deferred_queue
               /\ t.close_work_queued = r.close_work_queued
               /\ t.event_buffer = r.event_buffer
               /\ t.close_requested = r.close_requested /\ t.send_result = r.send_result
               /\ t.quiet = r.quiet /\ t.stalled = r.stalled
               /\ t.latest = r.latest /\ t.to_list = r.to_list /\ t.missed = r.missed
    <3>1. CASE t = queued
      BY <1>1, <3>1 DEF Response
    <3>2. CASE t = failed
      BY <1>1, <3>2 DEF Response
    <3> QED
      BY <3>1, <3>2
  <2>4. queued.send_work_queued /\ queued.send_result_pending
        /\ failed.send_work_queued = r.send_work_queued
        /\ failed.send_result_pending = r.send_result_pending
    BY <1>1 DEF Response
  <2> HIDE DEF queued, failed
  <2>5. Carries(r, queued) /\ Carries(r, failed)
    <3>1. \A t \in {queued, failed} : t.deferred_queue = r.deferred_queue /\ t.event_buffer = r.event_buffer
      BY <2>3
    <3> QED
      BY <2>3, <3>1, SameCarries
  <2>6. Sends(r, queued)
    BY <1>4, <2>2, <2>3, <2>4, <2>5 DEF Sends, Keeps, Kept, Raised, SessionOK
  <2>7. ~r.send_work_queued
    BY <1>4 DEF SessionOK
  <2>8. Sends(r, failed)
    BY <2>2, <2>3, <2>4, <2>5, <2>7 DEF Sends, Keeps, Kept, Raised, SessionOK
  <2>9. Sends(failed, Stalled(failed, io))
    BY <1>4, <2>3, <2>8, StalledSends DEF Sends, Keeps
  <2>10. Sends(r, Stalled(failed, io))
    BY <2>8, <2>9, SendsTwice
  <2> QED
    BY <2>1, <2>6, <2>10, SendsSelf
<1> QED
  BY <1>2, <1>3, <1>4

\* The event of a source that was put into the buffer is the source's latest.
LEMMA FilledSends ==
  ASSUME NEW r, SessionOK(r), r.event_buffer = NONE, ~r.close_requested,
         NEW source \in Source \cup {NONE}, NEW io
  PROVE  /\ Sends(r, Filled(r, source, io))
         /\ source # NONE /\ ~Filled(r, source, io).close_requested =>
              Has(Filled(r, source, io), source)
<1> DEFINE fresh == source # NONE
           buffer == [source |-> source, fresh |-> fresh, left |-> PARTS]
           missed == r.missed \ {source}
           t == [r EXCEPT !.event_buffer = buffer, !.missed = missed, !.quiet = 0]
<1>1. r \in Response /\ missed \in SUBSET Source /\ 0 \in 0 .. SEND_STALL_TIMEOUT
  BY EventSourceAssumption DEF SessionOK, Response
<1>2. buffer \in Buffer /\ (buffer.fresh => buffer.source # NONE)
  <2>1. fresh \in BOOLEAN /\ (fresh => source # NONE)
    OBVIOUS
  <2>2. PARTS \in 1 .. PARTS
    BY EventSourceAssumption
  <2> HIDE DEF fresh
  <2>3. buffer.fresh = fresh /\ buffer.source = source
    OBVIOUS
  <2> QED
    BY <2>1, <2>2, <2>3 DEF Buffer
<1>3. Filled(r, source, io) = process_buffer(t, io)
  BY DEF Filled
<1>4. buffer # NONE /\ buffer.source = source /\ (source # NONE => buffer.fresh)
  BY <1>2, BufferAssumption
<1> HIDE DEF buffer
<1>5. \A x \in Source : x \in r.missed => x \in missed \/ x = source
  OBVIOUS
<1> HIDE DEF missed
<1>6. t \in Response
  BY <1>1, <1>2 DEF Response
<1>7. /\ t.place = r.place /\ t.fd = r.fd
      /\ t.sorting_group_index = r.sorting_group_index /\ t.deferred_queue = r.deferred_queue
      /\ t.send_work_queued = r.send_work_queued
      /\ t.send_result_pending = r.send_result_pending
      /\ t.close_work_queued = r.close_work_queued
      /\ t.event_buffer = buffer
      /\ t.close_requested = r.close_requested /\ t.send_result = r.send_result
      /\ t.quiet = 0 /\ t.stalled = r.stalled
      /\ t.latest = r.latest /\ t.to_list = r.to_list /\ t.missed = missed
  BY <1>1 DEF Response
<1> HIDE DEF t
<1>8. ~r.send_work_queued /\ ~(r.send_result > 0) /\ r.stalled = -1
  BY DEF SessionOK
<1>9. Carries(r, t) /\ (source # NONE => Has(t, source))
  <2>1. source # NONE => Has(t, source)
    BY <1>4, <1>7 DEF Has
  <2>2. \A x \in Source : Has(r, x) => Has(t, x)
    BY <1>7 DEF Has
  <2>3. \A x \in Source : Accounted(r, x) => Accounted(t, x)
    <3> SUFFICES ASSUME NEW x \in Source, Accounted(r, x) PROVE Accounted(t, x)
      OBVIOUS
    <3>1. CASE x = source
      BY <2>1, <3>1, EventSourceAssumption DEF Accounted
    <3>2. CASE x # source
      BY <1>5, <1>7, <2>2, <3>2 DEF Accounted
    <3> QED
      BY <3>1, <3>2
  <2> QED
    BY <2>1, <2>2, <2>3 DEF Carries
<1>10. Sends(r, t)
  BY <1>2, <1>6, <1>7, <1>8, <1>9 DEF Sends, Keeps, Kept, Raised, SessionOK
<1>11. Sends(t, process_buffer(t, io))
  BY <1>10, BufferSends DEF Sends, Keeps
<1>12. Sends(r, process_buffer(t, io))
  BY <1>10, <1>11, SendsTwice
<1>13. source # NONE /\ ~process_buffer(t, io).close_requested => Has(process_buffer(t, io), source)
  BY <1>9, <1>11 DEF Sends, Carries
<1> QED
  BY <1>3, <1>12, <1>13

LEMMA NodeferSends ==
  ASSUME NEW r, SessionOK(r), NEW source \in Source \cup {NONE}, NEW io
  PROVE  Sends(r, try_send_nodefer(r, source, io))
<1> DEFINE s == process_buffer(r, io)
<1>1. Sends(r, s)
  BY BufferSends
<1>2. try_send_nodefer(r, source, io) =
        IF r.fd = NONE \/ r.close_requested THEN r
        ELSE IF MaySend(s) THEN Filled(s, source, io) ELSE s
  BY DEF try_send_nodefer
<1> HIDE DEF s
<1>3. MaySend(s) => Sends(s, Filled(s, source, io))
  BY <1>1, FilledSends DEF MaySend, Sends, Keeps
<1> QED
  BY <1>1, <1>2, <1>3, SendsSelf, SendsTwice

------------------------------------------------------------------------------
(* Deferring.                                                              *)

LEMMA TailInjective ==
  ASSUME NEW S, NEW q \in Seq(S), q # <<>>, IsInjective(q)
  PROVE  Tail(q) \in Seq(S) /\ IsInjective(Tail(q)) /\ Head(q) \in S
<1>1. /\ Tail(q) \in Seq(S) /\ Head(q) \in S
      /\ DOMAIN Tail(q) = 1 .. Len(q) - 1 /\ Len(q) \in Nat /\ DOMAIN q = 1 .. Len(q)
  OBVIOUS
<1>2. ASSUME NEW a \in DOMAIN Tail(q), NEW b \in DOMAIN Tail(q), Tail(q)[a] = Tail(q)[b]
      PROVE  a = b
  <2>1. a \in Nat /\ b \in Nat /\ a + 1 \in DOMAIN q /\ b + 1 \in DOMAIN q
    BY <1>1
  <2>2. Tail(q)[a] = q[a + 1] /\ Tail(q)[b] = q[b + 1]
    BY <1>1
  <2>3. a + 1 = b + 1
    BY <1>2, <2>1, <2>2 DEF IsInjective
  <2> QED
    BY <2>1, <2>3
<1> QED
  BY <1>1, <1>2 DEF IsInjective

LEMMA LongerInjective ==
  ASSUME NEW S, NEW q \in Seq(S), IsInjective(q), NEW e \in S, ~Contains(q, e)
  PROVE  Append(q, e) \in Seq(S) /\ IsInjective(Append(q, e))
<1>1. /\ Append(q, e) \in Seq(S)
      /\ Len(q) \in Nat /\ DOMAIN q = 1 .. Len(q)
      /\ DOMAIN Append(q, e) = 1 .. Len(q) + 1
  OBVIOUS
<1>2. Append(q, e)[Len(q) + 1] = e /\ \A i \in 1 .. Len(q) : Append(q, e)[i] = q[i]
  OBVIOUS
<1>3. \A i \in 1 .. Len(q) : q[i] # e
  BY DEF Contains
<1>4. ASSUME NEW a \in DOMAIN Append(q, e), NEW b \in DOMAIN Append(q, e),
             Append(q, e)[a] = Append(q, e)[b]
      PROVE  a = b
  <2>1. CASE a \in 1 .. Len(q) /\ b \in 1 .. Len(q)
    <3>1. q[a] = q[b]
      BY <1>2, <1>4, <2>1
    <3> QED
      BY <1>1, <2>1, <3>1 DEF IsInjective
  <2>2. CASE a = Len(q) + 1 /\ b \in 1 .. Len(q)
    BY <1>2, <1>3, <1>4, <2>2
  <2>3. CASE b = Len(q) + 1 /\ a \in 1 .. Len(q)
    BY <1>2, <1>3, <1>4, <2>3
  <2> QED
    BY <1>1, <2>1, <2>2, <2>3
<1>5. IsInjective(Append(q, e))
  BY <1>4 DEF IsInjective
<1> QED
  BY <1>1, <1>5

\* A session with another queue that holds an event once
LEMMA QueueKeeps ==
  ASSUME NEW r, SessionOK(r), NEW q \in Seq(Event), IsInjective(q)
  PROVE  Keeps(r, [r EXCEPT !.deferred_queue = q])
<1> DEFINE t == [r EXCEPT !.deferred_queue = q]
<1>1. r \in Response
  BY DEF SessionOK
<1>2. t \in Response
  BY <1>1 DEF Response
<1>3. /\ t.place = r.place /\ t.fd = r.fd /\ t.deferred_queue = q
      /\ t.send_work_queued = r.send_work_queued
      /\ t.send_result_pending = r.send_result_pending
      /\ t.close_work_queued = r.close_work_queued
      /\ t.event_buffer = r.event_buffer
      /\ t.close_requested = r.close_requested /\ t.send_result = r.send_result
      /\ t.quiet = r.quiet /\ t.stalled = r.stalled
      /\ t.latest = r.latest /\ t.to_list = r.to_list /\ t.missed = r.missed
  BY <1>1 DEF Response
<1> HIDE DEF t
<1>4. Keeps(r, t)
  BY <1>2, <1>3 DEF Keeps, Kept, Raised, SessionOK
<1> QED
  BY <1>4 DEF t

LEMMA QueueCarries ==
  ASSUME NEW r \in Response, NEW q \in Seq(Event),
         \A x \in Source : Queued(r.deferred_queue, x) => Queued(q, x) \/ Has(r, x)
  PROVE  Carries(r, [r EXCEPT !.deferred_queue = q])
<1> DEFINE t == [r EXCEPT !.deferred_queue = q]
<1>1. /\ t.deferred_queue = q /\ t.event_buffer = r.event_buffer /\ t.latest = r.latest
      /\ t.to_list = r.to_list /\ t.missed = r.missed
  BY DEF Response
<1> HIDE DEF t
<1>2. \A x \in Source : Has(r, x) <=> Has(t, x)
  BY <1>1 DEF Has
<1>3. Carries(r, t)
  BY <1>1, <1>2 DEF Carries, Accounted
<1> QED
  BY <1>3 DEF t

LEMMA TailQueued ==
  ASSUME NEW q \in Seq(Event), q # <<>>, NEW x, Queued(q, x), x # Head(q).source
  PROVE  Queued(Tail(q), x)
<1>1. PICK i \in 1 .. Len(q) : q[i].source = x
  BY DEF Queued
<1>2. Len(q) \in Nat /\ Head(q) = q[1] /\ Len(Tail(q)) = Len(q) - 1
  OBVIOUS
<1>3. i - 1 \in 1 .. Len(Tail(q))
  BY <1>1, <1>2
<1>4. Tail(q)[i - 1] = q[i]
  BY <1>2, <1>3
<1> QED
  BY <1>1, <1>3, <1>4 DEF Queued

LEMMA LongerQueued ==
  ASSUME NEW q \in Seq(Event), NEW e \in Event
  PROVE  /\ Queued(Append(q, e), e.source)
         /\ \A x : Queued(q, x) => Queued(Append(q, e), x)
<1>1. /\ Len(q) \in Nat /\ Len(Append(q, e)) = Len(q) + 1
      /\ Append(q, e)[Len(q) + 1] = e /\ \A i \in 1 .. Len(q) : Append(q, e)[i] = q[i]
  OBVIOUS
<1>2. Len(q) + 1 \in 1 .. Len(Append(q, e)) /\ 1 .. Len(q) \subseteq 1 .. Len(Append(q, e))
  BY <1>1
<1>3. Queued(Append(q, e), e.source)
  BY <1>1, <1>2 DEF Queued
<1>4. ASSUME NEW x, Queued(q, x)
      PROVE  Queued(Append(q, e), x)
  <2>1. PICK i \in 1 .. Len(q) : q[i].source = x
    BY <1>4 DEF Queued
  <2>2. i \in 1 .. Len(Append(q, e)) /\ Append(q, e)[i].source = x
    BY <1>1, <1>2, <2>1
  <2> QED
    BY <2>2 DEF Queued
<1> QED
  BY <1>3, <1>4

\* What the deferred queue is after a buffer was filled or worked on: its head
\* is dropped when it is in the buffer.
LEMMA DeferredQueueKeeps ==
  ASSUME NEW r, SessionOK(r), NEW io
  PROVE  Keeps(r, process_deferred_queue(r, io)) /\ Carries(r, process_deferred_queue(r, io))
<1>1. CASE r.close_requested \/ r.deferred_queue = <<>> \/ ~MaySend(r)
  BY <1>1, KeepsSelf, SelfCarries DEF process_deferred_queue
<1>2. CASE ~(r.close_requested \/ r.deferred_queue = <<>> \/ ~MaySend(r))
  <2> DEFINE source == Head(r.deferred_queue).source
             s == Filled(r, source, io)
             rest == Tail(s.deferred_queue)
             t == [s EXCEPT !.deferred_queue = rest]
  <2>1. r.deferred_queue \in Seq(Event) /\ r.deferred_queue # <<>> /\ r.event_buffer = NONE
        /\ ~r.close_requested
    BY <1>2 DEF SessionOK, Response, MaySend
  <2>2. source \in Source /\ source # NONE
    <3>1. Head(r.deferred_queue) \in Event
      BY <2>1, TailInjective DEF SessionOK
    <3> QED
      BY <3>1, EventSourceAssumption DEF Event
  <2>3. process_deferred_queue(r, io) = IF s.close_requested THEN s ELSE t
    BY <1>2 DEF process_deferred_queue
  <2>4. Head(r.deferred_queue).source = source
    OBVIOUS
  <2> HIDE DEF source
  <2>5. Sends(r, s) /\ (~s.close_requested => Has(s, source))
    BY <2>1, <2>2, FilledSends
  <2> HIDE DEF s
  <2>6. SessionOK(s) /\ s.deferred_queue \in Seq(Event) /\ IsInjective(s.deferred_queue)
        /\ s \in Response
    BY <2>5 DEF Sends, Keeps, SessionOK, Response
  <2>7. CASE s.close_requested
    BY <2>3, <2>5, <2>7 DEF Sends
  <2>8. CASE ~s.close_requested
    <3>1. s.deferred_queue = r.deferred_queue
      BY <2>5, <2>8 DEF Sends
    <3>2. rest \in Seq(Event) /\ IsInjective(rest)
      BY <2>1, <2>6, <3>1, TailInjective
    <3>3. \A x \in Source : Queued(s.deferred_queue, x) => Queued(rest, x) \/ Has(s, x)
      BY <2>1, <2>4, <2>5, <2>8, <3>1, TailQueued
    <3> HIDE DEF rest
    <3>4. Keeps(s, t) /\ Carries(s, t)
      BY <2>6, <3>2, <3>3, QueueKeeps, QueueCarries
    <3> HIDE DEF t
    <3>5. Keeps(r, t) /\ Carries(r, t)
      BY <2>5, <3>4, KeepsTwice, CarriesTwice DEF Sends, Keeps
    <3> QED
      BY <2>3, <2>8, <3>5
  <2> QED
    BY <2>7, <2>8
<1> QED
  BY <1>1, <1>2

\* An event is dropped only while the session is listed, and only a state's.
LEMMA DeferrableKeeps ==
  ASSUME NEW r, SessionOK(r), NEW event \in Event, NEW io
  PROVE  /\ Keeps(r, deferrable_send_state(r, event, io))
         /\ Carries(r, deferrable_send_state(r, event, io))
         /\ /\ r.to_list = {} \/ event.kind # "state"
            /\ ~deferrable_send_state(r, event, io).close_requested
            => Accounted(deferrable_send_state(r, event, io), event.source)
<1> DEFINE b == process_buffer(r, io)
           s == process_deferred_queue(b, io)
           longer == Append(s.deferred_queue, event)
           queued == [s EXCEPT !.deferred_queue = longer]
           t == deferrable_send_state(r, event, io)
<1>1. Keeps(r, b) /\ Carries(r, b)
  BY BufferSends DEF Sends
<1>2. Keeps(b, s) /\ Carries(b, s)
  BY <1>1, DeferredQueueKeeps DEF Keeps
<1>3. Keeps(r, s) /\ Carries(r, s)
  <2> HIDE DEF b, s
  <2> QED
    BY <1>1, <1>2, KeepsTwice, CarriesTwice DEF Keeps
<1>4. \/ t = r /\ r.to_list # {} /\ event.kind = "state"
      \/ t = s /\ s.close_requested
      \/ t = s /\ Contains(s.deferred_queue, event)
      \/ t = queued /\ ~Contains(s.deferred_queue, event)
      \/ t = Filled(s, event.source, io) /\ s.event_buffer = NONE /\ ~s.close_requested
  BY DEF deferrable_send_state, deq_push_back_with_dedup
<1> HIDE DEF b, s
<1>5. SessionOK(s) /\ s.deferred_queue \in Seq(Event) /\ IsInjective(s.deferred_queue)
      /\ s \in Response
  BY <1>3 DEF Keeps, SessionOK, Response
<1>6. event.source \in Source /\ event.source # NONE
  BY EventSourceAssumption DEF Event
<1> HIDE DEF t
<1>7. CASE t = r /\ r.to_list # {} /\ event.kind = "state"
  BY <1>7, KeepsSelf, SelfCarries DEF t
<1>8. CASE t = s /\ s.close_requested
  BY <1>3, <1>8 DEF t
<1>9. CASE t = s /\ Contains(s.deferred_queue, event)
  <2>1. Queued(s.deferred_queue, event.source)
    BY <1>9 DEF Contains, Queued
  <2> QED
    BY <1>3, <1>9, <2>1 DEF t, Accounted
<1>10. CASE t = queued /\ ~Contains(s.deferred_queue, event)
  <2> DEFINE q == s.deferred_queue
  <2>1. q \in Seq(Event) /\ IsInjective(q) /\ ~Contains(q, event) /\ longer = Append(q, event)
    BY <1>5, <1>10
  <2>2. longer \in Seq(Event) /\ IsInjective(longer)
    <3> HIDE DEF q, longer
    <3> QED
      BY <2>1, LongerInjective
  <2>3. /\ Queued(longer, event.source)
        /\ \A x \in Source : Queued(q, x) => Queued(longer, x)
    <3> HIDE DEF q, longer
    <3> QED
      BY <2>1, LongerQueued
  <2> HIDE DEF longer
  <2>4. Keeps(s, queued) /\ Carries(s, queued)
    BY <1>5, <2>2, <2>3, QueueKeeps, QueueCarries
  <2>5. queued.deferred_queue = longer
    BY <1>5 DEF Response
  <2> HIDE DEF queued
  <2>6. Keeps(r, queued) /\ Carries(r, queued)
    BY <1>3, <2>4, KeepsTwice, CarriesTwice DEF Keeps
  <2> QED
    BY <1>10, <2>3, <2>5, <2>6 DEF t, Accounted
<1>11. CASE t = Filled(s, event.source, io) /\ s.event_buffer = NONE /\ ~s.close_requested
  <2>1. Sends(s, t) /\ (~t.close_requested => Has(t, event.source))
    BY <1>5, <1>6, <1>11, FilledSends
  <2>2. Keeps(r, t) /\ Carries(r, t)
    BY <1>3, <2>1, KeepsTwice, CarriesTwice DEF Sends, Keeps
  <2> QED
    BY <2>1, <2>2 DEF t, Accounted
<1> QED
  BY <1>4, <1>7, <1>8, <1>9, <1>10, <1>11

LEMMA PublishedKeeps ==
  ASSUME NEW r, SessionOK(r), NEW x \in Source, NEW io
  PROVE  Keeps(r, Published(r, x, io)) /\ (Whole(r) => Whole(Published(r, x, io)))
<1> DEFINE latest == r.latest \ {x}
           buffer == IF r.event_buffer # NONE /\ r.event_buffer.source = x
                     THEN [r.event_buffer EXCEPT !.fresh = FALSE] ELSE r.event_buffer
           stale == [r EXCEPT !.latest = latest, !.event_buffer = buffer]
           event == [source |-> x, kind |-> "state"]
           s == deferrable_send_state(stale, event, io)
           missed == s.missed \cup {x}
           t == [s EXCEPT !.missed = missed]
           listed == [source |-> x, kind |-> "state_detail_all"]
<1>1. r \in Response /\ latest \in SUBSET Source /\ r.event_buffer \in Buffer \cup {NONE}
  BY DEF SessionOK, Response
<1>2. /\ buffer \in Buffer \cup {NONE}
      /\ r.event_buffer # NONE => buffer # NONE /\ buffer.left = r.event_buffer.left
      /\ buffer # NONE /\ buffer.fresh => r.event_buffer # NONE /\ buffer = r.event_buffer
  <2>1. CASE r.event_buffer # NONE /\ r.event_buffer.source = x
    <3>1. buffer = [r.event_buffer EXCEPT !.fresh = FALSE] /\ r.event_buffer \in Buffer
      BY <1>1, <2>1
    <3>2. buffer \in Buffer /\ ~buffer.fresh /\ buffer.left = r.event_buffer.left
      BY <3>1 DEF Buffer
    <3> QED
      BY <3>2, BufferAssumption
  <2>2. CASE ~(r.event_buffer # NONE /\ r.event_buffer.source = x)
    BY <1>1, <2>2
  <2> QED
    BY <2>1, <2>2
<1>3. event \in Event
  BY DEF Event
<1>4. Published(r, x, io) =
        IF r.to_list # {} /\ x \notin r.to_list /\ ~Contains(r.deferred_queue, listed)
        THEN t ELSE s
  BY DEF Published
<1>13. /\ \A y \in Source : y # x /\ y \in r.latest => y \in latest
       /\ \A y \in Source : y # x /\ r.event_buffer # NONE /\ r.event_buffer.source = y =>
            buffer = r.event_buffer
       /\ event.source = x /\ listed.source = x
  OBVIOUS
<1> HIDE DEF latest, buffer, event, listed
<1>5. stale \in Response
  BY <1>1, <1>2 DEF Response
<1>6. /\ stale.place = r.place /\ stale.fd = r.fd /\ stale.deferred_queue = r.deferred_queue
      /\ stale.send_work_queued = r.send_work_queued
      /\ stale.send_result_pending = r.send_result_pending
      /\ stale.close_work_queued = r.close_work_queued
      /\ stale.event_buffer = buffer
      /\ stale.close_requested = r.close_requested /\ stale.send_result = r.send_result
      /\ stale.quiet = r.quiet /\ stale.stalled = r.stalled
      /\ stale.latest = latest /\ stale.to_list = r.to_list /\ stale.missed = r.missed
  BY <1>1 DEF Response
<1> HIDE DEF stale
<1>7. Keeps(r, stale)
  BY <1>2, <1>5, <1>6 DEF Keeps, Kept, Raised, SessionOK
<1>8. /\ Keeps(stale, s) /\ Carries(stale, s)
      /\ stale.to_list = {} /\ ~s.close_requested => Accounted(s, x)
  BY <1>3, <1>7, <1>13, DeferrableKeeps DEF Keeps
<1>14. ASSUME NEW y \in Source, Accounted(r, y), y # x
       PROVE  Accounted(stale, y)
  BY <1>6, <1>13, <1>14 DEF Accounted, Has
<1>15. x \in r.to_list \/ Contains(r.deferred_queue, listed) => Accounted(stale, x)
  BY <1>6, <1>13 DEF Accounted, Contains, Queued
<1> HIDE DEF s
<1>9. Keeps(r, s)
  BY <1>7, <1>8, KeepsTwice
<1>10. s \in Response /\ missed \in SUBSET Source
  BY <1>9 DEF Keeps, SessionOK, Response
<1>16. s.missed \subseteq missed /\ x \in missed
  OBVIOUS
<1> HIDE DEF missed
<1>11. t \in Response
  BY <1>10 DEF Response
<1>12. /\ t.place = s.place /\ t.fd = s.fd /\ t.deferred_queue = s.deferred_queue
       /\ t.send_work_queued = s.send_work_queued
       /\ t.send_result_pending = s.send_result_pending
       /\ t.close_work_queued = s.close_work_queued
       /\ t.event_buffer = s.event_buffer
       /\ t.close_requested = s.close_requested /\ t.send_result = s.send_result
       /\ t.quiet = s.quiet /\ t.stalled = s.stalled
       /\ t.latest = s.latest /\ t.to_list = s.to_list /\ t.missed = missed
  BY <1>10 DEF Response
<1> HIDE DEF t
<1>17. Keeps(r, t)
  BY <1>9, <1>11, <1>12 DEF Keeps, Kept, Raised, SessionOK
<1>18. Carries(s, t) /\ Accounted(t, x)
  <2>1. \A y \in Source : Has(s, y) <=> Has(t, y)
    BY <1>12 DEF Has
  <2>2. \A y \in Source : Accounted(s, y) => Accounted(t, y)
    BY <1>12, <1>16, <2>1 DEF Accounted
  <2>3. Accounted(t, x)
    BY <1>12, <1>16 DEF Accounted
  <2> QED
    BY <2>1, <2>2, <2>3 DEF Carries
<1>19. r.close_requested => s.close_requested
  BY <1>9 DEF Keeps, Kept, Raised
<1>20. ASSUME Whole(r), ~s.close_requested, NEW y \in Source
       PROVE  /\ Accounted(t, y)
              /\ Published(r, x, io) = s => Accounted(s, y)
  <2>1. Carries(stale, t)
    <3>1. Kept(s, t)
      BY <1>9, <1>11, <1>12 DEF Kept, Raised
    <3> QED
      BY <1>8, <1>18, <3>1, CarriesTwice
  <2>2. ~t.close_requested /\ ~r.close_requested
    BY <1>12, <1>19, <1>20
  <2>3. CASE y # x
    BY <1>8, <1>14, <1>20, <2>1, <2>2, <2>3 DEF Carries, Whole
  <2>4. CASE y = x
    <3>1. CASE r.to_list # {} /\ x \notin r.to_list /\ ~Contains(r.deferred_queue, listed)
      BY <1>4, <1>18, <2>4, <3>1 DEF t
    <3>2. CASE ~(r.to_list # {} /\ x \notin r.to_list /\ ~Contains(r.deferred_queue, listed))
      <4>1. Accounted(s, x)
        BY <1>6, <1>8, <1>15, <1>20, <3>2 DEF Carries
      <4> QED
        BY <1>18, <2>4, <4>1
    <3> QED
      BY <3>1, <3>2
  <2> QED
    BY <2>3, <2>4
<1>21. Whole(r) => Whole(Published(r, x, io))
  BY <1>4, <1>12, <1>20 DEF Whole
<1> QED
  BY <1>4, <1>9, <1>17, <1>21

------------------------------------------------------------------------------
(* The objects.                                                            *)

\* A session that was adopted and has its socket lacks no source.
Served(r) == r.place = "adopted" /\ r.fd # NONE => Whole(r)

\* What a step of the main loop does to a session: HTTPD loses nothing of it,
\* or it is deleted.
Moved(r, t) ==
  /\ SessionOK(t)
  /\ Served(r) => Served(t)
  /\ t.place = "free" => safe_to_delete(t)
  /\ \/ /\ t.fd = r.fd
        /\ r.place = "adopted" => t.place = "adopted"
        /\ r.send_work_queued => t.send_work_queued /\ t.send_result = r.send_result
        /\ r.close_work_queued => t.close_work_queued
        /\ r.close_requested => t.close_requested
        /\ ~r.close_requested /\ t.close_requested => Stuck(r)
     \/ safe_to_delete(r) /\ t = Free

LEMMA FreeOK == SessionOK(Free) /\ safe_to_delete(Free) /\ Free.place = "free"
<1>1. Free \in Response
  <2>1. /\ 0 \in 0 .. Groups /\ 0 \in SendResult /\ 0 \in 0 .. RETRY_INTERVAL
        /\ -1 \in -1 .. SEND_STALL_TIMEOUT /\ 0 \in 0 .. CLOSE_CONFIRM_INTERVAL
        /\ 0 \in 0 .. SEND_STALL_TIMEOUT
    BY EventSourceAssumption DEF SendResult, TIMEOUT
  <2>2. {} \in SUBSET (Source \cup {NONE}) /\ {} \in SUBSET Source /\ <<>> \in Seq(Event)
    OBVIOUS
  <2> QED
    BY <2>1, <2>2 DEF Free, Response
<1>2. /\ Free.place = "free" /\ Free.fd = NONE /\ Free.deferred_queue = <<>>
      /\ Free.event_buffer = NONE /\ ~Free.send_work_queued /\ ~Free.close_work_queued
      /\ Free.send_result = 0 /\ ~Free.send_result_pending /\ Free.stalled = -1
  BY DEF Free
<1> QED
  BY <1>1, <1>2, EmptyQueue DEF SessionOK, safe_to_delete

LEMMA KeptInPlace ==
  ASSUME NEW r, NEW t, Keeps(r, t), t.fd = NONE \/ (Whole(r) => Whole(t)),
         r.place = "adopted"
  PROVE  Moved(r, t) /\ t.place = r.place /\ t \in Response
BY DEF Keeps, Kept, Raised, Moved, Served, SessionOK

LEMMA SelfMoves ==
  ASSUME NEW r, SessionOK(r), r.place = "free" => safe_to_delete(r)
  PROVE  Moved(r, r)
BY DEF Moved

\* Fields that the invariant does not speak of
LEMMA OtherFieldKeeps ==
  ASSUME NEW r, SessionOK(r), NEW t \in Response,
         t.place = r.place, t.fd = r.fd, t.deferred_queue = r.deferred_queue,
         t.send_work_queued = r.send_work_queued,
         t.send_result_pending = r.send_result_pending,
         t.close_work_queued = r.close_work_queued,
         t.event_buffer = r.event_buffer,
         t.close_requested = r.close_requested, t.send_result = r.send_result,
         t.quiet = r.quiet, t.stalled = r.stalled
  PROVE  Keeps(r, t)
BY DEF Keeps, Kept, Raised, SessionOK

LEMMA AdoptMoves ==
  ASSUME NEW r, SessionOK(r), r.place = "free" => safe_to_delete(r), NEW io
  PROVE  Moved(r, Adopt(r, io))
<1> DEFINE q == [r EXCEPT !.place = "adopted"]
           t == try_send_nodefer(q, NONE, io)
           u == [t EXCEPT !.to_list = Source \cup {NONE}]
<1>1. CASE r.place # "parked"
  BY <1>1, SelfMoves DEF Adopt
<1>2. CASE r.place = "parked" /\ safe_to_delete(r)
  BY <1>2, FreeOK DEF Adopt, Moved, Served
<1>3. CASE r.place = "parked" /\ ~safe_to_delete(r)
  <2>1. Adopt(r, io) = u
    BY <1>3 DEF Adopt
  <2>2. r \in Response
    BY DEF SessionOK
  <2>3. q \in Response
    BY <2>2 DEF Response
  <2>4. /\ q.place = "adopted" /\ q.fd = r.fd /\ q.deferred_queue = r.deferred_queue
        /\ q.send_work_queued = r.send_work_queued
        /\ q.send_result_pending = r.send_result_pending
        /\ q.close_work_queued = r.close_work_queued
        /\ q.event_buffer = r.event_buffer
        /\ q.close_requested = r.close_requested /\ q.send_result = r.send_result
        /\ q.quiet = r.quiet /\ q.stalled = r.stalled
        /\ q.latest = r.latest /\ q.to_list = r.to_list /\ q.missed = r.missed
    BY <2>2 DEF Response
  <2> HIDE DEF q
  <2>5. SessionOK(q)
    BY <2>3, <2>4 DEF SessionOK
  <2>6. Keeps(q, t)
    BY <2>5, NodeferSends DEF Sends
  <2> HIDE DEF t
  <2>7. t \in Response
    BY <2>6 DEF Keeps, SessionOK
  <2>8. u \in Response
    BY <2>7 DEF Response
  <2>9. /\ u.place = t.place /\ u.fd = t.fd /\ u.deferred_queue = t.deferred_queue
        /\ u.send_work_queued = t.send_work_queued
        /\ u.send_result_pending = t.send_result_pending
        /\ u.close_work_queued = t.close_work_queued
        /\ u.event_buffer = t.event_buffer
        /\ u.close_requested = t.close_requested /\ u.send_result = t.send_result
        /\ u.quiet = t.quiet /\ u.stalled = t.stalled
        /\ u.latest = t.latest /\ u.to_list = Source \cup {NONE} /\ u.missed = t.missed
    BY <2>7 DEF Response
  <2> HIDE DEF u
  <2>10. Keeps(t, u)
    BY <2>6, <2>8, <2>9, OtherFieldKeeps DEF Keeps
  <2>11. Keeps(q, u)
    BY <2>6, <2>10, KeepsTwice
  <2>12. Served(u)
    BY <2>9 DEF Served, Whole, Accounted
  <2> QED
    BY <2>1, <2>4, <2>11, <2>12 DEF Moved, Keeps, Kept, Raised, Stuck
<1> QED
  BY <1>1, <1>2, <1>3

LEMMA GroupedKeeps ==
  ASSUME NEW r, SessionOK(r), r.sorting_group_index < Groups, NEW io
  PROVE  Keeps(r, Grouped(r, io)) /\ Carries(r, Grouped(r, io))
<1> DEFINE t == try_send_nodefer(r, NONE, io)
           more == t.sorting_group_index + 1
           u == [t EXCEPT !.sorting_group_index = more]
<1>1. Keeps(r, t) /\ Carries(r, t)
  BY NodeferSends DEF Sends
<1>2. Grouped(r, io) = IF MaySend(process_buffer(r, io)) THEN u ELSE t
  BY DEF Grouped
<1>3. t.sorting_group_index < Groups
  BY NodeferSends DEF Sends
<1>4. Keeps(t, u) /\ Carries(t, u)
  <2> HIDE DEF t
  <2>1. t \in Response /\ t.sorting_group_index \in 0 .. Groups
    BY <1>1 DEF Keeps, SessionOK, Response
  <2>2. more \in 0 .. Groups
    BY <1>3, <2>1, EventSourceAssumption
  <2> HIDE DEF more
  <2>3. u \in Response
    BY <2>1, <2>2 DEF Response
  <2>4. /\ u.place = t.place /\ u.fd = t.fd /\ u.deferred_queue = t.deferred_queue
        /\ u.send_work_queued = t.send_work_queued
        /\ u.send_result_pending = t.send_result_pending
        /\ u.close_work_queued = t.close_work_queued
        /\ u.event_buffer = t.event_buffer
        /\ u.close_requested = t.close_requested /\ u.send_result = t.send_result
        /\ u.quiet = t.quiet /\ u.stalled = t.stalled
        /\ u.latest = t.latest /\ u.to_list = t.to_list /\ u.missed = t.missed
    BY <2>1 DEF Response
  <2> HIDE DEF u
  <2> QED
    BY <1>1, <2>3, <2>4, OtherFieldKeeps, SameCarries DEF Keeps
<1> HIDE DEF t, u
<1>5. Keeps(r, u) /\ Carries(r, u)
  BY <1>1, <1>4, KeepsTwice, CarriesTwice DEF Keeps
<1> QED
  BY <1>1, <1>2, <1>5

------------------------------------------------------------------------------
(* The invariant: what the two threads share, and the main loop's round.   *)

Item == [doing : {"send", "close"}, for : Session]

Shared ==
  /\ session \in [Session -> Response]
  /\ \A s \in Session :
       /\ SessionOK(session[s]) /\ Served(session[s])
       /\ session[s].place = "free" => safe_to_delete(session[s])
  /\ ctx \in [Socket -> Session \cup {OTHER_CLIENT, NONE}]
  /\ down \subseteq Socket
  /\ work \subseteq Item
  /\ httpd \in Item \cup {IDLE} \cup [doing : {"wake"}, for : Session]
  /\ \A f \in Socket, s \in Session : ctx[f] = s => session[s].fd = f
  /\ \A w \in work \cup {httpd} :
       /\ w.doing = "send" => session[w.for].send_work_queued
       /\ w.doing = "close" => session[w.for].close_work_queued
  /\ httpd.doing = "send" => session[httpd.for].send_result # 0
  /\ httpd \notin work
  /\ \A f \in down : ctx[f] \in Session /\ session[ctx[f]].close_requested

Round ==
  /\ visiting \subseteq Adopted(session)
  /\ listing \in Adopted(session) \cup {NONE}
  /\ looping \in {"on", "leaving", "off"}
  /\ wake \in BOOLEAN

\* A step gives a session up only if it is stuck.
NotForNothing ==
  \A s \in Session :
    ~session[s].close_requested /\ session'[s].close_requested => Stuck(session[s])

\* A step of the main loop that moves every session
LEMMA MovedKeepsShared ==
  ASSUME Shared, NEW now \in [Session -> Response],
         \A s \in Session : Moved(session[s], now[s]),
         Update(now), UNCHANGED <<ctx, down, httpd>>
  PROVE  Shared' /\ NotForNothing
<1>1. /\ session' = now /\ work' = work \cup NewWork(now)
      /\ ctx' = ctx /\ down' = down /\ httpd' = httpd
  BY DEF Update
<1>2. \A s \in Session :
        /\ SessionOK(now[s]) /\ Served(now[s])
        /\ now[s].place = "free" => safe_to_delete(now[s])
  BY DEF Moved, Shared
<1>3. ASSUME NEW f \in Socket, NEW s \in Session, ctx[f] = s
      PROVE  /\ now[s].fd = f
             /\ session[s].close_requested => now[s].close_requested
  <2>1. session[s].fd = f /\ f # NONE
    BY <1>3, EventSourceAssumption DEF Shared
  <2>2. ~safe_to_delete(session[s])
    BY <2>1 DEF safe_to_delete
  <2> QED
    BY <2>1, <2>2 DEF Moved
<1>4. ASSUME NEW w \in work \cup {httpd}
      PROVE  /\ w.doing = "send" => now[w.for].send_work_queued
             /\ w.doing = "close" => now[w.for].close_work_queued
  <2>1. w \in Item \cup {IDLE} \cup [doing : {"wake"}, for : Session]
    BY <1>4 DEF Shared
  <2>2. w.doing \in {"send", "close"} => w.for \in Session
    BY <2>1 DEF Item, IDLE
  <2>3. /\ w.doing = "send" => session[w.for].send_work_queued
        /\ w.doing = "close" => session[w.for].close_work_queued
    BY <1>4 DEF Shared
  <2>4. w.doing \in {"send", "close"} => ~safe_to_delete(session[w.for])
    BY <2>3 DEF safe_to_delete
  <2> QED
    BY <2>2, <2>3, <2>4 DEF Moved
<1>5. ASSUME NEW w \in NewWork(now)
      PROVE  /\ w \in Item
             /\ w.doing = "send" =>
                  now[w.for].send_work_queued /\ ~session[w.for].send_work_queued
             /\ w.doing = "close" =>
                  now[w.for].close_work_queued /\ ~session[w.for].close_work_queued
  BY <1>5 DEF NewWork, Item
<1>6. httpd \notin NewWork(now)
  <2> SUFFICES ASSUME httpd \in NewWork(now) PROVE FALSE
    OBVIOUS
  <2>1. httpd.doing \in {"send", "close"}
    BY <1>5 DEF Item
  <2>2. /\ httpd.doing = "send" => session[httpd.for].send_work_queued
        /\ httpd.doing = "close" => session[httpd.for].close_work_queued
    BY DEF Shared
  <2> QED
    BY <1>5, <2>1, <2>2
<1>7. \A w \in work' \cup {httpd'} :
        /\ w.doing = "send" => now[w.for].send_work_queued
        /\ w.doing = "close" => now[w.for].close_work_queued
  BY <1>1, <1>4, <1>5
<1>8. work' \subseteq Item /\ httpd' \notin work'
  BY <1>1, <1>5, <1>6 DEF Shared
<1>9. \A f \in down' : ctx'[f] \in Session /\ now[ctx'[f]].close_requested
  <2> TAKE f \in down'
  <2>1. f \in Socket /\ ctx[f] \in Session /\ session[ctx[f]].close_requested
    BY <1>1 DEF Shared
  <2> QED
    BY <1>1, <1>3, <2>1
<1>10. \A f \in Socket, s \in Session : ctx'[f] = s => now[s].fd = f
  BY <1>1, <1>3
<1>11. /\ ctx' \in [Socket -> Session \cup {OTHER_CLIENT, NONE}] /\ down' \subseteq Socket
       /\ httpd' \in Item \cup {IDLE} \cup [doing : {"wake"}, for : Session]
  BY <1>1 DEF Shared
<1>12. httpd'.doing = "send" => now[httpd'.for].send_result # 0
  <2> SUFFICES ASSUME httpd.doing = "send" PROVE now[httpd.for].send_result # 0
    BY <1>1
  <2>1. /\ httpd.for \in Session /\ session[httpd.for].send_work_queued
        /\ session[httpd.for].send_result # 0
    BY DEF Shared, Item, IDLE
  <2>2. ~safe_to_delete(session[httpd.for])
    BY <2>1 DEF safe_to_delete
  <2> QED
    BY <2>1, <2>2 DEF Moved
<1>13. NotForNothing
  <2> SUFFICES ASSUME NEW s \in Session, ~session[s].close_requested, now[s].close_requested
               PROVE  Stuck(session[s])
    BY <1>1 DEF NotForNothing
  <2>1. now[s] # Free
    BY FreeOK DEF Free
  <2> QED
    BY <2>1 DEF Moved
<1>14. Shared'
  BY <1>1, <1>2, <1>7, <1>8, <1>9, <1>10, <1>11, <1>12 DEF Shared
<1> QED
  BY <1>13, <1>14

\* One session of Shared
LEMMA SharedSession ==
  ASSUME Shared, NEW s \in Session
  PROVE  /\ SessionOK(session[s]) /\ session[s] \in Response /\ Served(session[s])
         /\ session[s].place = "free" => safe_to_delete(session[s])
         /\ Moved(session[s], session[s])
BY DEF Shared, Moved

LEMMA PassBeginKeeps ==
  ASSUME Shared, Round, PassBegin
  PROVE  Shared' /\ Round' /\ NotForNothing
<1>1. PICK io \in [Session -> IO] : Update([s \in Session |-> Adopt(session[s], io[s])])
  BY DEF PassBegin
<1> DEFINE now == [s \in Session |-> Adopt(session[s], io[s])]
<1>2. \A s \in Session : Moved(session[s], now[s])
  BY SharedSession, AdoptMoves
<1>3. now \in [Session -> Response]
  BY <1>2 DEF Moved, SessionOK
<1>4. Update(now) /\ UNCHANGED <<ctx, down, httpd>>
  BY <1>1 DEF PassBegin
<1> HIDE DEF now
<1>5. Shared' /\ NotForNothing
  BY <1>2, <1>3, <1>4, MovedKeepsShared
<1>6. visiting' = Adopted(session') /\ listing' = NONE
  BY DEF PassBegin, Between
<1>7. looping' \in {"on", "leaving", "off"} /\ wake' \in BOOLEAN
  BY DEF PassBegin, Leave, Round
<1>8. visiting' \subseteq Adopted(session)' /\ listing' \in Adopted(session)' \cup {NONE}
  BY <1>6 DEF Adopted
<1> QED
  BY <1>5, <1>7, <1>8 DEF Round

LEMMA VisitKeeps ==
  ASSUME Shared, Round, NEW s \in Session, Visit(s)
  PROVE  Shared' /\ Round' /\ NotForNothing
<1> DEFINE r == session[s]
<1>1. PICK io \in IO :
        LET sent == process_deferred_queue(process_buffer(r, io), io)
            one == IF safe_to_delete(r) THEN Free
                   ELSE IF r.close_requested THEN process_close(r, io)
                   ELSE sent
        IN  /\ Update([session EXCEPT ![s] = one])
            /\ listing' = IF safe_to_delete(r) \/ one.close_requested THEN NONE ELSE s
  BY DEF Visit
<1> DEFINE buffered == process_buffer(r, io)
           sent == process_deferred_queue(buffered, io)
           one == IF safe_to_delete(r) THEN Free
                  ELSE IF r.close_requested THEN process_close(r, io)
                  ELSE sent
           now == [session EXCEPT ![s] = one]
<1>2. /\ SessionOK(r) /\ (r.place = "free" => safe_to_delete(r))
      /\ session \in [Session -> Response] /\ visiting \subseteq Adopted(session)
  BY SharedSession DEF Shared, Round
<1>3. r.place = "adopted" /\ s \in visiting /\ listing = NONE
  BY <1>2 DEF Visit, Adopted
<1>4. /\ Keeps(r, process_close(r, io)) /\ Carries(r, process_close(r, io))
      /\ Keeps(r, buffered) /\ Carries(r, buffered)
  BY <1>2, CloseSends, BufferSends DEF Sends
<1>5. Keeps(r, sent) /\ Carries(r, sent)
  <2> HIDE DEF buffered, r
  <2>1. Keeps(buffered, sent) /\ Carries(buffered, sent)
    BY <1>4, DeferredQueueKeeps DEF Keeps
  <2> QED
    BY <1>4, <2>1, KeepsTwice, CarriesTwice DEF Keeps
<1>6. /\ Update(now) /\ visiting' = visiting \ {s}
      /\ listing' = IF safe_to_delete(r) \/ one.close_requested THEN NONE ELSE s
      /\ UNCHANGED <<ctx, down, httpd, wake>>
      /\ looping' = looping \/ looping' = "leaving"
  BY <1>1 DEF Visit, Leave
<1> HIDE DEF sent
<1>7. Moved(r, one) /\ (~safe_to_delete(r) => one.place = "adopted")
  <2> DEFINE closed == process_close(r, io)
  <2>1. one = IF safe_to_delete(r) THEN Free ELSE IF r.close_requested THEN closed ELSE sent
    OBVIOUS
  <2> HIDE DEF closed, one, r
  <2>2. /\ Moved(r, closed) /\ Moved(r, sent)
        /\ closed.place = r.place /\ sent.place = r.place
    BY <1>3, <1>4, <1>5, KeptInPlace, WholeStays DEF closed
  <2>3. safe_to_delete(r) => Moved(r, Free)
    BY FreeOK DEF Moved, Served
  <2> QED
    BY <1>3, <2>1, <2>2, <2>3
<1>8. one \in Response
  BY <1>7 DEF Moved, SessionOK
<1> HIDE DEF one
<1>9. now \in [Session -> Response] /\ \A t \in Session : now[t] = IF t = s THEN one ELSE session[t]
  BY <1>2, <1>8
<1>10. \A t \in Session : Moved(session[t], now[t])
  BY <1>7, <1>9, SharedSession
<1>11. session' = now
  BY <1>6 DEF Update
<1> HIDE DEF now
<1>12. Shared' /\ NotForNothing
  BY <1>6, <1>9, <1>10, MovedKeepsShared
<1>13. visiting' \subseteq Adopted(now) /\ listing' \in Adopted(now) \cup {NONE}
  BY <1>2, <1>6, <1>7, <1>9 DEF Adopted
<1>14. looping' \in {"on", "leaving", "off"} /\ wake' \in BOOLEAN
  BY <1>6 DEF Round
<1>15. visiting' \subseteq Adopted(session)' /\ listing' \in Adopted(session)' \cup {NONE}
  BY <1>11, <1>13 DEF Adopted
<1> QED
  BY <1>12, <1>14, <1>15 DEF Round

\* A step of the main loop that adopts and deletes nothing
LEMMA SamePlaces ==
  ASSUME Shared, Round, NEW now \in [Session -> Response],
         \A s \in Session : Moved(session[s], now[s]) /\ now[s].place = session[s].place,
         Update(now), UNCHANGED <<ctx, down, httpd>>,
         visiting' = visiting, listing' \in {listing, NONE},
         looping' \in {looping, "leaving"}, wake' = wake
  PROVE  Shared' /\ Round' /\ NotForNothing
<1>1. Shared' /\ NotForNothing
  BY MovedKeepsShared
<1>2. session' = now
  BY DEF Update
<1>3. Adopted(now) = Adopted(session)
  BY DEF Adopted
<1>4. visiting' \subseteq Adopted(now) /\ listing' \in Adopted(now) \cup {NONE}
  BY <1>3 DEF Round
<1>5. visiting' \subseteq Adopted(session)' /\ listing' \in Adopted(session)' \cup {NONE}
  BY <1>2, <1>4 DEF Adopted
<1>6. looping' \in {"on", "leaving", "off"} /\ wake' \in BOOLEAN
  BY DEF Round
<1> QED
  BY <1>1, <1>5, <1>6 DEF Round

LEMMA PublishKeeps ==
  ASSUME Shared, Round, NEW x \in Source, Publish(x)
  PROVE  Shared' /\ Round' /\ NotForNothing
<1>1. PICK io \in [Session -> IO] :
        Update([s \in Session |-> LET r == session[s] IN
                  IF r.place = "adopted" /\ r.fd # NONE THEN Published(r, x, io[s]) ELSE r])
  BY DEF Publish
<1> DEFINE one(s) == IF session[s].place = "adopted" /\ session[s].fd # NONE
                     THEN Published(session[s], x, io[s]) ELSE session[s]
           now == [s \in Session |-> one(s)]
<1>2. ASSUME NEW s \in Session
      PROVE  Moved(session[s], one(s)) /\ one(s).place = session[s].place /\ one(s) \in Response
  <2>1. CASE session[s].place = "adopted" /\ session[s].fd # NONE
    <3>1. /\ Keeps(session[s], Published(session[s], x, io[s]))
          /\ Whole(session[s]) => Whole(Published(session[s], x, io[s]))
      BY SharedSession, PublishedKeeps
    <3> QED
      BY <2>1, <3>1, KeptInPlace
  <2>2. CASE ~(session[s].place = "adopted" /\ session[s].fd # NONE)
    BY <2>2, SharedSession
  <2> QED
    BY <2>1, <2>2
<1>3. Update(now)
  BY <1>1
<1> HIDE DEF one
<1>4. now \in [Session -> Response] /\ \A s \in Session : now[s] = one(s)
  BY <1>2
<1>5. /\ UNCHANGED <<ctx, down, httpd>> /\ visiting' = visiting /\ listing' = listing
      /\ looping' = looping /\ wake' = wake
  BY DEF Publish
<1> HIDE DEF now
<1> QED
  BY <1>2, <1>3, <1>4, <1>5, SamePlaces

LEMMA BroadcastKeeps ==
  ASSUME Shared, Round, Broadcast
  PROVE  Shared' /\ Round' /\ NotForNothing
<1>1. PICK io \in [Session -> IO] :
        Update([s \in Session |-> LET r == session[s] IN
                  IF r.place = "adopted" THEN try_send_nodefer(r, NONE, io[s]) ELSE r])
  BY DEF Broadcast
<1> DEFINE one(s) == IF session[s].place = "adopted"
                     THEN try_send_nodefer(session[s], NONE, io[s]) ELSE session[s]
           now == [s \in Session |-> one(s)]
<1>2. ASSUME NEW s \in Session
      PROVE  Moved(session[s], one(s)) /\ one(s).place = session[s].place /\ one(s) \in Response
  <2>1. CASE session[s].place = "adopted"
    <3>1. /\ Keeps(session[s], try_send_nodefer(session[s], NONE, io[s]))
          /\ Whole(session[s]) => Whole(try_send_nodefer(session[s], NONE, io[s]))
      BY SharedSession, NodeferSends, WholeStays DEF Sends
    <3> QED
      BY <2>1, <3>1, KeptInPlace
  <2>2. CASE session[s].place # "adopted"
    BY <2>2, SharedSession
  <2> QED
    BY <2>1, <2>2
<1>3. Update(now)
  BY <1>1
<1> HIDE DEF one
<1>4. now \in [Session -> Response] /\ \A s \in Session : now[s] = one(s)
  BY <1>2
<1>5. /\ UNCHANGED <<ctx, down, httpd>> /\ visiting' = visiting /\ listing' = listing
      /\ looping' = looping /\ wake' = wake
  BY DEF Broadcast
<1> HIDE DEF now
<1> QED
  BY <1>2, <1>3, <1>4, <1>5, SamePlaces

\* Another listing: what it leaves out is accounted for no more.
LEMMA ToListKeeps ==
  ASSUME NEW r, SessionOK(r), NEW left \in SUBSET (Source \cup {NONE})
  PROVE  /\ Keeps(r, [r EXCEPT !.to_list = left])
         /\ \A y \in Source : Accounted(r, y) =>
              y \in r.to_list \ left \/ Accounted([r EXCEPT !.to_list = left], y)
<1> DEFINE t == [r EXCEPT !.to_list = left]
<1>1. r \in Response
  BY DEF SessionOK
<1>2. t \in Response
  BY <1>1 DEF Response
<1>3. /\ t.place = r.place /\ t.fd = r.fd /\ t.deferred_queue = r.deferred_queue
      /\ t.send_work_queued = r.send_work_queued
      /\ t.send_result_pending = r.send_result_pending
      /\ t.close_work_queued = r.close_work_queued
      /\ t.event_buffer = r.event_buffer
      /\ t.close_requested = r.close_requested /\ t.send_result = r.send_result
      /\ t.quiet = r.quiet /\ t.stalled = r.stalled
      /\ t.latest = r.latest /\ t.to_list = left /\ t.missed = r.missed
  BY <1>1 DEF Response
<1> HIDE DEF t
<1>4. Keeps(r, t)
  BY <1>2, <1>3, OtherFieldKeeps
<1>5. \A y \in Source : Has(r, y) <=> Has(t, y)
  BY <1>3 DEF Has
<1>6. \A y \in Source : Accounted(r, y) => y \in r.to_list \ left \/ Accounted(t, y)
  BY <1>3, <1>5 DEF Accounted
<1> QED
  BY <1>4, <1>6 DEF t

LEMMA ListedMoves ==
  ASSUME Shared, NEW s \in Session, session[s].place = "adopted", NEW x \in Source, NEW io
  PROVE  /\ Listed(s, x, io) \in [Session -> Response]
         /\ \A t \in Session : /\ Moved(session[t], Listed(s, x, io)[t])
                               /\ Listed(s, x, io)[t].place = session[t].place
<1> DEFINE event == [source |-> x, kind |-> "state_detail_all"]
           r(t) == IF t = s THEN [session[t] EXCEPT !.to_list = @ \ {x}] ELSE session[t]
           one(t) == IF r(t).place = "adopted" /\ r(t).fd # NONE
                     THEN deferrable_send_state(r(t), event, io[t]) ELSE r(t)
<1>1. event \in Event /\ event.source = x /\ event.kind # "state"
  BY DEF Event
<1>2. ASSUME NEW t \in Session
      PROVE  Moved(session[t], one(t)) /\ one(t).place = session[t].place /\ one(t) \in Response
  <2>1. session[t] \in Response /\ SessionOK(session[t])
    BY SharedSession
  <2>2. /\ Keeps(session[t], r(t))
        /\ \A y \in Source : Accounted(session[t], y) => y = x \/ Accounted(r(t), y)
    <3>1. CASE t = s
      <4> DEFINE left == session[t].to_list \ {x}
      <4>1. left \in SUBSET (Source \cup {NONE})
        BY <2>1 DEF Response
      <4> HIDE DEF left
      <4>2. /\ Keeps(session[t], [session[t] EXCEPT !.to_list = left])
            /\ \A y \in Source : Accounted(session[t], y) =>
                 \/ y \in session[t].to_list \ left
                 \/ Accounted([session[t] EXCEPT !.to_list = left], y)
        BY <2>1, <4>1, ToListKeeps
      <4>3. \A y \in session[t].to_list \ left : y = x
        BY DEF left
      <4> QED
        BY <3>1, <4>2, <4>3 DEF left
    <3>2. CASE t # s
      BY <2>1, <3>2, KeepsSelf
    <3> QED
      BY <3>1, <3>2
  <2>3. CASE session[t].place = "adopted"
    <3> HIDE DEF r, event
    <3> DEFINE d == deferrable_send_state(r(t), event, io[t])
    <3>1. /\ Keeps(r(t), d) /\ Carries(r(t), d)
          /\ ~d.close_requested => Accounted(d, x)
      BY <1>1, <2>2, DeferrableKeeps DEF Keeps
    <3>2. one(t) = IF r(t).place = "adopted" /\ r(t).fd # NONE THEN d ELSE r(t)
      OBVIOUS
    <3> HIDE DEF d, one
    <3>3. Keeps(session[t], d)
      BY <2>2, <3>1, KeepsTwice
    <3>4. Whole(session[t]) => Whole(d)
      <4>1. ~d.close_requested => ~session[t].close_requested
        BY <3>3 DEF Keeps, Kept, Raised
      <4> QED
        BY <2>2, <3>1, <4>1 DEF Whole, Carries
    <3>5. r(t).place = "adopted"
      BY <2>2, <2>3 DEF Keeps, Kept, Raised
    <3> QED
      BY <2>2, <2>3, <3>2, <3>3, <3>4, <3>5, KeptInPlace
  <2>4. CASE session[t].place # "adopted"
    <3>1. one(t) = session[t]
      BY <2>4
    <3> QED
      BY <3>1, SharedSession
  <2> QED
    BY <2>3, <2>4
<1>3. Listed(s, x, io) = [t \in Session |-> one(t)]
  BY DEF Listed
<1> HIDE DEF one
<1> QED
  BY <1>2, <1>3

\* The session whose turn it is sends a group, or gets on with its listing.
LEMMA ListKeeps ==
  ASSUME Shared, Round, List
  PROVE  Shared' /\ Round' /\ NotForNothing
<1> DEFINE r == session[listing]
<1>1. listing \in Session /\ r.place = "adopted" /\ listing # NONE
  BY DEF List, Round, Adopted
<1>2. SessionOK(r) /\ r \in Response /\ session \in [Session -> Response]
  BY <1>1, SharedSession DEF Shared
<1>3. /\ UNCHANGED <<ctx, down, httpd>> /\ visiting' = visiting /\ listing' \in {listing, NONE}
      /\ looping' \in {looping, "leaving"} /\ wake' = wake
  BY DEF List, Leave
<1>4. ASSUME NEW one, Keeps(r, one), Whole(r) => Whole(one),
             Update([session EXCEPT ![listing] = one])
      PROVE  Shared' /\ Round' /\ NotForNothing
  <2> DEFINE now == [session EXCEPT ![listing] = one]
  <2>1. Moved(r, one) /\ one.place = r.place /\ one \in Response
    BY <1>1, <1>4, KeptInPlace
  <2>2. /\ now \in [Session -> Response]
        /\ \A t \in Session : now[t] = IF t = listing THEN one ELSE session[t]
    BY <1>1, <1>2, <2>1
  <2>3. \A t \in Session : Moved(session[t], now[t]) /\ now[t].place = session[t].place
    BY <2>1, <2>2, SharedSession
  <2>4. Update(now)
    BY <1>4
  <2> HIDE DEF now
  <2> QED
    BY <1>3, <2>2, <2>3, <2>4, SamePlaces
<1>5. PICK io \in [Session -> IO] :
        IF r.sorting_group_index < Groups
        THEN Update([session EXCEPT ![listing] = Grouped(r, io[listing])])
        ELSE IF r.to_list = {} THEN Update(session)
        ELSE IF r.to_list = {NONE} THEN Update([session EXCEPT ![listing].to_list = {}])
        ELSE \E x \in r.to_list \ {NONE} : Update(Listed(listing, x, io))
  BY DEF List
<1>6. CASE r.sorting_group_index < Groups
  <2>1. /\ Keeps(r, Grouped(r, io[listing]))
        /\ Whole(r) => Whole(Grouped(r, io[listing]))
    BY <1>2, <1>6, GroupedKeeps, WholeStays
  <2> QED
    BY <1>4, <1>5, <1>6, <2>1
<1>7. CASE ~(r.sorting_group_index < Groups) /\ r.to_list = {}
  <2>1. Update(session)
    BY <1>5, <1>7
  <2> QED
    BY <1>2, <1>3, <2>1, SamePlaces, SharedSession
<1>8. CASE ~(r.sorting_group_index < Groups) /\ r.to_list = {NONE}
  <2> DEFINE one == [r EXCEPT !.to_list = {}]
  <2>1. /\ Keeps(r, one)
        /\ \A y \in Source : Accounted(r, y) => y \in r.to_list \ {} \/ Accounted(one, y)
    BY <1>2, ToListKeeps
  <2>2. Update([session EXCEPT ![listing] = one])
    BY <1>5, <1>8
  <2> HIDE DEF one
  <2>3. \A y \in Source : y \notin r.to_list
    BY <1>8, EventSourceAssumption
  <2>4. ~one.close_requested => ~r.close_requested
    BY <2>1 DEF Keeps, Kept, Raised
  <2>5. Whole(r) => Whole(one)
    BY <2>1, <2>3, <2>4 DEF Whole
  <2> QED
    BY <1>4, <2>1, <2>2, <2>5
<1>9. CASE ~(r.sorting_group_index < Groups) /\ r.to_list # {} /\ r.to_list # {NONE}
  <2>1. PICK x \in r.to_list \ {NONE} : Update(Listed(listing, x, io))
    BY <1>5, <1>9
  <2>2. x \in Source
    BY <1>2, <2>1 DEF Response
  <2>3. /\ Listed(listing, x, io) \in [Session -> Response]
        /\ \A t \in Session : /\ Moved(session[t], Listed(listing, x, io)[t])
                              /\ Listed(listing, x, io)[t].place = session[t].place
    BY <1>1, <2>2, ListedMoves
  <2> QED
    BY <1>3, <2>1, <2>3, SamePlaces
<1> QED
  BY <1>6, <1>7, <1>8, <1>9

LEMMA TickKeeps ==
  ASSUME Shared, Round, Tick
  PROVE  Shared' /\ Round' /\ NotForNothing
<1> DEFINE
      Less(n) == IF n = 0 THEN 0 ELSE n - 1
      More(n) == IF n = SEND_STALL_TIMEOUT THEN n ELSE n + 1
      send_wait(r) == Less(r.send_wait)
      close_wait(r) == Less(r.close_wait)
      stalled(r) == IF r.stalled = -1 THEN r.stalled ELSE More(r.stalled)
      quiet(r) == IF r.event_buffer = NONE THEN r.quiet ELSE More(r.quiet)
      Later(r) == [r EXCEPT !.dispatched = FALSE,
                            !.send_wait = send_wait(r), !.close_wait = close_wait(r),
                            !.stalled = stalled(r), !.quiet = quiet(r)]
      now == [s \in Session |-> Later(session[s])]
<1>1. session' = now
  BY DEF Tick
<1>2. /\ UNCHANGED <<ctx, down, httpd>> /\ work' = work
      /\ visiting' = visiting /\ listing' = listing
      /\ looping' = looping /\ wake' = wake
  BY DEF Tick
<1>3. ASSUME NEW r, SessionOK(r)
      PROVE  /\ SessionOK(Later(r)) /\ Raised(r, Later(r)) /\ Carries(r, Later(r))
             /\ Later(r).close_requested = r.close_requested
             /\ Later(r).send_work_queued = r.send_work_queued
             /\ Later(r).close_work_queued = r.close_work_queued
  <2>1. r \in Response /\ r.send_wait \in 0 .. RETRY_INTERVAL
        /\ r.close_wait \in 0 .. CLOSE_CONFIRM_INTERVAL
        /\ r.stalled \in -1 .. SEND_STALL_TIMEOUT /\ r.quiet \in 0 .. SEND_STALL_TIMEOUT
    BY <1>3 DEF SessionOK, Response
  <2>2. /\ send_wait(r) \in 0 .. RETRY_INTERVAL
        /\ close_wait(r) \in 0 .. CLOSE_CONFIRM_INTERVAL
        /\ stalled(r) \in -1 .. SEND_STALL_TIMEOUT
        /\ quiet(r) \in 0 .. SEND_STALL_TIMEOUT
    BY <2>1, EventSourceAssumption
  <2>3. ~r.close_requested /\ stalled(r) # -1 =>
          r.event_buffer # NONE /\ stalled(r) <= quiet(r)
    <3>1. ~r.close_requested /\ r.stalled # -1 => r.event_buffer # NONE /\ r.stalled <= r.quiet
      BY <1>3 DEF SessionOK
    <3>2. CASE r.stalled = -1
      BY <3>2
    <3>3. CASE r.stalled # -1 /\ r.event_buffer = NONE
      BY <3>1, <3>3
    <3>4. CASE r.stalled # -1 /\ r.event_buffer # NONE
      <4>1. stalled(r) = More(r.stalled) /\ quiet(r) = More(r.quiet)
        BY <3>4
      <4> QED
        BY <2>1, <3>1, <3>4, <4>1, EventSourceAssumption
    <3> QED
      BY <3>2, <3>3, <3>4
  <2> HIDE DEF send_wait, close_wait, stalled, quiet
  <2>4. Later(r) \in Response
    BY <2>1, <2>2 DEF Response
  <2>5. /\ Later(r).place = r.place /\ Later(r).fd = r.fd
        /\ Later(r).deferred_queue = r.deferred_queue
        /\ Later(r).send_work_queued = r.send_work_queued
        /\ Later(r).send_result_pending = r.send_result_pending
        /\ Later(r).close_work_queued = r.close_work_queued
        /\ Later(r).event_buffer = r.event_buffer
        /\ Later(r).close_requested = r.close_requested
        /\ Later(r).send_result = r.send_result
        /\ Later(r).stalled = stalled(r) /\ Later(r).quiet = quiet(r)
        /\ Later(r).latest = r.latest /\ Later(r).to_list = r.to_list
        /\ Later(r).missed = r.missed
    BY <2>1 DEF Response
  <2> HIDE DEF Later
  <2> QED
    BY <1>3, <2>3, <2>4, <2>5, SameCarries DEF SessionOK, Raised
<1> HIDE DEF Later
<1>4. /\ now \in [Session -> Response]
      /\ \A s \in Session : /\ Moved(session[s], now[s])
                            /\ now[s].place = session[s].place
                            /\ now[s].send_work_queued = session[s].send_work_queued
                            /\ now[s].close_work_queued = session[s].close_work_queued
  <2>1. ASSUME NEW s \in Session
        PROVE  /\ Later(session[s]) \in Response
               /\ Moved(session[s], Later(session[s]))
               /\ Later(session[s]).place = session[s].place
               /\ Later(session[s]).send_work_queued = session[s].send_work_queued
               /\ Later(session[s]).close_work_queued = session[s].close_work_queued
    <3>1. SessionOK(session[s]) /\ (session[s].place = "free" => safe_to_delete(session[s]))
      BY SharedSession
    <3>2. Served(session[s]) => Served(Later(session[s]))
      BY <1>3, <3>1 DEF Carries, Served, Whole, Raised
    <3> QED
      BY <1>3, <3>1, <3>2 DEF Raised, Moved, SessionOK, safe_to_delete
  <2> QED
    BY <2>1
<1>5. NewWork(now) = {}
  BY <1>4 DEF NewWork
<1> HIDE DEF now
<1>6. Update(now)
  BY <1>1, <1>2, <1>5 DEF Update
<1> QED
  BY <1>2, <1>4, <1>6, SamePlaces

------------------------------------------------------------------------------
(* The HTTPD task.                                                         *)

\* A new value of one session, for the steps of HTTPD
LEMMA OneSession ==
  ASSUME Shared, Round, NEW s \in Session, NEW one \in Response, SessionOK(one), Served(one),
         one.place = session[s].place \/ session[s].place = "free",
         one.place = "free" => safe_to_delete(one),
         one.close_requested => session[s].close_requested,
         session' = [session EXCEPT ![s] = one],
         visiting' = visiting, listing' = listing, looping' = looping,
         wake' \in BOOLEAN
  PROVE  /\ session' \in [Session -> Response]
         /\ \A t \in Session : session'[t] = IF t = s THEN one ELSE session[t]
         /\ \A t \in Session :
              /\ SessionOK(session'[t]) /\ Served(session'[t])
              /\ session'[t].place = "free" => safe_to_delete(session'[t])
         /\ Round' /\ NotForNothing
<1>1. session' \in [Session -> Response]
      /\ \A t \in Session : session'[t] = IF t = s THEN one ELSE session[t]
  BY DEF Shared
<1>2. Adopted(session) \subseteq Adopted(session)'
  BY <1>1 DEF Adopted
<1>3. Round'
  BY <1>2 DEF Round
<1>4. NotForNothing
  BY <1>1 DEF NotForNothing
<1> QED
  BY <1>1, <1>3, <1>4, SharedSession

LEMMA AcceptKeeps ==
  ASSUME Shared, Round, NEW f \in Socket, NEW s \in Session, HttpdAccept(f, s)
  PROVE  Shared' /\ Round' /\ NotForNothing
<1> DEFINE one == [Free EXCEPT !.place = "parked", !.fd = f]
<1>1. /\ httpd = IDLE /\ ctx[f] = NONE /\ session[s].place = "free"
      /\ session' = [session EXCEPT ![s] = one] /\ ctx' = [ctx EXCEPT ![f] = s]
      /\ httpd' = [doing |-> "wake", for |-> s]
      /\ down' = down /\ work' = work /\ visiting' = visiting /\ listing' = listing
      /\ looping' = looping /\ wake' = wake
  BY DEF HttpdAccept
<1>2. safe_to_delete(session[s])
  BY <1>1, SharedSession
<1>3. Free \in Response
  BY FreeOK DEF SessionOK
<1>4. one \in Response
  BY <1>3 DEF Response
<1>5. /\ one.place = "parked" /\ one.fd = f /\ one.deferred_queue = <<>>
      /\ one.event_buffer = NONE /\ ~one.send_work_queued /\ ~one.close_work_queued
      /\ one.send_result = 0 /\ ~one.send_result_pending
      /\ one.stalled = -1 /\ ~one.close_requested
  BY DEF Free
<1> HIDE DEF one
<1>6. SessionOK(one) /\ Served(one)
  BY <1>4, <1>5, EmptyQueue DEF SessionOK, Served
<1>7. wake' \in BOOLEAN
  BY <1>1 DEF Round
<1>8. /\ session' \in [Session -> Response]
      /\ \A t \in Session : session'[t] = IF t = s THEN one ELSE session[t]
      /\ \A t \in Session :
           /\ SessionOK(session'[t]) /\ Served(session'[t])
           /\ session'[t].place = "free" => safe_to_delete(session'[t])
      /\ Round' /\ NotForNothing
  BY <1>1, <1>4, <1>5, <1>6, <1>7, OneSession
<1>9. ctx' \in [Socket -> Session \cup {OTHER_CLIENT, NONE}]
      /\ \A g \in Socket : ctx'[g] = IF g = f THEN s ELSE ctx[g]
  BY <1>1 DEF Shared
<1>10. \A g \in Socket, t \in Session : ctx'[g] = t => session'[t].fd = g
  <2> SUFFICES ASSUME NEW g \in Socket, NEW t \in Session, ctx'[g] = t
               PROVE  session'[t].fd = g
    OBVIOUS
  <2>1. CASE g = f
    BY <1>5, <1>8, <1>9, <2>1
  <2>2. CASE g # f
    <3>1. ctx[g] = t /\ session[t].fd = g /\ g # NONE
      BY <1>9, <2>2, EventSourceAssumption DEF Shared
    <3>2. t # s
      BY <1>2, <3>1 DEF safe_to_delete
    <3> QED
      BY <1>8, <3>1, <3>2
  <2> QED
    BY <2>1, <2>2
<1>11. \A w \in work' \cup {httpd'} :
         /\ w.doing = "send" => session'[w.for].send_work_queued
         /\ w.doing = "close" => session'[w.for].close_work_queued
  <2> SUFFICES ASSUME NEW w \in work, w.doing \in {"send", "close"}
               PROVE  /\ w.doing = "send" => session'[w.for].send_work_queued
                      /\ w.doing = "close" => session'[w.for].close_work_queued
    BY <1>1
  <2>1. w.for \in Session
    BY DEF Shared, Item
  <2>2. /\ w.doing = "send" => session[w.for].send_work_queued
        /\ w.doing = "close" => session[w.for].close_work_queued
    BY DEF Shared
  <2>3. w.for # s
    BY <1>2, <2>2 DEF safe_to_delete
  <2> QED
    BY <1>8, <2>1, <2>2, <2>3
<1>12. httpd' \notin work' /\ httpd' \in [doing : {"wake"}, for : Session]
  BY <1>1 DEF Shared, Item
<1>13. \A g \in down' : ctx'[g] \in Session /\ session'[ctx'[g]].close_requested
  <2> SUFFICES ASSUME NEW g \in down
               PROVE  ctx'[g] \in Session /\ session'[ctx'[g]].close_requested
    BY <1>1
  <2>1. g \in Socket /\ ctx[g] \in Session /\ session[ctx[g]].close_requested
    BY DEF Shared
  <2>2. session[ctx[g]].fd = g /\ g # NONE
    BY <2>1, EventSourceAssumption DEF Shared
  <2>3. g # f /\ ctx[g] # s
    BY <1>1, <1>2, <2>1, <2>2, EventSourceAssumption DEF safe_to_delete
  <2> QED
    BY <1>8, <1>9, <2>1, <2>3
<1> QED
  BY <1>1, <1>8, <1>9, <1>10, <1>11, <1>12, <1>13 DEF Shared

LEMMA AcceptOtherKeeps ==
  ASSUME Shared, Round, NEW f \in Socket, HttpdAcceptOther(f)
  PROVE  Shared' /\ Round' /\ NotForNothing
<1>1. /\ httpd = IDLE /\ ctx[f] = NONE /\ ctx' = [ctx EXCEPT ![f] = OTHER_CLIENT]
      /\ session' = session /\ down' = down /\ work' = work /\ httpd' = httpd
      /\ visiting' = visiting /\ listing' = listing /\ looping' = looping /\ wake' = wake
  BY DEF HttpdAcceptOther
<1>2. /\ ctx' \in [Socket -> Session \cup {OTHER_CLIENT, NONE}]
      /\ \A g \in Socket : ctx'[g] = IF g = f THEN OTHER_CLIENT ELSE ctx[g]
  BY <1>1 DEF Shared
<1>3. OTHER_CLIENT \notin Session /\ NONE \notin Session
  BY EventSourceAssumption
<1>4. \A g \in Socket, t \in Session : ctx'[g] = t => session'[t].fd = g
  BY <1>1, <1>2, <1>3 DEF Shared
<1>5. \A g \in down' : ctx'[g] \in Session /\ session'[ctx'[g]].close_requested
  BY <1>1, <1>2, <1>3 DEF Shared
<1>6. Shared'
  BY <1>1, <1>2, <1>4, <1>5 DEF Shared, IDLE
<1> QED
  BY <1>1, <1>6 DEF Round, Adopted, NotForNothing

LEMMA WakeKeeps ==
  ASSUME Shared, Round, HttpdWake
  PROVE  Shared' /\ Round' /\ NotForNothing
<1>1. /\ httpd' = IDLE /\ wake' = TRUE /\ ctx' = ctx
      /\ session' = session /\ down' = down /\ work' = work
      /\ visiting' = visiting /\ listing' = listing /\ looping' = looping
  BY DEF HttpdWake
<1>2. IDLE.doing = "idle" /\ IDLE \notin work
  BY DEF IDLE, Shared, Item
<1>3. Shared'
  BY <1>1, <1>2 DEF Shared
<1> QED
  BY <1>1, <1>3 DEF Round, Adopted, NotForNothing

LEMMA HttpdCloseKeeps ==
  ASSUME Shared, Round, NEW f \in Socket, HttpdClose(f)
  PROVE  Shared' /\ Round' /\ NotForNothing
<1> DEFINE one(s) == IF ctx[f] = s THEN [session[s] EXCEPT !.fd = NONE] ELSE session[s]
<1>1. /\ session' = [s \in Session |-> one(s)]
      /\ ctx' = [ctx EXCEPT ![f] = NONE] /\ down' = down \ {f}
      /\ work' = work /\ httpd' = httpd /\ httpd = IDLE
      /\ visiting' = visiting /\ listing' = listing /\ looping' = looping /\ wake' = wake
  BY DEF HttpdClose
<1>2. ASSUME NEW s \in Session
      PROVE  /\ one(s) \in Response /\ SessionOK(one(s))
             /\ Served(one(s)) /\ one(s).place = session[s].place
             /\ one(s).place = "free" => safe_to_delete(one(s))
             /\ one(s).send_work_queued = session[s].send_work_queued
             /\ one(s).close_work_queued = session[s].close_work_queued
             /\ one(s).close_requested = session[s].close_requested
             /\ ctx[f] # s => one(s).fd = session[s].fd
  <2>1. SessionOK(session[s]) /\ session[s] \in Response /\ Served(session[s])
        /\ (session[s].place = "free" => safe_to_delete(session[s]))
    BY SharedSession
  <2>2. CASE ctx[f] = s
    <3> DEFINE t == [session[s] EXCEPT !.fd = NONE]
    <3>1. t \in Response
      BY <2>1 DEF Response
    <3>2. /\ t.place = session[s].place /\ t.fd = NONE
          /\ t.deferred_queue = session[s].deferred_queue
          /\ t.send_work_queued = session[s].send_work_queued
          /\ t.send_result_pending = session[s].send_result_pending
          /\ t.close_work_queued = session[s].close_work_queued
          /\ t.event_buffer = session[s].event_buffer
          /\ t.close_requested = session[s].close_requested
          /\ t.send_result = session[s].send_result
          /\ t.quiet = session[s].quiet /\ t.stalled = session[s].stalled
          /\ t.latest = session[s].latest /\ t.to_list = session[s].to_list /\ t.missed = session[s].missed
      BY <2>1 DEF Response
    <3>3. one(s) = t
      BY <2>2
    <3> HIDE DEF t, one
    <3>4. SessionOK(t) /\ Served(t)
      BY <2>1, <3>1, <3>2 DEF SessionOK, Served
    <3> QED
      BY <2>1, <2>2, <3>1, <3>2, <3>3, <3>4 DEF safe_to_delete
  <2>3. CASE ctx[f] # s
    BY <2>1, <2>3
  <2> QED
    BY <2>2, <2>3
<1> HIDE DEF one
<1>3. session' \in [Session -> Response] /\ \A s \in Session : session'[s] = one(s)
  BY <1>1, <1>2
<1>4. /\ ctx' \in [Socket -> Session \cup {OTHER_CLIENT, NONE}]
      /\ \A g \in Socket : ctx'[g] = IF g = f THEN NONE ELSE ctx[g]
  BY <1>1 DEF Shared
<1>5. ASSUME NEW g \in Socket, NEW t \in Session, ctx'[g] = t
      PROVE  ctx[g] = t /\ session'[t].fd = g
  <2>1. g # f /\ ctx[g] = t
    BY <1>4, <1>5, EventSourceAssumption
  <2>2. session[t].fd = g
    BY <2>1 DEF Shared
  <2>3. ctx[f] # t
    BY <2>1, <2>2 DEF Shared
  <2> QED
    BY <1>2, <1>3, <2>1, <2>2, <2>3
<1>6. \A w \in work' \cup {httpd'} :
        /\ w.doing = "send" => session'[w.for].send_work_queued
        /\ w.doing = "close" => session'[w.for].close_work_queued
  <2> SUFFICES ASSUME NEW w \in work \cup {httpd}, w.doing \in {"send", "close"}
               PROVE  /\ w.doing = "send" => session'[w.for].send_work_queued
                      /\ w.doing = "close" => session'[w.for].close_work_queued
    BY <1>1
  <2>1. w.for \in Session
    BY DEF Shared, Item, IDLE
  <2> QED
    BY <1>2, <1>3, <2>1 DEF Shared
<1>7. \A g \in down' : ctx'[g] \in Session /\ session'[ctx'[g]].close_requested
  <2> TAKE g \in down'
  <2>1. g # f /\ g \in Socket /\ ctx[g] \in Session /\ session[ctx[g]].close_requested
    BY <1>1 DEF Shared
  <2> QED
    BY <1>2, <1>3, <1>4, <2>1
<1>8. \A s \in Session :
        /\ SessionOK(session'[s]) /\ Served(session'[s])
        /\ session'[s].place = "free" => safe_to_delete(session'[s])
  BY <1>2, <1>3
<1>9. down' \subseteq Socket /\ work' \subseteq Item /\ httpd' \notin work'
      /\ httpd' \in Item \cup {IDLE} \cup [doing : {"wake"}, for : Session]
  BY <1>1 DEF Shared
<1>10. Shared'
  <2>1. httpd'.doing # "send"
    BY <1>1 DEF IDLE
  <2> QED
    BY <1>3, <1>4, <1>5, <1>6, <1>7, <1>8, <1>9, <2>1 DEF Shared
<1>11. Adopted(session)' = Adopted(session)
  BY <1>2, <1>3 DEF Adopted
<1>12. NotForNothing
  BY <1>2, <1>3 DEF NotForNothing
<1> QED
  BY <1>1, <1>10, <1>11, <1>12 DEF Round

\* HTTPD takes an item of work: it is running then, and no longer queued.
LEMMA TakenWork ==
  ASSUME Shared, NEW item \in Item, item \in work, httpd' = item, work' = work \ {item}
  PROVE  /\ work' \subseteq Item /\ httpd' \notin work' /\ httpd' \in Item
         /\ work' \cup {httpd'} \subseteq work
BY DEF Shared

LEMMA SendKeeps ==
  ASSUME Shared, Round, NEW s \in Session, HttpdSend(s)
  PROVE  Shared' /\ Round' /\ NotForNothing
<1> DEFINE item == [doing |-> "send", for |-> s]
           r == session[s]
<1>1. /\ httpd = IDLE /\ item \in work /\ httpd' = item /\ work' = work \ {item}
      /\ ctx' = ctx /\ down' = down
      /\ visiting' = visiting /\ listing' = listing /\ looping' = looping /\ wake' = wake
  BY DEF HttpdSend
<1>2. PICK result \in IF OwnsSocket(s) THEN {TIMEOUT, FAIL} \cup (1 .. r.event_buffer.left)
                     ELSE {INVALID} :
        session' = [session EXCEPT ![s].send_result = result]
  BY DEF HttpdSend
<1>3. item \in Item /\ item.doing = "send" /\ item.for = s
  BY DEF Item
<1>4. SessionOK(r) /\ r \in Response /\ r.send_work_queued /\ Served(r)
      /\ (r.place = "free" => safe_to_delete(r))
  BY <1>1, <1>3, SharedSession DEF Shared
<1>5. r.event_buffer \in Buffer
  BY <1>4 DEF SessionOK, Response
<1>6. /\ result \in SendResult /\ result # 0
      /\ result > 0 => result <= r.event_buffer.left
  BY <1>2, <1>5, EventSourceAssumption DEF SendResult, Buffer, TIMEOUT, FAIL, INVALID
<1> DEFINE one == [r EXCEPT !.send_result = result]
<1>7. one \in Response
  BY <1>4, <1>6 DEF Response
<1>8. /\ one.place = r.place /\ one.fd = r.fd /\ one.deferred_queue = r.deferred_queue
      /\ one.send_work_queued = r.send_work_queued
      /\ one.send_result_pending = r.send_result_pending
      /\ one.close_work_queued = r.close_work_queued
      /\ one.event_buffer = r.event_buffer
      /\ one.close_requested = r.close_requested /\ one.send_result = result
      /\ one.quiet = r.quiet /\ one.stalled = r.stalled
      /\ one.latest = r.latest /\ one.to_list = r.to_list /\ one.missed = r.missed
  BY <1>4 DEF Response
<1>9. session' = [session EXCEPT ![s] = one]
  BY <1>2
<1> HIDE DEF one, item
<1>10. SessionOK(one) /\ Served(one)
  <2>1. SessionOK(one)
    BY <1>4, <1>6, <1>7, <1>8 DEF SessionOK
  <2>2. Carries(r, one)
    BY <1>8, SameCarries
  <2> QED
    BY <1>4, <1>8, <2>1, <2>2 DEF Served, Whole, Carries
<1>11. one.place = "free" => safe_to_delete(one)
  BY <1>4, <1>8 DEF safe_to_delete
<1>12. wake' \in BOOLEAN
  BY <1>1 DEF Round
<1>13. /\ session' \in [Session -> Response]
       /\ \A t \in Session : session'[t] = IF t = s THEN one ELSE session[t]
       /\ \A t \in Session :
            /\ SessionOK(session'[t]) /\ Served(session'[t])
            /\ session'[t].place = "free" => safe_to_delete(session'[t])
       /\ Round' /\ NotForNothing
  BY <1>1, <1>7, <1>8, <1>9, <1>10, <1>11, <1>12, OneSession
<1>14. \A t \in Session :
         /\ session'[t].fd = session[t].fd
         /\ session'[t].send_work_queued = session[t].send_work_queued
         /\ session'[t].close_work_queued = session[t].close_work_queued
         /\ session'[t].close_requested = session[t].close_requested
  BY <1>8, <1>13
<1>15. /\ work' \subseteq Item /\ httpd' \notin work' /\ httpd' \in Item
       /\ work' \cup {httpd'} \subseteq work
  BY <1>1, <1>3, TakenWork
<1>16. \A w \in work' \cup {httpd'} :
         /\ w.doing = "send" => session'[w.for].send_work_queued
         /\ w.doing = "close" => session'[w.for].close_work_queued
  BY <1>14, <1>15 DEF Shared, Item
<1>17. \A g \in Socket, t \in Session : ctx'[g] = t => session'[t].fd = g
  BY <1>1, <1>14 DEF Shared
<1>18. \A g \in down' : ctx'[g] \in Session /\ session'[ctx'[g]].close_requested
  BY <1>1, <1>14 DEF Shared
<1>19. ctx' \in [Socket -> Session \cup {OTHER_CLIENT, NONE}] /\ down' \subseteq Socket
  BY <1>1 DEF Shared
<1>20. httpd'.doing = "send" => session'[httpd'.for].send_result # 0
  BY <1>1, <1>3, <1>6, <1>8, <1>13
<1> QED
  BY <1>13, <1>15, <1>16, <1>17, <1>18, <1>19, <1>20 DEF Shared

LEMMA ShutdownKeeps ==
  ASSUME Shared, Round, NEW s \in Session, HttpdShutdown(s)
  PROVE  Shared' /\ Round' /\ NotForNothing
<1> DEFINE item == [doing |-> "close", for |-> s]
<1>1. /\ httpd = IDLE /\ item \in work /\ httpd' = item /\ work' = work \ {item}
      /\ ctx' = ctx /\ session' = session
      /\ visiting' = visiting /\ listing' = listing /\ looping' = looping /\ wake' = wake
      /\ down' = IF OwnsSocket(s) THEN down \cup {session[s].fd} ELSE down
  BY DEF HttpdShutdown
<1>2. item \in Item /\ item.doing = "close" /\ item.for = s
  BY DEF Item
<1>3. session[s].close_work_queued /\ session[s].close_requested
  BY <1>1, <1>2, SharedSession DEF Shared, SessionOK
<1>4. /\ work' \subseteq Item /\ httpd' \notin work' /\ httpd' \in Item
      /\ work' \cup {httpd'} \subseteq work
  BY <1>1, <1>2, TakenWork
<1>5. OwnsSocket(s) => session[s].fd \in Socket /\ ctx[session[s].fd] = s
  BY SharedSession DEF OwnsSocket, Response
<1>6. \A g \in down' :
        g \in Socket /\ ctx'[g] \in Session /\ session'[ctx'[g]].close_requested
  BY <1>1, <1>3, <1>5 DEF Shared
<1>7. Shared'
  BY <1>1, <1>2, <1>4, <1>6 DEF Shared
<1> QED
  BY <1>1, <1>7 DEF Round, Adopted, NotForNothing

\* The last thing HTTPD does to a session: it may be deleted from now on.
LEMMA ReleaseKeeps ==
  ASSUME Shared, Round, HttpdRelease
  PROVE  Shared' /\ Round' /\ NotForNothing
<1> DEFINE s == httpd.for
           r == session[s]
           one == IF httpd.doing = "send" THEN [r EXCEPT !.send_work_queued = FALSE]
                  ELSE [r EXCEPT !.close_work_queued = FALSE]
<1>1. /\ httpd.doing \in {"send", "close"} /\ httpd' = IDLE
      /\ ctx' = ctx /\ down' = down /\ work' = work
      /\ visiting' = visiting /\ listing' = listing /\ looping' = looping /\ wake' = wake
  BY DEF HttpdRelease
<1>2. httpd \in Item /\ s \in Session /\ httpd \notin work
  BY <1>1 DEF Shared, Item, IDLE
<1>3. session' = [session EXCEPT ![s] = one]
  BY <1>1 DEF HttpdRelease
<1>4. /\ SessionOK(r) /\ r \in Response /\ Served(r)
      /\ httpd.doing = "send" => r.send_work_queued
      /\ httpd.doing = "close" => r.close_work_queued
      /\ httpd.doing = "send" => r.send_result # 0
  BY <1>2, SharedSession DEF Shared
<1>5. r.place # "free"
  BY <1>1, <1>2, <1>4, SharedSession DEF safe_to_delete
<1> HIDE DEF r
<1>6. one \in Response
  BY <1>4 DEF Response
<1>7. /\ one.place = r.place /\ one.fd = r.fd /\ one.deferred_queue = r.deferred_queue
      /\ one.send_result_pending = r.send_result_pending
      /\ one.event_buffer = r.event_buffer
      /\ one.close_requested = r.close_requested /\ one.send_result = r.send_result
      /\ one.quiet = r.quiet /\ one.stalled = r.stalled
      /\ one.latest = r.latest /\ one.to_list = r.to_list /\ one.missed = r.missed
  BY <1>4 DEF Response
<1>8. /\ httpd.doing = "send" =>
           ~one.send_work_queued /\ one.close_work_queued = r.close_work_queued
      /\ httpd.doing = "close" =>
           ~one.close_work_queued /\ one.send_work_queued = r.send_work_queued
  BY <1>4 DEF Response
<1> HIDE DEF one
<1>9. SessionOK(one) /\ Served(one)
  <2>1. SessionOK(one)
    BY <1>1, <1>4, <1>6, <1>7, <1>8 DEF SessionOK
  <2>2. Carries(r, one)
    BY <1>7, SameCarries
  <2> QED
    BY <1>4, <1>7, <2>1, <2>2 DEF Served, Whole, Carries
<1>10. wake' \in BOOLEAN
  BY <1>1 DEF Round
<1>11. /\ session' \in [Session -> Response]
       /\ \A t \in Session : session'[t] = IF t = s THEN one ELSE session[t]
       /\ \A t \in Session :
            /\ SessionOK(session'[t]) /\ Served(session'[t])
            /\ session'[t].place = "free" => safe_to_delete(session'[t])
       /\ Round' /\ NotForNothing
  <2>1. /\ one.place = session[s].place
        /\ one.close_requested => session[s].close_requested
    BY <1>7 DEF r
  <2>2. one.place = "free" => safe_to_delete(one)
    BY <1>5, <1>7
  <2> HIDE DEF s
  <2> QED
    BY <1>1, <1>2, <1>3, <1>6, <1>9, <1>10, <2>1, <2>2, OneSession
<1>12. \A t \in Session :
         /\ session'[t].fd = session[t].fd
         /\ session'[t].close_requested = session[t].close_requested
  BY <1>7, <1>11 DEF r
<1>13. \A w \in work' \cup {httpd'} :
         /\ w.doing = "send" => session'[w.for].send_work_queued
         /\ w.doing = "close" => session'[w.for].close_work_queued
  <2> SUFFICES ASSUME NEW w \in work
               PROVE  /\ w.doing = "send" => session'[w.for].send_work_queued
                      /\ w.doing = "close" => session'[w.for].close_work_queued
    BY <1>1 DEF IDLE
  <2>1. w \in Item /\ w # httpd
    BY <1>2 DEF Shared
  <2>2. w.for # s \/ w.doing # httpd.doing
    BY <1>2, <2>1 DEF Item
  <2>3. /\ w.doing = "send" => session[w.for].send_work_queued
        /\ w.doing = "close" => session[w.for].close_work_queued
    BY DEF Shared
  <2>4. CASE w.for # s
    BY <1>11, <2>1, <2>3, <2>4 DEF Item
  <2>5. CASE w.for = s /\ w.doing # httpd.doing
    <3>1. session'[w.for] = one /\ session[w.for] = r
      BY <1>2, <1>11, <2>5 DEF r
    <3> QED
      BY <1>1, <1>8, <2>1, <2>3, <2>5, <3>1 DEF Item
  <2> QED
    BY <2>2, <2>4, <2>5
<1>14. \A g \in Socket, t \in Session : ctx'[g] = t => session'[t].fd = g
  BY <1>1, <1>12 DEF Shared
<1>15. \A g \in down' : ctx'[g] \in Session /\ session'[ctx'[g]].close_requested
  BY <1>1, <1>12 DEF Shared
<1>16. /\ ctx' \in [Socket -> Session \cup {OTHER_CLIENT, NONE}] /\ down' \subseteq Socket
       /\ work' \subseteq Item /\ httpd' = IDLE /\ httpd' \notin work'
       /\ httpd'.doing # "send"
  BY <1>1 DEF Shared, IDLE, Item
<1> QED
  BY <1>11, <1>13, <1>14, <1>15, <1>16 DEF Shared

------------------------------------------------------------------------------

LEMMA SessionsNext ==
  ASSUME Shared, Round, [Next]_vars
  PROVE  Shared' /\ Round' /\ NotForNothing
<1>1. CASE Httpd
  BY <1>1, WakeKeeps, ReleaseKeeps, SendKeeps, ShutdownKeeps, HttpdCloseKeeps,
     AcceptOtherKeeps, AcceptKeeps DEF Httpd
<1>2. CASE PassBegin \/ List \/ Broadcast \/ Tick
  BY <1>2, PassBeginKeeps, ListKeeps, BroadcastKeeps, TickKeeps
<1>3. CASE (\E s \in Session : Visit(s)) \/ \E x \in Source : Publish(x)
  BY <1>3, VisitKeeps, PublishKeeps
<1>4. CASE DisableLoop \/ EnableLoop
  <2>1. /\ session' = session /\ ctx' = ctx /\ down' = down /\ work' = work
        /\ httpd' = httpd /\ visiting' = visiting /\ listing' = listing
        /\ wake' \in {wake, FALSE} /\ looping' \in {"off", "on"}
    BY <1>4 DEF DisableLoop, EnableLoop
  <2> QED
    BY <2>1 DEF Shared, Round, Adopted, NotForNothing
<1>5. CASE UNCHANGED vars
  BY <1>5 DEF vars, Shared, Round, Adopted, NotForNothing
<1> QED
  BY <1>1, <1>2, <1>3, <1>4, <1>5 DEF Next, MainLoop

LEMMA SessionsAlways == Spec => [](Shared /\ Round)
<1>1. Init => Shared /\ Round
  <2> SUFFICES ASSUME Init PROVE Shared /\ Round
    OBVIOUS
  <2>1. /\ session = [s \in Session |-> Free] /\ ctx = [f \in Socket |-> NONE]
        /\ down = {} /\ work = {} /\ httpd = IDLE /\ visiting = {} /\ listing = NONE
        /\ looping = "on" /\ wake = FALSE
    BY DEF Init
  <2>2. NONE \notin Session
    BY EventSourceAssumption
  <2>3. session \in [Session -> Response] /\ \A s \in Session : session[s] = Free
    BY <2>1, FreeOK DEF SessionOK
  <2>5. Served(Free)
    BY FreeOK DEF Served
  <2>4. Shared
    BY <2>1, <2>2, <2>3, <2>5, FreeOK DEF Shared, IDLE
  <2> QED
    BY <2>1, <2>4 DEF Round
<1>2. Shared /\ Round /\ [Next]_vars => (Shared /\ Round)'
  BY SessionsNext
<1> QED
  BY <1>1, <1>2, PTL DEF Spec

------------------------------------------------------------------------------

\* Every field keeps its range, and the deferred queue an event once.
THEOREM SessionTypes == Spec => []TypeOK
<1>1. Shared /\ Round => TypeOK
  <2> SUFFICES ASSUME Shared, Round PROVE TypeOK
    OBVIOUS
  <2>1. httpd \in [doing : {"wake", "send", "close"}, for : Session] \cup {IDLE}
    BY DEF Shared, Item
  <2>2. listing \in Session \cup {NONE} /\ visiting \subseteq Session
    BY DEF Round, Adopted
  <2>3. \A s \in Session : IsInjective(session[s].deferred_queue)
    BY DEF Shared, SessionOK
  <2>4. work \subseteq [doing : {"send", "close"}, for : Session]
    BY DEF Shared, Item
  <2> QED
    BY <2>1, <2>2, <2>3, <2>4 DEF TypeOK, Shared, Round
<1> QED
  BY <1>1, SessionsAlways, PTL

\* No session is deleted that a socket still carries or HTTPD has still to do
\* with, however the two threads interleave.
THEOREM DeletedInTime == Spec => []NoDangling
<1>1. Shared => NoDangling
  <2> SUFFICES ASSUME Shared PROVE NoDangling
    OBVIOUS
  <2>1. ASSUME NEW f \in Socket, ctx[f] \in Session
        PROVE  session[ctx[f]].place # "free"
    <3>1. session[ctx[f]].fd = f /\ f # NONE
      BY <2>1, EventSourceAssumption DEF Shared
    <3> QED
      BY <2>1, <3>1, SharedSession DEF safe_to_delete
  <2>2. ASSUME NEW w \in work \cup {httpd}, w.doing \in {"send", "close"}
        PROVE  session[w.for].place # "free"
    <3>1. w.for \in Session
      BY <2>2 DEF Shared, Item, IDLE
    <3>2. session[w.for].send_work_queued \/ session[w.for].close_work_queued
      BY <2>2 DEF Shared
    <3> QED
      BY <3>1, <3>2, SharedSession DEF safe_to_delete
  <2> QED
    BY <2>1, <2>2 DEF NoDangling
<1> QED
  BY <1>1, SessionsAlways, PTL

\* The main loop leaves a buffer alone while HTTPD sends from it.
THEOREM BufferStandsStill == Spec => []BufferPinned
<1>1. Shared => BufferPinned
  <2> SUFFICES ASSUME Shared, NEW s \in Session,
                      [doing |-> "send", for |-> s] \in work \cup {httpd}
               PROVE  /\ session[s].event_buffer # NONE
                      /\ session[s].send_result_pending /\ ~session[s].close_work_queued
    BY DEF BufferPinned
  <2>1. session[s].send_work_queued
    BY DEF Shared
  <2> QED
    BY <2>1, SharedSession DEF SessionOK
<1> QED
  BY <1>1, SessionsAlways, PTL

\* Merging, deferring and the order of the initial listing lose no state but the
\* one that is missed while others are listed: a source leaves the listing for
\* the deferred queue or the buffer, the queue for the buffer, and the buffer for
\* the client.
THEOREM LostOnlyWhileListing == Spec => []StaleOnlyIfMissed
<1>1. Shared => StaleOnlyIfMissed
  <2> SUFFICES ASSUME Shared PROVE StaleOnlyIfMissed
    OBVIOUS
  <2>1. \A s \in Session : Served(session[s])
    BY SharedSession
  <2> QED
    BY <2>1 DEF StaleOnlyIfMissed, Served, Whole, Accounted, Queued, Has
<1> QED
  BY <1>1, SessionsAlways, PTL

\* A client is cut off only for a failed send or after the whole stall timeout
\* without progress: the time since the first stall, which is what the code
\* looks at, is at most the time in which the buffer stood still.
THEOREM OnlyStuckAreClosed == Spec => OnlyStuckClosed
<1>1. Shared /\ Round /\ [Next]_vars =>
        [\A s \in Session :
           ~session[s].close_requested /\ session'[s].close_requested =>
             session[s].send_result \in {INVALID, FAIL} \/ session[s].quiet = SEND_STALL_TIMEOUT]_vars
  BY SessionsNext DEF NotForNothing, Stuck
<1> QED
  BY <1>1, SessionsAlways, PTL DEF Spec, OnlyStuckClosed

\* A socket that HTTPD shuts down is that of a session that was given up, not
\* of the client that came to the same socket after it.
THEOREM ShutsDownItsOwn == Spec => []OnlyGivenUpShutDown
<1>1. Shared => OnlyGivenUpShutDown
  BY DEF Shared, OnlyGivenUpShutDown
<1> QED
  BY <1>1, SessionsAlways, PTL
==============================================================================
