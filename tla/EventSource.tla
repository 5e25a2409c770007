------------------------------ MODULE EventSource ------------------------------
(***************************************************************************)
(* The event-source (SSE) sessions of the web server: AsyncEventSource and *)
(* AsyncEventSourceResponse.  Two threads share a session.  The HTTPD task *)
(* accepts it, runs the work that the main loop queues for it and destroys *)
(* it with its socket; the main loop adopts it, fills and empties its      *)
(* buffer, asks for its end and deletes it.                                *)
(*                                                                         *)
(* A main-loop operation is one step: what HTTPD changes meanwhile (fd_ to *)
(* zero, a queued flag to false) never changes back, so a read that comes  *)
(* late is a step of HTTPD that came early.  The loop() of a session is    *)
(* cut where it looks at a result of HTTPD twice.  Times are what is left  *)
(* or what has passed of them, in ticks of the dispatch timestamp.         *)
(***************************************************************************)
EXTENDS Integers, Sequences, SequencesExt

CONSTANTS
  Session,        \* memory for AsyncEventSourceResponse objects
  Socket,
  Source,         \* the entities that publish states
  NONE,
  OTHER_CLIENT,   \* on a socket that carries something else than an event source
  Groups,         \* sorting groups
  PARTS,          \* sends that an event takes at most
  SEND_STALL_TIMEOUT,
  RETRY_INTERVAL, \* SEND_RETRY_INTERVAL_MS and CLOSE_RETRY_INTERVAL_MS
  CLOSE_CONFIRM_INTERVAL

ASSUME EventSourceAssumption ==
  /\ NONE \notin Session \cup Socket \cup Source \cup {OTHER_CLIENT}
  /\ OTHER_CLIENT \notin Session
  /\ Groups \in Nat
  /\ {PARTS, SEND_STALL_TIMEOUT, RETRY_INTERVAL, CLOSE_CONFIRM_INTERVAL}
       \subseteq Nat \ {0}
  /\ RETRY_INTERVAL <= CLOSE_CONFIRM_INTERVAL

VARIABLES
  session,   \* the objects: see Response
  ctx,       \* of each socket: the session or the other client it serves, or NONE
  down,      \* sockets that were shut down
  work,      \* what the main loop queued for HTTPD
  httpd,     \* what HTTPD is in the middle of, or IDLE
  visiting,  \* adopted sessions this pass of AsyncEventSource::loop() has left
  listing,   \* the session whose loop() has still to list, or NONE
  looping,   \* "on", "leaving" (loop() said it has no sessions) or "off"
  wake       \* enable_loop_soon_any_context() was called

vars == <<session, ctx, down, work, httpd, visiting, listing, looping, wake>>

\* A state event is generated when it is put into the buffer; it is fresh until
\* its source publishes again.  Other events have no source.
Event == [source : Source, kind : {"state", "state_detail_all"}]

Buffer == [source : Source \cup {NONE}, fresh : BOOLEAN, left : 1 .. PARTS]

ASSUME BufferAssumption == NONE \notin Buffer

\* A result of httpd_socket_send(), as the HTTP server numbers its errors.
TIMEOUT == -3
INVALID == -2
FAIL == -1
SendResult == TIMEOUT .. PARTS

Response ==
  [place : {"free", "parked", "adopted"},
   fd : Socket \cup {NONE},
   deferred_queue : Seq(Event),
   to_list : SUBSET (Source \cup {NONE}), \* entities_iterator_: what is to come; NONE ends it
   sorting_group_index : 0 .. Groups,
   event_buffer : Buffer \cup {NONE},
   send_result_pending : BOOLEAN, send_work_queued : BOOLEAN,
   send_result : SendResult,                   \* zero once it was read
   send_wait : 0 .. RETRY_INTERVAL,            \* until next_send_attempt_ms_
   dispatched : BOOLEAN,                       \* last_send_dispatch_loop_ms_ is now
   stalled : -1 .. SEND_STALL_TIMEOUT,         \* since send_failure_started_ms_, or -1
   close_requested : BOOLEAN, close_work_queued : BOOLEAN,
   close_wait : 0 .. CLOSE_CONFIRM_INTERVAL,   \* until next_close_attempt_ms_
   latest : SUBSET Source,         \* history: whose latest state the client was sent
   missed : SUBSET Source,         \* history: whose state was dropped while listing
   quiet : 0 .. SEND_STALL_TIMEOUT]\* history: time without progress of the buffer

Free ==
  [place |-> "free", fd |-> NONE, deferred_queue |-> <<>>, to_list |-> {},
   sorting_group_index |-> 0, event_buffer |-> NONE,
   send_result_pending |-> FALSE, send_work_queued |-> FALSE, send_result |-> 0,
   send_wait |-> 0, dispatched |-> FALSE, stalled |-> -1,
   close_requested |-> FALSE, close_work_queued |-> FALSE, close_wait |-> 0,
   latest |-> {}, missed |-> {}, quiet |-> 0]

IDLE == [doing |-> "idle", for |-> NONE]

safe_to_delete_AfterClose(r) == r.fd = NONE /\ ~r.close_work_queued

safe_to_delete(r) == r.fd = NONE /\ ~r.close_work_queued /\ ~r.send_work_queued
------------------------------------------------------------------------------
(* Closing.  `io` is the set of calls of httpd_queue_work() that succeed.  *)

process_close(r, io) ==
  IF ~r.close_requested \/ r.close_work_queued \/ r.send_work_queued THEN r
  ELSE LET c == [r EXCEPT !.send_result_pending = FALSE, !.send_result = 0,
                          !.event_buffer = NONE]
       IN  IF c.fd = NONE \/ c.close_wait > 0 THEN c
           ELSE IF "close" \in io
           THEN [c EXCEPT !.close_work_queued = TRUE, !.close_wait = CLOSE_CONFIRM_INTERVAL]
           ELSE [c EXCEPT !.close_wait = RETRY_INTERVAL]

request_close(r, io) ==
  process_close(
    IF r.close_requested THEN r
    ELSE [r EXCEPT !.close_requested = TRUE, !.deferred_queue = <<>>, !.close_wait = 0],
    io)

------------------------------------------------------------------------------
(* Sending.                                                                *)

\* A send that times out, and one that cannot be queued, count as a stall.
Stalled(r, io) ==
  LET since == IF r.stalled = -1 THEN 0 ELSE r.stalled
      s == [r EXCEPT !.stalled = since]
  IN  IF since >= SEND_STALL_TIMEOUT THEN request_close(s, io) ELSE s

\* The client has the whole event, or some of it.
Delivered(r) ==
  [r EXCEPT !.event_buffer = NONE,
            !.latest = IF r.event_buffer.fresh THEN @ \cup {r.event_buffer.source} ELSE @]

Progressed(r, bytes) ==
  IF bytes = r.event_buffer.left THEN Delivered(r)
  ELSE [r EXCEPT !.event_buffer.left = @ - bytes]

Result_KeepsStall(r, io) ==
  LET s == [r EXCEPT !.send_result_pending = FALSE, !.send_result = 0]
  IN  CASE r.send_result = TIMEOUT -> Stalled(s, io)
        [] r.send_result \in {INVALID, FAIL, 0} -> request_close(s, io)
        [] r.send_result > 0 -> Progressed([s EXCEPT !.quiet = 0], r.send_result)

Result(r, io) ==
  LET s == [r EXCEPT !.send_result_pending = FALSE, !.send_result = 0]
  IN  CASE r.send_result = TIMEOUT -> Stalled(s, io)
        [] r.send_result \in {INVALID, FAIL, 0} -> request_close(s, io)
        [] r.send_result > 0 -> Progressed([s EXCEPT !.stalled = -1, !.quiet = 0], r.send_result)

process_buffer_ReadsEarly(r, io) ==
  IF r.close_requested \/ r.event_buffer = NONE THEN r
  ELSE IF r.send_result_pending THEN Result(r, io)
  ELSE IF r.send_wait > 0 \/ r.dispatched THEN r
  ELSE IF "send" \in io
  THEN [r EXCEPT !.dispatched = TRUE, !.send_result_pending = TRUE, !.send_work_queued = TRUE]
  ELSE Stalled([r EXCEPT !.dispatched = TRUE, !.send_wait = RETRY_INTERVAL], io)

process_buffer_RetriesForEver(r, io) ==
  IF r.close_requested \/ r.event_buffer = NONE THEN r
  ELSE IF r.send_result_pending
  THEN IF r.send_work_queued THEN r ELSE Result(r, io)
  ELSE IF r.send_wait > 0 \/ r.dispatched THEN r
  ELSE IF "send" \in io
  THEN [r EXCEPT !.dispatched = TRUE, !.send_result_pending = TRUE, !.send_work_queued = TRUE]
  ELSE [r EXCEPT !.dispatched = TRUE, !.send_wait = RETRY_INTERVAL]

process_buffer(r, io) ==
  IF r.close_requested \/ r.event_buffer = NONE THEN r
  ELSE IF r.send_result_pending
  THEN IF r.send_work_queued THEN r ELSE Result(r, io)
  ELSE IF r.send_wait > 0 \/ r.dispatched THEN r
  ELSE IF "send" \in io
  THEN [r EXCEPT !.dispatched = TRUE, !.send_result_pending = TRUE, !.send_work_queued = TRUE]
  ELSE Stalled([r EXCEPT !.dispatched = TRUE, !.send_wait = RETRY_INTERVAL], io)

MaySend(r) == r.fd # NONE /\ ~r.close_requested /\ r.event_buffer = NONE

\* What try_send_nodefer() leaves: `s` is what its first process_buffer() left.
Filled(s, source, io) ==
  process_buffer(
    [s EXCEPT !.event_buffer = [source |-> source, fresh |-> source # NONE, left |-> PARTS],
              !.missed = @ \ {source},
              !.quiet = 0],
    io)

try_send_nodefer(r, source, io) ==
  IF r.fd = NONE \/ r.close_requested THEN r
  ELSE LET s == process_buffer(r, io)
       IN  IF MaySend(s) THEN Filled(s, source, io) ELSE s

process_deferred_queue_DropsHead(r, io) ==
  IF r.close_requested \/ r.deferred_queue = <<>> THEN r
  ELSE LET s == IF MaySend(r) THEN Filled(r, Head(r.deferred_queue).source, io) ELSE r
       IN  IF s.close_requested THEN s ELSE [s EXCEPT !.deferred_queue = Tail(@)]

\* The event at the head is dropped from the queue only once it is in the buffer.
process_deferred_queue(r, io) ==
  IF r.close_requested \/ r.deferred_queue = <<>> \/ ~MaySend(r) THEN r
  ELSE LET s == Filled(r, Head(r.deferred_queue).source, io)
       IN  IF s.close_requested THEN s ELSE [s EXCEPT !.deferred_queue = Tail(@)]

deq_push_back_with_dedup_Always(r, event) ==
  [r EXCEPT !.deferred_queue = Append(@, event)]

deq_push_back_with_dedup(r, event) ==
  IF Contains(r.deferred_queue, event) THEN r
  ELSE [r EXCEPT !.deferred_queue = Append(@, event)]

deferrable_send_state(r, event, io) ==
  IF r.to_list # {} /\ event.kind = "state" THEN r
  ELSE LET s == process_deferred_queue(process_buffer(r, io), io)
       IN  IF s.close_requested THEN s
           ELSE IF s.fd = NONE \/ s.event_buffer # NONE \/ s.deferred_queue # <<>>
           THEN deq_push_back_with_dedup(s, event)
           ELSE Filled(s, event.source, io)

\* A state is lost on a client that has had the details of its source already
\* and is still given those of others.
Published(r, x, io) ==
  LET stale == [r EXCEPT !.latest = @ \ {x},
                         !.event_buffer = IF @ # NONE /\ @.source = x
                                          THEN [@ EXCEPT !.fresh = FALSE] ELSE @]
      s == deferrable_send_state(stale, [source |-> x, kind |-> "state"], io)
      queued == [source |-> x, kind |-> "state_detail_all"]
  IN  IF r.to_list # {} /\ x \notin r.to_list /\ ~Contains(r.deferred_queue, queued)
      THEN [s EXCEPT !.missed = @ \cup {x}] ELSE s
------------------------------------------------------------------------------
(* The HTTPD task.                                                         *)

\* AsyncEventSource::handleRequest(): a session is parked, the main loop woken.
HttpdAccept(f, s) ==
  /\ httpd = IDLE /\ ctx[f] = NONE /\ session[s].place = "free"
  /\ session' = [session EXCEPT ![s] = [Free EXCEPT !.place = "parked", !.fd = f]]
  /\ ctx' = [ctx EXCEPT ![f] = s]
  /\ httpd' = [doing |-> "wake", for |-> s]
  /\ UNCHANGED <<down, work, visiting, listing, looping, wake>>

\* A socket that was closed may serve anything next.
HttpdAcceptOther(f) ==
  /\ httpd = IDLE /\ ctx[f] = NONE
  /\ ctx' = [ctx EXCEPT ![f] = OTHER_CLIENT]
  /\ UNCHANGED <<session, down, work, httpd, visiting, listing, looping, wake>>

HttpdWake_UnlessOn ==
  /\ httpd.doing = "wake"
  /\ httpd' = IDLE /\ wake' = (wake \/ looping = "off")
  /\ UNCHANGED <<session, ctx, down, work, visiting, listing, looping>>

HttpdWake ==
  /\ httpd.doing = "wake"
  /\ httpd' = IDLE /\ wake' = TRUE
  /\ UNCHANGED <<session, ctx, down, work, visiting, listing, looping>>

\* destroy(): the peer left, the socket was shut down, or HTTPD needs it.
HttpdClose(f) ==
  /\ httpd = IDLE /\ ctx[f] # NONE
  /\ session' = [s \in Session |-> IF ctx[f] = s THEN [session[s] EXCEPT !.fd = NONE]
                                  ELSE session[s]]
  /\ ctx' = [ctx EXCEPT ![f] = NONE] /\ down' = down \ {f}
  /\ UNCHANGED <<work, httpd, visiting, listing, looping, wake>>

OwnsSocket(s) == session[s].fd # NONE /\ ctx[session[s].fd] = s

\* send_buffer_work(), up to the release of the session
HttpdSend(s) ==
  LET item == [doing |-> "send", for |-> s] IN
  /\ httpd = IDLE /\ item \in work
  /\ \E result \in IF OwnsSocket(s) THEN {TIMEOUT, FAIL} \cup (1 .. session[s].event_buffer.left)
                    ELSE {INVALID} :
       session' = [session EXCEPT ![s].send_result = result]
  /\ httpd' = item /\ work' = work \ {item}
  /\ UNCHANGED <<ctx, down, visiting, listing, looping, wake>>

HttpdShutdown_BySocket(s) ==
  LET item == [doing |-> "close", for |-> s] IN
  /\ httpd = IDLE /\ item \in work
  /\ down' = down \cup {f \in Socket : ctx[f] # NONE}
  /\ httpd' = item /\ work' = work \ {item}
  /\ UNCHANGED <<session, ctx, visiting, listing, looping, wake>>

\* close_session_work(), up to the release of the session
HttpdShutdown(s) ==
  LET item == [doing |-> "close", for |-> s] IN
  /\ httpd = IDLE /\ item \in work
  /\ down' = IF OwnsSocket(s) THEN down \cup {session[s].fd} ELSE down
  /\ httpd' = item /\ work' = work \ {item}
  /\ UNCHANGED <<session, ctx, visiting, listing, looping, wake>>

HttpdRelease_KeepsClose ==
  /\ httpd.doing \in {"send", "close"}
  /\ session' = [session EXCEPT ![httpd.for].send_work_queued = @ /\ httpd.doing = "close"]
  /\ httpd' = IDLE
  /\ UNCHANGED <<ctx, down, work, visiting, listing, looping, wake>>

HttpdRelease ==
  /\ httpd.doing \in {"send", "close"}
  /\ session' = CASE httpd.doing = "send" ->
                       [session EXCEPT ![httpd.for].send_work_queued = FALSE]
                  [] httpd.doing = "close" ->
                       [session EXCEPT ![httpd.for].close_work_queued = FALSE]
  /\ httpd' = IDLE
  /\ UNCHANGED <<ctx, down, work, visiting, listing, looping, wake>>
------------------------------------------------------------------------------
(* The main loop.                                                          *)

IO == SUBSET {"send", "close"}

Adopted(sessions) == {s \in Session : sessions[s].place = "adopted"}

\* The main loop is in nobody's loop().
Between == visiting = {} /\ listing = NONE /\ looping # "leaving"

\* What an operation on the sessions newly asks of HTTPD
NewWork(now) ==
  {[doing |-> "send", for |-> s] :
     s \in {t \in Session : now[t].send_work_queued /\ ~session[t].send_work_queued}}
  \cup
  {[doing |-> "close", for |-> s] :
     s \in {t \in Session : now[t].close_work_queued /\ ~session[t].close_work_queued}}

\* HTTPD may run what is queued in any order, more than its queue allows.
Update(now) == session' = now /\ work' = work \cup NewWork(now)

\* loop() of the event source tells its web server whether it has sessions.
Leave(left, lists) ==
  looping' = IF left = {} /\ lists = NONE /\ Adopted(session') = {} THEN "leaving" ELSE looping

\* adopt_pending_sessions_main_loop_() and start_session_main_loop_()
Adopt(r, io) ==
  IF r.place # "parked" THEN r
  ELSE IF safe_to_delete(r) THEN Free
  ELSE [try_send_nodefer([r EXCEPT !.place = "adopted"], NONE, io) EXCEPT !.to_list = Source \cup {NONE}]

\* AsyncEventSource::loop() up to its first session
PassBegin ==
  /\ Between /\ looping = "on"
  /\ \E io \in [Session -> IO] : Update([s \in Session |-> Adopt(session[s], io[s])])
  /\ visiting' = Adopted(session')
  /\ Leave(visiting', NONE)
  /\ UNCHANGED <<ctx, down, httpd, listing, wake>>

\* A session is deleted, or its loop() runs up to its sorting groups.
Visit(s) ==
  /\ s \in visiting /\ listing = NONE
  /\ \E io \in IO :
       LET r == session[s]
           sent == process_deferred_queue(process_buffer(r, io), io)
           now == IF safe_to_delete(r) THEN Free
                  ELSE IF r.close_requested THEN process_close(r, io)
                  ELSE sent
       IN  /\ Update([session EXCEPT ![s] = now])
           /\ listing' = IF safe_to_delete(r) \/ now.close_requested THEN NONE ELSE s
  /\ visiting' = visiting \ {s}
  /\ Leave(visiting', listing')
  /\ UNCHANGED <<ctx, down, httpd, wake>>

Grouped(r, io) ==
  LET sent == MaySend(process_buffer(r, io))
      now == try_send_nodefer(r, NONE, io)
  IN  IF sent THEN [now EXCEPT !.sorting_group_index = @ + 1] ELSE now

\* The iterator gives the details of an entity to every session.
Listed(s, x, io) ==
  [t \in Session |->
     LET r == IF t = s THEN [session[t] EXCEPT !.to_list = @ \ {x}] ELSE session[t]
     IN  IF r.place = "adopted" /\ r.fd # NONE
         THEN deferrable_send_state(r, [source |-> x, kind |-> "state_detail_all"], io[t])
         ELSE r]

\* The rest of loop(): one sorting group, or one entity
List ==
  /\ listing # NONE
  /\ \E io \in [Session -> IO] :
       LET r == session[listing] IN
       IF r.sorting_group_index < Groups
       THEN Update([session EXCEPT ![listing] = Grouped(r, io[listing])])
       ELSE IF r.to_list = {} THEN Update(session)
       ELSE IF r.to_list = {NONE} THEN Update([session EXCEPT ![listing].to_list = {}])
       ELSE \E x \in r.to_list \ {NONE} : Update(Listed(listing, x, io))
  /\ listing' = NONE
  /\ Leave(visiting, NONE)
  /\ UNCHANGED <<ctx, down, httpd, visiting, wake>>

\* The web server leaves the main loop's round, and is called back to it.
DisableLoop ==
  /\ looping = "leaving" /\ looping' = "off"
  /\ UNCHANGED <<session, ctx, down, work, httpd, visiting, listing, wake>>

EnableLoop ==
  /\ Between /\ wake
  /\ wake' = FALSE /\ looping' = "on"
  /\ UNCHANGED <<session, ctx, down, work, httpd, visiting, listing>>

\* A source has a new state: deferrable_send_state() of the event source
Publish(x) ==
  /\ Between
  /\ \E io \in [Session -> IO] :
       Update([s \in Session |-> LET r == session[s] IN
                 IF r.place = "adopted" /\ r.fd # NONE THEN Published(r, x, io[s]) ELSE r])
  /\ UNCHANGED <<ctx, down, httpd, visiting, listing, looping, wake>>

\* A ping or a line of the log: try_send_nodefer() of the event source
Broadcast ==
  /\ Between
  /\ \E io \in [Session -> IO] :
       Update([s \in Session |-> LET r == session[s] IN
                 IF r.place = "adopted" THEN try_send_nodefer(r, NONE, io[s]) ELSE r])
  /\ UNCHANGED <<ctx, down, httpd, visiting, listing, looping, wake>>

\* The next dispatch timestamp
Tick ==
  LET Less(n) == IF n = 0 THEN 0 ELSE n - 1
      More(n) == IF n = SEND_STALL_TIMEOUT THEN n ELSE n + 1
      Later(r) == [r EXCEPT !.dispatched = FALSE,
                            !.send_wait = Less(@), !.close_wait = Less(@),
                            !.stalled = IF @ = -1 THEN @ ELSE More(@),
                            !.quiet = IF r.event_buffer = NONE THEN @ ELSE More(@)]
  IN  /\ Between
      /\ session' = [s \in Session |-> Later(session[s])]
      /\ UNCHANGED <<ctx, down, work, httpd, visiting, listing, looping, wake>>
------------------------------------------------------------------------------
Init ==
  /\ session = [s \in Session |-> Free]
  /\ ctx = [f \in Socket |-> NONE]
  /\ down = {} /\ work = {} /\ httpd = IDLE
  /\ visiting = {} /\ listing = NONE
  /\ looping = "on" /\ wake = FALSE

Httpd ==
  \/ HttpdWake \/ HttpdRelease
  \/ \E s \in Session : HttpdSend(s) \/ HttpdShutdown(s)
  \/ \E f \in Socket : HttpdClose(f) \/ HttpdAcceptOther(f) \/ \E s \in Session : HttpdAccept(f, s)

MainLoop ==
  \/ PassBegin \/ List \/ DisableLoop \/ EnableLoop \/ Broadcast \/ Tick
  \/ \E s \in Session : Visit(s)
  \/ \E x \in Source : Publish(x)

Next == Httpd \/ MainLoop

Spec == Init /\ [][Next]_vars

\* HTTPD runs what it is given and sees a socket that was shut down.  The main
\* loop goes round, and a close that it offers again and again is queued at last.
Fairness ==
  /\ WF_vars(HttpdWake) /\ WF_vars(HttpdRelease)
  /\ \A f \in Socket : SF_vars(f \in down /\ HttpdClose(f))
  /\ \A s \in Session : SF_vars(HttpdSend(s) \/ HttpdShutdown(s))
  /\ WF_vars(PassBegin) /\ WF_vars(List) /\ WF_vars(DisableLoop) /\ WF_vars(EnableLoop)
  /\ SF_vars(Tick)
  /\ \A s \in Session :
       /\ WF_vars(Visit(s))
       /\ SF_vars(Visit(s) /\ ~session[s].close_work_queued /\ session'[s].close_work_queued)

FairSpec == Spec /\ Fairness
------------------------------------------------------------------------------
\* The queue of a slow client holds an event once: it does not outgrow the
\* two kinds of event of every source.
TypeOK ==
  /\ session \in [Session -> Response]
  /\ \A s \in Session : IsInjective(session[s].deferred_queue)
  /\ ctx \in [Socket -> Session \cup {OTHER_CLIENT, NONE}]
  /\ down \subseteq Socket
  /\ work \subseteq [doing : {"send", "close"}, for : Session]
  /\ httpd \in [doing : {"wake", "send", "close"}, for : Session] \cup {IDLE}
  /\ visiting \subseteq Session
  /\ listing \in Session \cup {NONE}
  /\ looping \in {"on", "leaving", "off"}
  /\ wake \in BOOLEAN

(* The main loop deletes a session only when HTTPD can no longer reach it: *)
(* no socket carries it and no work for it is queued or running, though    *)
(* the session's socket may be gone, and serve another, long before.       *)
NoDangling ==
  /\ \A f \in Socket : ctx[f] \in Session => session[ctx[f]].place # "free"
  /\ \A w \in work \cup {httpd} : w.doing \in {"send", "close"} => session[w.for].place # "free"

(* The buffer that HTTPD sends from stays as it is until HTTPD is through, *)
(* and nothing is sent and shut down for one session at the same time.     *)
BufferPinned ==
  \A s \in Session :
    [doing |-> "send", for |-> s] \in work \cup {httpd} =>
      /\ session[s].event_buffer # NONE
      /\ session[s].send_result_pending /\ ~session[s].close_work_queued

(* HTTPD shuts down only the socket of a session that was given up, not    *)
(* one that meanwhile serves another client.                               *)
OnlyGivenUpShutDown ==
  \A f \in down : ctx[f] \in Session /\ session[ctx[f]].close_requested

(* Merging, deferring and the order of the initial listing lose no state:  *)
(* each source's latest state was sent to a client, is on its way, or is   *)
(* still to be listed.  The one exception is a source that was `missed`:   *)
(* its state changed after its own details were listed and before those of *)
(* the others were, when the event source drops states, and it was not     *)
(* sent again since.                                                       *)
StaleOnlyIfMissed ==
  \A s \in Session, x \in Source :
    LET r == session[s] IN
    r.place = "adopted" /\ r.fd # NONE /\ ~r.close_requested =>
      \/ x \in r.latest \cup r.to_list \cup r.missed
      \/ x \in {r.deferred_queue[i].source : i \in 1 .. Len(r.deferred_queue)}
      \/ r.event_buffer # NONE /\ r.event_buffer.source = x /\ r.event_buffer.fresh

(* A client is cut off only for a failed send or after the whole stall     *)
(* timeout without progress, whatever stalls came before.                  *)
OnlyStuckClosed ==
  [][\A s \in Session :
       ~session[s].close_requested /\ session'[s].close_requested =>
         session[s].send_result \in {INVALID, FAIL} \/ session[s].quiet = SEND_STALL_TIMEOUT]_vars

(* A session that the server gives up is deleted in the end, though        *)
(* queueing its shutdown fails and its last send is still running.         *)
GivenUpIsDeleted == \A s \in Session : session[s].close_requested ~> session[s].place = "free"

(* "A stream without send progress for 20 seconds requests closure": a     *)
(* buffer that stands still for the stall timeout is sent on or given up,  *)
(* whether the client takes nothing or the sends cannot be queued.         *)
StuckIsClosed ==
  \A s \in Session :
    session[s].event_buffer # NONE /\ session[s].quiet = SEND_STALL_TIMEOUT
      ~> session[s].event_buffer = NONE \/ session[s].quiet < SEND_STALL_TIMEOUT

(* A session that HTTPD parks while the main loop is leaving its round is  *)
(* adopted nevertheless.                                                   *)
ParkedIsAdopted == \A s \in Session : session[s].place = "parked" ~> session[s].place # "parked"
==============================================================================
