------------------------------ MODULE VoiceSocket ------------------------------
(***************************************************************************)
(* The voice WebSocket of one account: handle_voice_stream_ws with the     *)
(* ticket it is given, the rate limit, the slots of the account, and the   *)
(* threads of a DashScopeLiveStreamSession.                                *)
(*                                                                         *)
(* A handler runs on the event loop and is interrupted only where it       *)
(* awaits: accept, the start of the ASR session, a message, the final      *)
(* transcript, the close.  The ASR calls run in threads that an expired    *)
(* wait_for abandons and does not stop.  A ticket is only looked at before *)
(* those awaits, and taken after the ASR has started.                      *)
(***************************************************************************)
EXTENDS Naturals, FiniteSets, WsTickets

CONSTANTS
    Handler,      \* connections that may be open at a time
    Settings,     \* the cases: the settings slots, rate, redis, and the bounds
                  \* on the tickets issued and the connections tried
    Window,       \* window of the rate limit
    IdleTime,     \* ws_idle_timeout_seconds
    SessionTime,  \* ws_session_timeout_seconds
    MaxIssues,    \* bound: tickets issued in any case
    MaxFaults,    \* bound: Redis calls that fail
    MaxTime       \* bound: the clock stops

ASSUME VoiceSocketAssumption ==
    /\ IsFiniteSet(Handler)
    /\ \A s \in Settings : s.slots \in Nat \ {0} /\ s.rate \in Nat \ {0} /\ s.redis \in BOOLEAN
                           /\ s.issues \in 0..MaxIssues /\ s.connects \in Nat
    /\ Window \in Nat \ {0} /\ IdleTime \in Nat /\ SessionTime \in Nat
    /\ TTL \in Nat \ {0} /\ MaxTickets \in Nat \ {0}
    /\ MaxIssues \in Nat /\ MaxFaults \in Nat /\ MaxTime \in Nat

VARIABLES
    settings,
    now,
    tickets,    \* _tickets
    issued,     \* tickets issued so far, numbered from 1
    active,     \* _active of the account
    bucket,     \* Redis: [n, count] of the newest calendar bucket
    recent,     \* _keyed_requests of the account, each time with the number
                \* of its connection
    pc,         \* pc[h]: where the handler waits
    ticket,     \* ticket[h]: the ticket of its URL
    idle, left, \* idle[h], left[h]: time before the two timeouts
    listening,  \* listening[h]: the provider's recognition runs
    started,    \* started[h]: _started
    threads,    \* threads[h]: its threads that still run
    abandoned,  \* abandoned[h]: the start was given up while it ran
    unstopped,  \* unstopped[h]: a stop of the running recognition raised
    sessions,   \* sessions[i]: sessions that began on ticket i
    grants,     \* the same of the connections it let pass in this window, by
                \* either way
    connects, faults

timeVars == <<idle, left>>
asrVars == <<listening, started, threads, abandoned, unstopped>>
limitVars == <<bucket, recent, grants, faults>>
vars == <<settings, now, tickets, issued, active, limitVars, pc, ticket, timeVars,
          asrVars, sessions, connects>>

Init ==
    /\ settings \in Settings
    /\ now = 0
    /\ tickets = {} /\ issued = 0
    /\ active = 0
    /\ bucket = [n |-> 0, count |-> 0] /\ recent = {}
    /\ grants = {}
    /\ pc = [h \in Handler |-> "closed"]
    /\ ticket = [h \in Handler |-> 0]
    /\ idle = [h \in Handler |-> 0] /\ left = [h \in Handler |-> 0]
    /\ listening = [h \in Handler |-> FALSE]
    /\ started = [h \in Handler |-> FALSE]
    /\ threads = [h \in Handler |-> {}]
    /\ abandoned = [h \in Handler |-> FALSE]
    /\ unstopped = [h \in Handler |-> FALSE]
    /\ sessions = [i \in 1..MaxIssues |-> 0]
    /\ connects = 0 /\ faults = 0

Goto(h, place) == pc' = [pc EXCEPT ![h] = place]

Down(n) == IF n = 0 THEN 0 ELSE n - 1

\* time passes, and with it every timer; the timers go on when the bounded
\* clock stands still
Tick ==
    /\ now < MaxTime \/ \E h \in Handler : idle[h] > 0 \/ left[h] > 0
    /\ now' = IF now < MaxTime THEN now + 1 ELSE now
    /\ idle' = [h \in Handler |-> Down(idle[h])]
    /\ left' = [h \in Handler |-> Down(left[h])]
    /\ UNCHANGED <<settings, tickets, issued, active, limitVars, pc, ticket, asrVars,
                   sessions, connects>>

\* POST /voice/ticket
Issue ==
    /\ issued < settings.issues
    /\ issued' = issued + 1
    /\ tickets' = Issued(tickets, issued + 1, now)
    /\ UNCHANGED <<settings, now, active, limitVars, pc, ticket, timeVars, asrVars,
                   sessions, connects>>
-----------------------------------------------------------------------------
(* check_keyed_rate_limit: a calendar bucket in Redis; without Redis, or   *)
(* when a call of it fails, a sliding window in memory.  A call that fails *)
(* may have counted.                                                       *)

Counted ==
    LET n == now \div Window IN
    [n |-> n, count |-> IF bucket.n = n THEN bucket.count + 1 ELSE 1]

\* mutant: stamps are forgotten too early
PrunedEarly(stamps) == {t \in stamps : now - t.at + 1 < Window}

\* _prune_recent
Pruned(stamps) == {t \in stamps : now - t.at < Window}

Stamp == [n |-> connects, at |-> now]

Passed(ok) ==
    LET inWindow == {t \in grants : now - t.at < Window} IN
    grants' = IF ok THEN inWindow \cup {Stamp} ELSE inWindow

\* the sliding window
InMemory(ok) ==
    /\ ok = (Cardinality(Pruned(recent)) < settings.rate)
    /\ recent' = IF ok THEN Pruned(recent) \cup {Stamp} ELSE Pruned(recent)

\* ok: the connection may go on
RateLimit(ok) ==
    /\ Passed(ok)
    /\ \/ /\ settings.redis
          /\ bucket' = Counted
          /\ ok = (Counted.count <= settings.rate)
          /\ UNCHANGED <<recent, faults>>
       \/ /\ settings.redis /\ faults < MaxFaults
          /\ faults' = faults + 1
          /\ bucket' \in {bucket, Counted}
          /\ InMemory(ok)
       \/ /\ ~settings.redis
          /\ InMemory(ok)
          /\ UNCHANGED <<bucket, faults>>
-----------------------------------------------------------------------------
(* Connecting.                                                             *)

\* mutant: full slots are not noticed
HasSlotAlways == TRUE

\* voice_ws_connections.try_acquire
HasSlot == active < settings.slots

\* From the connection to the first await: ticket, rate limit, slot.  Whoever
\* is refused has burnt nothing but the rate limit.
Connect(h) ==
    /\ pc[h] = "closed" /\ connects < settings.connects /\ threads[h] = {}
    /\ connects' = connects + 1
    /\ tickets' = Purged(tickets, now)
    /\ \E i \in 1..issued :
         /\ ticket' = [ticket EXCEPT ![h] = i]
         /\ \/ /\ ~Found(tickets, i, now)
               /\ UNCHANGED <<limitVars, active, pc>>
            \/ /\ Found(tickets, i, now)
               /\ RateLimit(FALSE)
               /\ UNCHANGED <<active, pc>>
            \/ /\ Found(tickets, i, now)
               /\ RateLimit(TRUE)
               /\ IF HasSlot
                  THEN active' = active + 1 /\ Goto(h, "accept")
                  ELSE UNCHANGED <<active, pc>>
    /\ listening' = [listening EXCEPT ![h] = FALSE]
    /\ started' = [started EXCEPT ![h] = FALSE]
    /\ abandoned' = [abandoned EXCEPT ![h] = FALSE]
    /\ unstopped' = [unstopped EXCEPT ![h] = FALSE]
    /\ UNCHANGED <<settings, now, issued, timeVars, threads, sessions>>

\* mutant: a session that was started is not closed
ClosingQuietly(h) == Goto(h, "close") /\ UNCHANGED threads

\* _finalize_voice_session: close of a session that is started runs in a
\* thread, any other has nothing to close
Closing(h) ==
    /\ threads' = [threads EXCEPT ![h] = IF started[h] THEN @ \cup {"close"} ELSE @]
    /\ Goto(h, "close")

\* the timers of the receive loop are over
NoTimers(h) ==
    /\ idle' = [idle EXCEPT ![h] = 0]
    /\ left' = [left EXCEPT ![h] = 0]

\* mutant: what was looked at before the awaits is trusted
BeginTrusting(h) ==
    /\ UNCHANGED threads
    /\ tickets' = Taken(tickets, ticket[h], now)
    /\ sessions' = [sessions EXCEPT ![ticket[h]] = @ + 1]
    /\ Goto(h, "session")
    /\ idle' = [idle EXCEPT ![h] = IdleTime]
    /\ left' = [left EXCEPT ![h] = SessionTime]

\* _consume_voice_ticket, and the receive loop, or 4401
Begin(h) ==
    IF Found(tickets, ticket[h], now)
    THEN /\ tickets' = Taken(tickets, ticket[h], now)
         /\ sessions' = [sessions EXCEPT ![ticket[h]] = @ + 1]
         /\ Goto(h, "session")
         /\ idle' = [idle EXCEPT ![h] = IdleTime]
         /\ left' = [left EXCEPT ![h] = SessionTime]
         /\ UNCHANGED threads
    ELSE /\ tickets' = Purged(tickets, now)
         /\ Closing(h)
         /\ UNCHANGED <<sessions, timeVars>>

\* accept returned and the session was opened: a buffered one needs no start,
\* a live one starts in a thread
Accepted(h) ==
    /\ pc[h] = "accept"
    /\ \/ Begin(h)
       \/ /\ Goto(h, "start")
          /\ threads' = [threads EXCEPT ![h] = {"start"}]
          /\ UNCHANGED <<tickets, sessions, timeVars>>
    /\ UNCHANGED <<settings, now, issued, active, limitVars, ticket, listening,
                   started, abandoned, unstopped, connects>>

\* release of the slot, in the finally of the handler
Release == active' = IF active <= 1 THEN 0 ELSE active - 1

\* no ASR is configured, or the client is gone before it was accepted: the
\* handler ends without a session object
NotAccepted(h) ==
    /\ pc[h] = "accept"
    /\ Release
    /\ Goto(h, "closed")
    /\ UNCHANGED <<settings, now, tickets, issued, limitVars, ticket, timeVars,
                   asrVars, sessions, connects>>

Started(h) ==
    /\ pc[h] = "start" /\ "start" \notin threads[h] /\ started[h]
    /\ Begin(h)
    /\ UNCHANGED <<settings, now, issued, active, limitVars, ticket, listening,
                   started, abandoned, unstopped, connects>>

\* start raised, or its wait_for ran out and the thread goes on alone
StartFailed(h) ==
    /\ pc[h] = "start" /\ ~started[h]
    /\ abandoned' = [abandoned EXCEPT ![h] = "start" \in threads[h]]
    /\ Closing(h)
    /\ UNCHANGED <<settings, now, tickets, issued, active, limitVars, ticket, timeVars,
                   listening, started, unstopped, sessions, connects>>
-----------------------------------------------------------------------------
(* The receive loop.                                                       *)

\* mutant: a frame prolongs the session
FrameProlongs(h) ==
    /\ pc[h] = "session" /\ left[h] > 0
    /\ idle' = [idle EXCEPT ![h] = IdleTime]
    /\ left' = [left EXCEPT ![h] = SessionTime]
    /\ UNCHANGED <<settings, now, tickets, issued, active, limitVars, pc, ticket,
                   asrVars, sessions, connects>>

\* audio, or a ping: the idle timeout starts anew, the session's does not
Frame(h) ==
    /\ pc[h] = "session" /\ left[h] > 0
    /\ idle' = [idle EXCEPT ![h] = IdleTime]
    /\ UNCHANGED <<settings, now, tickets, issued, active, limitVars, pc, ticket, left,
                   asrVars, sessions, connects>>

\* the client leaves, a frame is too long or the ASR refuses it
Leave(h) ==
    /\ pc[h] = "session"
    /\ Closing(h) /\ NoTimers(h)
    /\ UNCHANGED <<settings, now, tickets, issued, active, limitVars, ticket, listening,
                   started, abandoned, unstopped, sessions, connects>>

\* one of the two timeouts
Expire(h) ==
    /\ pc[h] = "session" /\ (left[h] = 0 \/ idle[h] = 0)
    /\ Closing(h) /\ NoTimers(h)
    /\ UNCHANGED <<settings, now, tickets, issued, active, limitVars, ticket, listening,
                   started, abandoned, unstopped, sessions, connects>>

\* "stop": finish of a live session in a thread
Stop(h) ==
    /\ pc[h] = "session" /\ left[h] > 0 /\ started[h]
    /\ threads' = [threads EXCEPT ![h] = @ \cup {"finish"}]
    /\ Goto(h, "finish") /\ NoTimers(h)
    /\ UNCHANGED <<settings, now, tickets, issued, active, limitVars, ticket, listening,
                   started, abandoned, unstopped, sessions, connects>>

\* finish returned, raised or timed out
Finished(h) ==
    /\ pc[h] = "finish"
    /\ Closing(h)
    /\ UNCHANGED <<settings, now, tickets, issued, active, limitVars, ticket, timeVars,
                   listening, started, abandoned, unstopped, sessions, connects>>
-----------------------------------------------------------------------------
(* The end of a handler, and the threads.                                  *)

\* close returned or timed out
End(h) ==
    /\ pc[h] = "close"
    /\ Release
    /\ Goto(h, "closed")
    /\ UNCHANGED <<settings, now, tickets, issued, limitVars, ticket, timeVars, asrVars,
                   sessions, connects>>

\* _start_sync
StartThread(h) ==
    /\ "start" \in threads[h]
    /\ threads' = [threads EXCEPT ![h] = @ \ {"start"}]
    /\ \/ /\ listening' = [listening EXCEPT ![h] = TRUE]
          /\ started' = [started EXCEPT ![h] = TRUE]
       \/ UNCHANGED <<listening, started>>
    /\ UNCHANGED <<settings, now, tickets, issued, active, limitVars, pc, ticket,
                   timeVars, abandoned, unstopped, sessions, connects>>

\* stop() of the provider: the recognition ends, or stop raises and it may
\* go on
StopCalled(h) ==
    \/ /\ listening' = [listening EXCEPT ![h] = FALSE]
       /\ UNCHANGED unstopped
    \/ /\ unstopped' = [unstopped EXCEPT ![h] = @ \/ listening[h]]
       /\ UNCHANGED listening

\* _finish_sync, _close_sync: however stop ended, the session counts as not
\* started.  After a close a finish finds no recognition to stop.
StopThread(h) ==
    /\ \E k \in {"finish", "close"} \cap threads[h] :
         /\ threads' = [threads EXCEPT ![h] = @ \ {k}]
         /\ IF k = "finish" /\ ~started[h]
            THEN UNCHANGED <<listening, unstopped>> ELSE StopCalled(h)
    /\ started' = [started EXCEPT ![h] = FALSE]
    /\ UNCHANGED <<settings, now, tickets, issued, active, limitVars, pc, ticket,
                   timeVars, abandoned, sessions, connects>>

Run(h) ==
    \/ Accepted(h) \/ NotAccepted(h) \/ Started(h) \/ StartFailed(h)
    \/ Expire(h) \/ Finished(h) \/ End(h)

Thread(h) == StartThread(h) \/ StopThread(h)

Client(h) == Connect(h) \/ Frame(h) \/ Leave(h) \/ Stop(h)

Next ==
    \/ Tick \/ Issue
    \/ \E h \in Handler : Client(h) \/ Run(h) \/ Thread(h)

Spec == Init /\ [][Next]_vars

\* Time passes, the event loop runs what is due, threads end.  Nothing is
\* asked of the clients.
FairSpec ==
    /\ Spec /\ WF_vars(Tick)
    /\ \A h \in Handler : WF_vars(Run(h)) /\ WF_vars(Thread(h))
-----------------------------------------------------------------------------
(* Properties.                                                             *)

Places == {"closed", "accept", "start", "session", "finish", "close"}

TypeOK ==
    /\ settings \in Settings
    /\ now \in Nat /\ issued \in 0..MaxIssues /\ active \in Nat
    /\ tickets \subseteq TicketType(1..MaxIssues)
    /\ bucket \in [n : Nat, count : Nat]
    /\ recent \subseteq [n : Nat, at : Nat] /\ grants \subseteq [n : Nat, at : Nat]
    /\ pc \in [Handler -> Places]
    /\ ticket \in [Handler -> 0..MaxIssues]
    /\ idle \in [Handler -> Nat] /\ left \in [Handler -> Nat]
    /\ listening \in [Handler -> BOOLEAN]
    /\ started \in [Handler -> BOOLEAN] /\ abandoned \in [Handler -> BOOLEAN]
    /\ unstopped \in [Handler -> BOOLEAN]
    /\ threads \in [Handler -> SUBSET {"start", "finish", "close"}]
    /\ sessions \in [1..MaxIssues -> Nat]
    /\ connects \in Nat /\ faults \in Nat

\* The slots taken are the handlers that are between their try_acquire and
\* their release, and never more than the account may have
\* (device_app_voice_ws.py:114-121).
SlotsCounted ==
    /\ active = Cardinality({h \in Handler : pc[h] # "closed"})
    /\ active <= settings.slots

\* The variables have their types, and the slots are counted.
Consistent == TypeOK /\ SlotsCounted

\* A ticket opens one session (voice_app_ws_ticket.py:1), also when two
\* connections with it start their ASR at the same time
\* (device_app_voice_ws.py:241-242).
OneSessionPerTicket == \A i \in 1..issued : sessions[i] <= 1

\* "ticket only consumed after start succeeds": a ticket leaves the store
\* because it expired, because a session began on it or because the store was
\* full and few tickets had been issued before it, never because a connection
\* was refused.
TicketNotBurnt ==
    [][\A e \in tickets :
         \/ e \in tickets'
         \/ e.expires <= now
         \/ sessions'[e.id] # sessions[e.id]
         \/ /\ issued' # issued /\ Cardinality(tickets) >= MaxTickets
            /\ Cardinality({f \in tickets : f.id < e.id}) < Quarter(MaxTickets)]_vars

\* What the rate limit promises for any window: the limit; twice the limit
\* with the calendar buckets of Redis (rate_limiter.py:79-81); and once more
\* when calls of Redis fail and the memory of the process steps in.
BurstBounded ==
    Cardinality(grants) <=
        settings.rate * (IF ~settings.redis THEN 1 ELSE IF faults = 0 THEN 2 ELSE 3)

\* A recognition outlives its handler and its threads in two cases only: its
\* start was given up while it ran, so that close found nothing started and
\* the thread started what nobody stops; or a stop() raised, after which the
\* session no longer counts as started (streaming_asr.py:182-183, :200-204).
RecognitionStopped ==
    \A h \in Handler :
        pc[h] = "closed" /\ threads[h] = {} /\ listening[h] => abandoned[h] \/ unstopped[h]

\* Whatever the client does, a handler gives its slot back.
SlotFreed == \A h \in Handler : pc[h] # "closed" ~> pc[h] = "closed"
=============================================================================
