-------------------------- MODULE VoiceSocket_proofs --------------------------
(* Theorems about VoiceSocket, for every number of connections, every limit *)
(* on the slots and every length of the clock.                              *)
EXTENDS VoiceSocket, FiniteSetTheorems, NaturalsInduction, WellFoundedInduction, TLAPS

Open == {h \in Handler : pc[h] # "closed"}

\* The inductive invariant: the counter is the number of open handlers.
SlotInv ==
    /\ settings \in Settings
    /\ pc \in [Handler -> Places]
    /\ active = Cardinality(Open)
    /\ active <= settings.slots

\* The open handlers are finitely many.
LEMMA OpenIsFinite == IsFiniteSet(Open) /\ Cardinality(Open) \in Nat
  BY VoiceSocketAssumption, FS_Subset, FS_CardinalityType DEF Open

\* Nothing is counted where a handler goes from one open place to another.
LEMMA StaysOpen ==
    ASSUME SlotInv, UNCHANGED <<settings, active>>, pc' \in [Handler -> Places],
           \A h \in Handler : pc[h] = "closed" <=> pc'[h] = "closed"
    PROVE  SlotInv'
<1>1. Open' = Open
  BY DEF Open
<1> QED
  BY <1>1 DEF SlotInv

\* A connection that takes a slot.
LEMMA Opens ==
    ASSUME SlotInv, NEW h \in Handler, pc[h] = "closed", Goto(h, "accept"), HasSlot,
           active' = active + 1, UNCHANGED settings
    PROVE  SlotInv'
<1>1. pc' \in [Handler -> Places] /\ Open' = Open \cup {h} /\ h \notin Open
  BY DEF SlotInv, Goto, Open, Places
<1>2. Cardinality(Open') = Cardinality(Open) + 1
  BY <1>1, OpenIsFinite, FS_AddElement
<1>3. active' <= settings'.slots
  BY OpenIsFinite, VoiceSocketAssumption DEF SlotInv, HasSlot
<1> QED
  BY <1>1, <1>2, <1>3 DEF SlotInv

\* A handler that ends and gives its slot back.
LEMMA Closes ==
    ASSUME SlotInv, NEW h \in Handler, pc[h] # "closed", Goto(h, "closed"), Release,
           UNCHANGED settings
    PROVE  SlotInv'
<1>1. pc' \in [Handler -> Places] /\ Open' = Open \ {h} /\ h \in Open
  BY DEF SlotInv, Goto, Open, Places
<1>2. Cardinality(Open') = Cardinality(Open) - 1
  BY <1>1, OpenIsFinite, FS_RemoveElement
<1>3. Cardinality(Open) # 0
  BY <1>1, OpenIsFinite, FS_EmptySet
<1>4. active' = Cardinality(Open')
  BY <1>2, <1>3, OpenIsFinite DEF SlotInv, Release
<1>5. active' <= settings'.slots
  BY <1>2, <1>4, OpenIsFinite, VoiceSocketAssumption DEF SlotInv
<1> QED
  BY <1>1, <1>4, <1>5 DEF SlotInv

\* Every step keeps the slots counted.
LEMMA SlotStep == SlotInv /\ [Next]_vars => SlotInv'
<1> SUFFICES ASSUME SlotInv, [Next]_vars PROVE SlotInv'
  OBVIOUS
<1>1. CASE Tick \/ Issue
  BY <1>1, StaysOpen DEF Tick, Issue, SlotInv
<1>2. ASSUME NEW h \in Handler, Connect(h) PROVE SlotInv'
  <2>1. CASE UNCHANGED <<active, pc>>
    BY <1>2, <2>1, StaysOpen DEF Connect, SlotInv
  <2>2. CASE HasSlot /\ active' = active + 1 /\ Goto(h, "accept")
    BY <1>2, <2>2, Opens DEF Connect
  <2> QED
    BY <1>2, <2>1, <2>2 DEF Connect
<1>3. ASSUME NEW h \in Handler, Frame(h) \/ StartThread(h) \/ StopThread(h) PROVE SlotInv'
  BY <1>3, StaysOpen DEF Frame, StartThread, StopThread, SlotInv
<1>4. ASSUME NEW h \in Handler, Accepted(h) \/ Started(h) \/ StartFailed(h) PROVE SlotInv'
  <2>1. /\ pc[h] # "closed" /\ UNCHANGED <<settings, active>>
        /\ \E place \in {"start", "session", "close"} : Goto(h, place)
    BY <1>4 DEF Accepted, Started, StartFailed, Begin, Closing
  <2> QED
    BY <2>1, StaysOpen DEF Goto, SlotInv, Places
<1>5. ASSUME NEW h \in Handler, Leave(h) \/ Expire(h) \/ Stop(h) \/ Finished(h)
      PROVE  SlotInv'
  <2>1. /\ pc[h] # "closed" /\ UNCHANGED <<settings, active>>
        /\ \E place \in {"finish", "close"} : Goto(h, place)
    BY <1>5 DEF Leave, Expire, Stop, Finished, Closing
  <2> QED
    BY <2>1, StaysOpen DEF Goto, SlotInv, Places
<1>6. ASSUME NEW h \in Handler, NotAccepted(h) \/ End(h) PROVE SlotInv'
  BY <1>6, Closes DEF NotAccepted, End
<1>7. CASE UNCHANGED vars
  BY <1>7, StaysOpen DEF vars, SlotInv
<1> QED
  BY <1>1, <1>2, <1>3, <1>4, <1>5, <1>6, <1>7 DEF Next, Client, Run, Thread

\* The slots taken are the handlers between their try_acquire and their
\* release, and an account never has more than it may
\* (device_app_voice_ws.py:114-121, voice_ws_connections.py:13-37).
THEOREM SlotsAreCounted == Spec => []SlotsCounted
<1>1. Init => SlotInv
  <2> SUFFICES ASSUME Init PROVE SlotInv
    OBVIOUS
  <2>1. Open = {}
    BY DEF Init, Open
  <2> QED
    BY <2>1, FS_EmptySet, VoiceSocketAssumption DEF Init, SlotInv, Places
<1>2. SlotInv => SlotsCounted
  BY DEF SlotInv, SlotsCounted, Open
<1> QED
  BY <1>1, <1>2, SlotStep, PTL DEF Spec
-----------------------------------------------------------------------------
(* The types.                                                              *)

Stamps == [n : Nat, at : Nat]

\* The stamps and the counter of a bucket have their types.
LEMMA StampTyped == TypeOK => Stamp \in Stamps /\ Counted \in [n : Nat, count : Nat]
<1> SUFFICES ASSUME TypeOK PROVE Stamp \in Stamps /\ Counted \in [n : Nat, count : Nat]
  OBVIOUS
<1>1. now \in Nat /\ connects \in Nat /\ bucket.count \in Nat
  BY DEF TypeOK
<1>2. now \div Window \in Nat
  BY <1>1, VoiceSocketAssumption
<1> QED
  BY <1>1, <1>2 DEF Stamp, Stamps, Counted

\* What the stores of tickets give back are tickets.
LEMMA TicketsTyped ==
    ASSUME TypeOK, NEW S, S = TicketType(1..MaxIssues)
    PROVE  /\ Purged(tickets, now) \subseteq S
           /\ \A i : Taken(tickets, i, now) \subseteq S
           /\ issued < MaxIssues => Issued(tickets, issued + 1, now) \subseteq S
<1>1. Purged(tickets, now) \subseteq S
  BY DEF TypeOK, Purged
<1>2. Evicted(Purged(tickets, now)) \subseteq S
  BY <1>1 DEF Evicted
<1>3. ASSUME issued < MaxIssues PROVE [id |-> issued + 1, expires |-> now + TTL] \in S
  BY <1>3, VoiceSocketAssumption DEF TypeOK, TicketType
<1> QED
  BY <1>1, <1>2, <1>3 DEF Taken, Issued

\* What the rate limit writes has its type.
LEMMA RateTyped ==
    ASSUME TypeOK, NEW ok, RateLimit(ok)
    PROVE  /\ recent' \subseteq Stamps /\ grants' \subseteq Stamps
           /\ bucket' \in [n : Nat, count : Nat] /\ faults' \in Nat
<1>1. Stamp \in Stamps /\ Counted \in [n : Nat, count : Nat]
  BY StampTyped
<1>2. recent \subseteq Stamps /\ grants \subseteq Stamps /\ bucket \in [n : Nat, count : Nat] /\ faults \in Nat
  BY DEF TypeOK, Stamps
<1>3. grants' \subseteq Stamps
  BY <1>1, <1>2 DEF RateLimit, Passed
<1>4. Pruned(recent) \subseteq Stamps
  BY <1>2 DEF Pruned
<1>5. recent' \subseteq Stamps
  BY <1>1, <1>2, <1>4 DEF RateLimit, InMemory
<1>6. bucket' \in [n : Nat, count : Nat] /\ faults' \in Nat
  BY <1>1, <1>2 DEF RateLimit
<1> QED
  BY <1>3, <1>5, <1>6

\* A counter that goes up stays a number.
LEMMA CountedUp ==
    ASSUME NEW S, NEW f \in [S -> Nat], NEW x
    PROVE  [f EXCEPT ![x] = @ + 1] \in [S -> Nat]
<1>1. CASE x \in S
  <2>1. f[x] + 1 \in Nat
    BY <1>1
  <2> QED
    BY <2>1, Zenon
<1>2. CASE x \notin S
  BY <1>2, Zenon
<1> QED
  BY <1>1, <1>2

\* Every step keeps the types.
LEMMA TypeStep == TypeOK /\ [Next]_vars => TypeOK'
<1> SUFFICES ASSUME TypeOK, [Next]_vars PROVE TypeOK'
  OBVIOUS
<1> USE VoiceSocketAssumption DEF limitVars, timeVars, asrVars, Stamps
<1>0. /\ {"closed", "accept", "start", "session", "finish", "close"} = Places
      /\ \A n \in Nat : Down(n) \in Nat
  BY DEF Places, Down
<1>1. ASSUME NEW h \in Handler, NEW p \in Places, Goto(h, p) PROVE pc' \in [Handler -> Places]
  BY <1>1 DEF Goto, TypeOK
<1>2. ASSUME NEW h \in Handler, Closing(h)
      PROVE  pc' \in [Handler -> Places] /\ threads' \in [Handler -> SUBSET {"start", "finish", "close"}]
  <2>1. pc' \in [Handler -> Places]
    BY <1>0, <1>1, <1>2 DEF Closing
  <2>2. threads' \in [Handler -> SUBSET {"start", "finish", "close"}]
    BY <1>2 DEF Closing, TypeOK
  <2> QED
    BY <2>1, <2>2
<1>3. CASE Tick
  <2>1. now' \in Nat
    BY <1>3 DEF Tick, TypeOK
  <2>2. idle' \in [Handler -> Nat] /\ left' \in [Handler -> Nat]
    BY <1>0, <1>3 DEF Tick, TypeOK
  <2> QED
    BY <1>3, <2>1, <2>2 DEF Tick, TypeOK
<1>4. CASE Issue
  <2>0. issued < MaxIssues
    BY <1>4 DEF Issue, TypeOK
  <2>1. tickets' \subseteq TicketType(1..MaxIssues)
    BY <1>4, <2>0, TicketsTyped DEF Issue
  <2>2. issued' \in 0..MaxIssues
    BY <1>4 DEF Issue, TypeOK
  <2> QED
    BY <1>4, <2>1, <2>2 DEF Issue, TypeOK
<1>5. ASSUME NEW h \in Handler, Connect(h) PROVE TypeOK'
  <2>1. /\ recent' \subseteq Stamps /\ grants' \subseteq Stamps
        /\ bucket' \in [n : Nat, count : Nat] /\ faults' \in Nat
    <3>1. RateLimit(TRUE) \/ RateLimit(FALSE) \/ UNCHANGED limitVars
      BY <1>5 DEF Connect
    <3> QED
      BY <3>1, RateTyped DEF TypeOK
  <2>2. tickets' \subseteq TicketType(1..MaxIssues)
    BY <1>5, TicketsTyped DEF Connect
  <2>3. ticket' \in [Handler -> 0..MaxIssues]
    BY <1>5 DEF Connect, TypeOK
  <2>4. active' \in Nat
    <3>1. UNCHANGED active \/ active' = active + 1
      BY <1>5 DEF Connect
    <3> QED
      BY <3>1 DEF TypeOK
  <2>7. pc' \in [Handler -> Places]
    <3>1. UNCHANGED pc \/ Goto(h, "accept")
      BY <1>5 DEF Connect
    <3> QED
      BY <1>0, <1>1, <3>1 DEF TypeOK
  <2>5. /\ listening' \in [Handler -> BOOLEAN] /\ started' \in [Handler -> BOOLEAN]
        /\ abandoned' \in [Handler -> BOOLEAN] /\ connects' \in Nat
        /\ unstopped' \in [Handler -> BOOLEAN]
    BY <1>5 DEF Connect, TypeOK
  <2>6. UNCHANGED <<settings, now, issued, timeVars, threads, sessions>>
    BY <1>5 DEF Connect
  <2> QED
    BY <2>1, <2>2, <2>3, <2>4, <2>5, <2>6, <2>7 DEF TypeOK
<1>6. ASSUME NEW h \in Handler, Begin(h)
      PROVE  /\ tickets' \subseteq TicketType(1..MaxIssues) /\ sessions' \in [1..MaxIssues -> Nat]
             /\ pc' \in [Handler -> Places] /\ threads' \in [Handler -> SUBSET {"start", "finish", "close"}]
             /\ idle' \in [Handler -> Nat] /\ left' \in [Handler -> Nat]
  <2>1. tickets' \subseteq TicketType(1..MaxIssues)
    BY <1>6, TicketsTyped DEF Begin
  <2>2. CASE Found(tickets, ticket[h], now)
    <3>1. UNCHANGED threads /\ sessions' \in [1..MaxIssues -> Nat]
      <4>1. sessions' = [sessions EXCEPT ![ticket[h]] = @ + 1] /\ UNCHANGED threads
        BY <1>6, <2>2 DEF Begin
      <4>2. sessions \in [1..MaxIssues -> Nat]
        BY DEF TypeOK
      <4> QED
        BY <4>1, <4>2, CountedUp
    <3>2. pc' \in [Handler -> Places]
      BY <1>0, <1>1, <1>6, <2>2 DEF Begin
    <3>3. idle' \in [Handler -> Nat] /\ left' \in [Handler -> Nat]
      <4>1. /\ idle' = [idle EXCEPT ![h] = IdleTime]
            /\ left' = [left EXCEPT ![h] = SessionTime]
        BY <1>6, <2>2 DEF Begin
      <4>2. idle \in [Handler -> Nat] /\ left \in [Handler -> Nat]
        BY DEF TypeOK
      <4> QED
        BY <4>1, <4>2
    <3> QED
      BY <2>1, <3>1, <3>2, <3>3 DEF TypeOK
  <2>3. CASE ~Found(tickets, ticket[h], now)
    BY <1>2, <1>6, <2>1, <2>3 DEF Begin, TypeOK
  <2> QED
    BY <2>2, <2>3
<1>7. ASSUME NEW h \in Handler, Accepted(h) PROVE TypeOK'
  <2>1. UNCHANGED <<settings, now, issued, active, limitVars, ticket, listening, started, abandoned, unstopped, connects>>
    BY <1>7 DEF Accepted
  <2>2. CASE Begin(h)
    BY <1>6, <2>1, <2>2 DEF TypeOK
  <2>3. CASE ~Begin(h)
    <3>1. pc' \in [Handler -> Places] /\ threads' \in [Handler -> SUBSET {"start", "finish", "close"}]
      <4>1. Goto(h, "start") /\ threads' = [threads EXCEPT ![h] = {"start"}]
        BY <1>7, <2>3 DEF Accepted
      <4>2. pc' \in [Handler -> Places]
        BY <1>0, <1>1, <4>1
      <4>3. threads' \in [Handler -> SUBSET {"start", "finish", "close"}]
        BY <4>1 DEF TypeOK
      <4> QED
        BY <4>2, <4>3
    <3> QED
      BY <1>7, <2>1, <2>3, <3>1 DEF Accepted, TypeOK
  <2> QED
    BY <2>2, <2>3
<1>8. ASSUME NEW h \in Handler, Started(h) PROVE TypeOK'
  BY <1>6, <1>8 DEF Started, TypeOK
<1>9. ASSUME NEW h \in Handler, StartFailed(h) PROVE TypeOK'
  <2>1. abandoned' \in [Handler -> BOOLEAN]
    BY <1>9 DEF StartFailed, TypeOK
  <2> QED
    BY <1>2, <1>9, <2>1 DEF StartFailed, TypeOK
<1>10. ASSUME NEW h \in Handler, NotAccepted(h) \/ End(h) PROVE TypeOK'
  <2>1. active' \in Nat
    BY <1>10 DEF NotAccepted, End, Release, TypeOK
  <2>2. pc' \in [Handler -> Places]
    BY <1>0, <1>1, <1>10 DEF NotAccepted, End
  <2> QED
    BY <1>10, <2>1, <2>2 DEF NotAccepted, End, TypeOK
<1>11. ASSUME NEW h \in Handler, Frame(h) PROVE TypeOK'
  BY <1>11 DEF Frame, TypeOK
<1>12. ASSUME NEW h \in Handler, Leave(h) \/ Expire(h) \/ Finished(h) PROVE TypeOK'
  <2>1. idle' \in [Handler -> Nat] /\ left' \in [Handler -> Nat]
    <3>1. NoTimers(h) \/ UNCHANGED <<idle, left>>
      BY <1>12 DEF Leave, Expire, Finished
    <3>2. idle \in [Handler -> Nat] /\ left \in [Handler -> Nat]
      BY DEF TypeOK
    <3> QED
      BY <3>1, <3>2 DEF NoTimers
  <2> QED
    BY <1>2, <1>12, <2>1 DEF Leave, Expire, Finished, TypeOK
<1>13. ASSUME NEW h \in Handler, Stop(h) PROVE TypeOK'
  <2>1. idle' \in [Handler -> Nat] /\ left' \in [Handler -> Nat]
    BY <1>13 DEF Stop, NoTimers, TypeOK
  <2>2. pc' \in [Handler -> Places]
    BY <1>0, <1>1, <1>13 DEF Stop
  <2>3. threads' \in [Handler -> SUBSET {"start", "finish", "close"}]
    BY <1>13 DEF Stop, TypeOK
  <2> QED
    BY <1>13, <2>1, <2>2, <2>3 DEF Stop, TypeOK
<1>14. ASSUME NEW h \in Handler, StartThread(h) \/ StopThread(h) PROVE TypeOK'
  <2>1. threads' \in [Handler -> SUBSET {"start", "finish", "close"}]
    <3>1. \E k : threads' = [threads EXCEPT ![h] = threads[h] \ {k}]
      BY <1>14 DEF StartThread, StopThread
    <3>2. PICK k : threads' = [threads EXCEPT ![h] = threads[h] \ {k}]
      BY <3>1
    <3> QED
      BY <3>2 DEF TypeOK
  <2>2. /\ listening' \in [Handler -> BOOLEAN] /\ started' \in [Handler -> BOOLEAN]
        /\ unstopped' \in [Handler -> BOOLEAN]
    BY <1>14 DEF StartThread, StopThread, StopCalled, TypeOK
  <2> QED
    BY <1>14, <2>1, <2>2 DEF StartThread, StopThread, TypeOK
<1>15. CASE UNCHANGED vars
  BY <1>15 DEF vars, TypeOK
<1> QED
  BY <1>3, <1>4, <1>5, <1>7, <1>8, <1>9, <1>10, <1>11, <1>12, <1>13, <1>14, <1>15
     DEF Next, Client, Run, Thread

\* The variables have their types, and the slots are counted
\* (device_app_voice_ws.py:114-121).
THEOREM TypesAndSlots == Spec => []Consistent
<1>1. Init => TypeOK
  <2> SUFFICES ASSUME Init PROVE TypeOK
    OBVIOUS
  <2> USE VoiceSocketAssumption
  <2>1. /\ settings \in Settings /\ now \in Nat /\ issued \in 0..MaxIssues /\ active \in Nat
        /\ tickets \subseteq TicketType(1..MaxIssues) /\ connects \in Nat /\ faults \in Nat
    BY DEF Init
  <2>2. /\ bucket \in [n : Nat, count : Nat]
        /\ recent \subseteq Stamps /\ grants \subseteq Stamps
    BY DEF Init
  <2>3. pc \in [Handler -> Places] /\ ticket \in [Handler -> 0..MaxIssues]
    BY DEF Init, Places
  <2>4. idle \in [Handler -> Nat] /\ left \in [Handler -> Nat] /\ sessions \in [1..MaxIssues -> Nat]
    BY DEF Init
  <2>5. /\ listening \in [Handler -> BOOLEAN]
        /\ started \in [Handler -> BOOLEAN] /\ abandoned \in [Handler -> BOOLEAN]
        /\ unstopped \in [Handler -> BOOLEAN]
    BY DEF Init
  <2>6. threads \in [Handler -> SUBSET {"start", "finish", "close"}]
    BY DEF Init
  <2> QED
    BY <2>1, <2>2, <2>3, <2>4, <2>5, <2>6 DEF TypeOK, Stamps
<1>2. Spec => []TypeOK
  BY <1>1, TypeStep, PTL DEF Spec
<1> QED
  BY <1>2, SlotsAreCounted, PTL DEF Consistent
-----------------------------------------------------------------------------
(* The recognition.                                                        *)

\* A recognition that runs is known to its session as started, unless a stop
\* of it raised; one that is started and was not given up has its handler, or a
\* thread that closes it.
RecognisedOf(h) ==
    /\ listening[h] => started[h] \/ unstopped[h]
    /\ pc[h] \in {"accept", "start", "session", "finish"} => ~abandoned[h]
    /\ pc[h] = "accept" => threads[h] = {} /\ ~started[h]
    /\ "start" \in threads[h] => (pc[h] = "start" /\ ~started[h]) \/ abandoned[h]
    /\ pc[h] \in {"close", "closed"} /\ started[h] => "close" \in threads[h] \/ abandoned[h]

Recognised == \A h \in Handler : RecognisedOf(h)

\* A step of one handler and of its threads is nothing to the others.
LEMMA Alone ==
    ASSUME Recognised, NEW h \in Handler, RecognisedOf(h)',
           \A g \in Handler \ {h} :
             /\ pc'[g] = pc[g] /\ threads'[g] = threads[g]
             /\ listening'[g] = listening[g] /\ started'[g] = started[g]
             /\ abandoned'[g] = abandoned[g] /\ unstopped'[g] = unstopped[g]
    PROVE  Recognised'
<1> SUFFICES ASSUME NEW g \in Handler PROVE RecognisedOf(g)'
  BY DEF Recognised
<1>1. CASE g = h
  BY <1>1
<1>2. CASE g # h
  BY <1>2 DEF Recognised, RecognisedOf
<1> QED
  BY <1>1, <1>2

\* A handler whose places and threads are changed, and not its recognition.
LEMMA Moved ==
    ASSUME TypeOK, Recognised, NEW h \in Handler, NEW p \in Places, NEW T,
           Goto(h, p), threads' = [threads EXCEPT ![h] = T],
           UNCHANGED <<listening, started, abandoned, unstopped>>,
           p \in {"accept", "start", "session", "finish"} => ~abandoned[h],
           p = "accept" => T = {} /\ ~started[h],
           "start" \in T => (p = "start" /\ ~started[h]) \/ abandoned[h],
           p \in {"close", "closed"} /\ started[h] => "close" \in T \/ abandoned[h]
    PROVE  Recognised'
<1>1. pc'[h] = p /\ threads'[h] = T
  BY DEF Goto, TypeOK
<1>2. \A g \in Handler \ {h} : pc'[g] = pc[g] /\ threads'[g] = threads[g]
  BY DEF Goto, TypeOK
<1>3. RecognisedOf(h)'
  BY <1>1 DEF Recognised, RecognisedOf
<1> QED
  BY <1>2, <1>3, Alone

\* A session that is finalised is closed by a thread, if it is started.
LEMMA Finalised ==
    ASSUME TypeOK, Recognised, NEW h \in Handler, Closing(h), pc[h] # "start",
           pc[h] \notin {"closed", "close"}, UNCHANGED <<listening, started, abandoned, unstopped>>
    PROVE  Recognised'
<1> DEFINE T == IF started[h] THEN threads[h] \cup {"close"} ELSE threads[h]
<1>1. Goto(h, "close") /\ threads' = [threads EXCEPT ![h] = T] /\ "close" \in Places
  BY DEF Closing, Places
<1>2. "start" \in T => abandoned[h]
  BY DEF Recognised, RecognisedOf
<1>3. started[h] => "close" \in T
  OBVIOUS
<1> HIDE DEF T
<1> QED
  BY <1>1, <1>2, <1>3, Moved

\* A session that begins, or is finalised because its ticket is gone.
LEMMA Begun ==
    ASSUME TypeOK, Recognised, NEW h \in Handler, Begin(h), pc[h] \in {"accept", "start"},
           "start" \notin threads[h], UNCHANGED <<listening, started, abandoned, unstopped>>
    PROVE  Recognised'
<1>1. CASE Found(tickets, ticket[h], now)
  <2>1. Goto(h, "session") /\ UNCHANGED threads /\ "session" \in Places
    BY <1>1 DEF Begin, Places
  <2>2. threads' = [threads EXCEPT ![h] = threads[h]]
    BY <2>1 DEF TypeOK
  <2>3. ~abandoned[h]
    BY DEF Recognised, RecognisedOf
  <2> QED
    BY <2>1, <2>2, <2>3, Moved
<1>2. CASE ~Found(tickets, ticket[h], now)
  <2> DEFINE T == IF started[h] THEN threads[h] \cup {"close"} ELSE threads[h]
  <2>1. Goto(h, "close") /\ threads' = [threads EXCEPT ![h] = T] /\ "close" \in Places
    BY <1>2 DEF Begin, Closing, Places
  <2>2. "start" \notin T /\ (started[h] => "close" \in T)
    OBVIOUS
  <2> HIDE DEF T
  <2> QED
    BY <2>1, <2>2, Moved
<1> QED
  BY <1>1, <1>2

\* Every step keeps the recognitions accounted for.
LEMMA RecognisedStep == TypeOK /\ Recognised /\ [Next]_vars => Recognised'
<1> SUFFICES ASSUME TypeOK, Recognised, [Next]_vars PROVE Recognised'
  OBVIOUS
<1> USE DEF timeVars, asrVars
<1>1. CASE Tick \/ Issue \/ UNCHANGED vars
  <2>1. UNCHANGED <<pc, listening, started, threads, abandoned, unstopped>>
    BY <1>1 DEF Tick, Issue, vars
  <2> QED
    BY <2>1 DEF Recognised, RecognisedOf
<1>2. ASSUME NEW h \in Handler, Connect(h) PROVE Recognised'
  <2>1. /\ pc' = pc \/ Goto(h, "accept")
        /\ threads[h] = {} /\ UNCHANGED threads /\ pc[h] = "closed"
    BY <1>2 DEF Connect
  <2>2. /\ ~listening'[h] /\ ~started'[h] /\ ~abandoned'[h]
        /\ \A g \in Handler \ {h} :
             /\ listening'[g] = listening[g] /\ started'[g] = started[g]
             /\ abandoned'[g] = abandoned[g] /\ unstopped'[g] = unstopped[g]
    BY <1>2 DEF Connect, TypeOK
  <2>3. pc'[h] \in {"closed", "accept"} /\ \A g \in Handler \ {h} : pc'[g] = pc[g]
    BY <2>1 DEF Goto, TypeOK
  <2>4. RecognisedOf(h)'
    BY <2>1, <2>2, <2>3 DEF RecognisedOf
  <2> QED
    BY <2>1, <2>2, <2>3, <2>4, Alone
<1>3. ASSUME NEW h \in Handler, Accepted(h) PROVE Recognised'
  <2>1. /\ pc[h] = "accept" /\ threads[h] = {} /\ ~abandoned[h] /\ ~started[h]
        /\ UNCHANGED <<listening, started, abandoned, unstopped>>
    BY <1>3 DEF Accepted, Recognised, RecognisedOf
  <2>2. CASE Begin(h)
    BY <2>1, <2>2, Begun
  <2>3. CASE ~Begin(h)
    <3>1. /\ Goto(h, "start") /\ threads' = [threads EXCEPT ![h] = {"start"}]
          /\ "start" \in Places
      BY <1>3, <2>3 DEF Accepted, Places
    <3> QED
      BY <2>1, <3>1, Moved
  <2> QED
    BY <2>2, <2>3
<1>4. ASSUME NEW h \in Handler, NotAccepted(h) \/ End(h) PROVE Recognised'
  <2>1. /\ pc[h] \in {"accept", "close"} /\ Goto(h, "closed") /\ "closed" \in Places
        /\ UNCHANGED <<listening, started, abandoned, unstopped, threads>>
    BY <1>4 DEF NotAccepted, End, Places
  <2>2. threads' = [threads EXCEPT ![h] = threads[h]]
    BY <2>1 DEF TypeOK
  <2>3. /\ "start" \in threads[h] => abandoned[h]
        /\ started[h] => "close" \in threads[h] \/ abandoned[h]
    BY <2>1 DEF Recognised, RecognisedOf
  <2> QED
    BY <2>1, <2>2, <2>3, Moved
<1>5. ASSUME NEW h \in Handler, Started(h) PROVE Recognised'
  BY <1>5, Begun DEF Started
<1>6. ASSUME NEW h \in Handler, StartFailed(h) PROVE Recognised'
  <2>1. /\ pc'[h] = "close" /\ threads'[h] = threads[h]
        /\ (abandoned'[h] <=> "start" \in threads[h])
        /\ \A g \in Handler \ {h} :
             pc'[g] = pc[g] /\ threads'[g] = threads[g] /\ abandoned'[g] = abandoned[g]
    BY <1>6 DEF StartFailed, Closing, Goto, TypeOK
  <2>2. ~started[h] /\ UNCHANGED <<listening, started, unstopped>>
    BY <1>6 DEF StartFailed
  <2>3. RecognisedOf(h)'
    BY <2>1, <2>2 DEF Recognised, RecognisedOf
  <2> QED
    BY <2>1, <2>2, <2>3, Alone
<1>7. ASSUME NEW h \in Handler, Frame(h) PROVE Recognised'
  BY <1>7 DEF Frame, Recognised, RecognisedOf
<1>8. ASSUME NEW h \in Handler, Leave(h) \/ Expire(h) \/ Finished(h) PROVE Recognised'
  <2>1. /\ Closing(h) /\ pc[h] \in {"session", "finish"}
        /\ UNCHANGED <<listening, started, abandoned, unstopped>>
    BY <1>8 DEF Leave, Expire, Finished
  <2> QED
    BY <2>1, Finalised
<1>9. ASSUME NEW h \in Handler, Stop(h) PROVE Recognised'
  <2> DEFINE T == threads[h] \cup {"finish"}
  <2>1. /\ pc[h] = "session" /\ Goto(h, "finish") /\ "finish" \in Places
        /\ threads' = [threads EXCEPT ![h] = T]
        /\ UNCHANGED <<listening, started, abandoned, unstopped>>
    BY <1>9 DEF Stop, Places
  <2>2. ~abandoned[h] /\ "start" \notin T
    BY <2>1 DEF Recognised, RecognisedOf
  <2> HIDE DEF T
  <2> QED
    BY <2>1, <2>2, Moved
<1>10. ASSUME NEW h \in Handler, StartThread(h) PROVE Recognised'
  <2>1. /\ "start" \in threads[h] /\ "start" \notin threads'[h]
        /\ ("close" \in threads[h] <=> "close" \in threads'[h])
        /\ UNCHANGED <<pc, abandoned, unstopped>>
        /\ \A g \in Handler \ {h} : threads'[g] = threads[g]
    BY <1>10 DEF StartThread, TypeOK
  <2>2. /\ \/ listening'[h] /\ started'[h]
           \/ listening'[h] = listening[h] /\ started'[h] = started[h]
        /\ \A g \in Handler \ {h} : listening'[g] = listening[g] /\ started'[g] = started[g]
    BY <1>10 DEF StartThread, TypeOK
  <2>3. pc[h] = "accept" => threads[h] = {}
    BY DEF Recognised, RecognisedOf
  <2>4. RecognisedOf(h)'
    BY <2>1, <2>2, <2>3 DEF Recognised, RecognisedOf
  <2> QED
    BY <2>1, <2>2, <2>4, Alone
<1>11. ASSUME NEW h \in Handler, StopThread(h) PROVE Recognised'
  <2>1. PICK k \in {"finish", "close"} \cap threads[h] :
          /\ threads' = [threads EXCEPT ![h] = @ \ {k}]
          /\ IF k = "finish" /\ ~started[h]
             THEN UNCHANGED <<listening, unstopped>> ELSE StopCalled(h)
    BY <1>11 DEF StopThread
  <2>2. /\ threads[h] # {} /\ threads'[h] \subseteq threads[h]
        /\ \A g \in Handler \ {h} : threads'[g] = threads[g]
    BY <2>1 DEF TypeOK
  <2>3. /\ ~started'[h] /\ UNCHANGED <<pc, abandoned>>
        /\ \A g \in Handler \ {h} : /\ listening'[g] = listening[g] /\ started'[g] = started[g]
                                   /\ unstopped'[g] = unstopped[g]
    BY <1>11, <2>1 DEF StopThread, StopCalled, TypeOK
  \* a stop that raised is remembered; without a stop nothing had been started
  <2>6. listening'[h] => unstopped'[h]
    <3>1. CASE k = "finish" /\ ~started[h]
      BY <2>1, <3>1 DEF Recognised, RecognisedOf
    <3>2. CASE ~(k = "finish" /\ ~started[h])
      BY <2>1, <3>2 DEF StopCalled, TypeOK
    <3> QED
      BY <3>1, <3>2
  <2>4. RecognisedOf(h)'
    BY <2>2, <2>3, <2>6 DEF Recognised, RecognisedOf
  <2> QED
    BY <2>2, <2>3, <2>4, Alone
<1> QED
  BY <1>1, <1>2, <1>3, <1>4, <1>5, <1>6, <1>7, <1>8, <1>9, <1>10, <1>11
     DEF Next, Client, Run, Thread

\* A recognition outlives its handler and its threads only if its start was
\* given up while it ran, or a stop of it raised (streaming_asr.py,
\* _start_sync, _finish_sync and _close_sync).
THEOREM NoOtherOrphan == Spec => []RecognitionStopped
<1>1. Init => Recognised
  BY DEF Init, Recognised, RecognisedOf
<1>2. Recognised => RecognitionStopped
  BY DEF Recognised, RecognisedOf, RecognitionStopped
<1>3. Spec => []TypeOK
  BY TypesAndSlots, PTL DEF Consistent
<1> QED
  BY <1>1, <1>2, <1>3, RecognisedStep, PTL DEF Spec
-----------------------------------------------------------------------------
(* The tickets.                                                            *)

\* The store: it is never over its limit, and its tickets expire in the order
\* in which they were issued.
StoreSound ==
    /\ IsFiniteSet(tickets) /\ Cardinality(tickets) <= MaxTickets
    /\ \A e \in tickets : e.id <= issued /\ e.expires <= now + TTL
    /\ \A e, f \in tickets :
         /\ e.id = f.id => e = f
         /\ e.id < f.id => e.expires <= f.expires

\* Ticket i may still open a session: it is in the store, or not yet issued.
Unused(i) == i > issued \/ \E e \in tickets : e.id = i

\* No ticket opened two sessions, and none that may still open one has.
SessionsSound ==
    \A i \in 1..MaxIssues : sessions[i] <= 1 /\ (Unused(i) => sessions[i] = 0)

TicketInv == TypeOK /\ StoreSound /\ SessionsSound

\* A nonempty set of natural numbers has a least element.
LEMMA LeastElement ==
    ASSUME NEW S \in SUBSET Nat, NEW n \in S
    PROVE  \E m \in S : \A l \in S : m =< l
<1> DEFINE R == OpToRel(<, Nat)
<1>1. \A x, y \in Nat : <<x, y>> \in R <=> x < y
  BY DEF OpToRel
<1>2. PICK m \in S : \A y \in S : <<y, m>> \notin R
  <2>1. IsWellFoundedOn(R, Nat)
    BY NatLessThanWellFounded
  <2> HIDE DEF R
  <2> QED
    BY <2>1, WFMin
<1> HIDE DEF R
<1>3. ASSUME NEW y \in S PROVE m =< y
  <2>1. m \in Nat /\ y \in Nat
    OBVIOUS
  <2>2. ~(y < m)
    BY <1>1, <1>2, <2>1
  <2> QED
    BY <2>1, <2>2
<1> QED
  BY <1>3

\* In a store that is sound, what expires sooner was issued earlier.
LEMMA SoonerIsEarlier ==
    ASSUME TypeOK, StoreSound, NEW e \in tickets, NEW f \in tickets
    PROVE  Sooner(f, e) <=> f.id < e.id
<1>1. /\ e.id \in Nat /\ f.id \in Nat /\ e.expires \in Nat /\ f.expires \in Nat
  BY VoiceSocketAssumption DEF TypeOK, TicketType
<1>2. /\ e.id = f.id => e = f
      /\ e.id < f.id => e.expires <= f.expires
      /\ f.id < e.id => f.expires <= e.expires
  BY DEF StoreSound
<1> QED
  BY <1>1, <1>2 DEF Sooner

\* A store that loses tickets stays sound.
LEMMA FewerTickets ==
    ASSUME StoreSound, tickets' \subseteq tickets, UNCHANGED <<issued, now>>
    PROVE  StoreSound'
<1>1. IsFiniteSet(tickets') /\ Cardinality(tickets') <= Cardinality(tickets)
  BY FS_Subset DEF StoreSound
<1>2. /\ Cardinality(tickets) \in Nat /\ Cardinality(tickets') \in Nat
      /\ MaxTickets \in Nat
  BY <1>1, FS_CardinalityType, VoiceSocketAssumption DEF StoreSound
<1>3. Cardinality(tickets') <= MaxTickets
  BY <1>1, <1>2 DEF StoreSound
<1> QED
  BY <1>1, <1>3 DEF StoreSound

\* A full store gives up at least one ticket, the first to expire.
LEMMA EvictionMakesRoom ==
    ASSUME TypeOK, StoreSound, NEW s, s \subseteq tickets, s # {}
    PROVE  /\ Evicted(s) \subseteq s /\ IsFiniteSet(Evicted(s))
           /\ Cardinality(Evicted(s)) < Cardinality(s)
<1> DEFINE ids == {f.id : f \in s}
<1>1. ids \subseteq Nat /\ ids # {}
  BY VoiceSocketAssumption DEF TypeOK, TicketType
<1>2. PICK i \in ids : \A j \in ids : i <= j
  <2> HIDE DEF ids
  <2> QED
    BY <1>1, LeastElement
<1>3. PICK e \in s : e.id = i
  BY <1>2
<1>4. \A f \in s : ~Sooner(f, e)
  <2> SUFFICES ASSUME NEW f \in s PROVE ~Sooner(f, e)
    OBVIOUS
  <2>1. e.id <= f.id /\ e.id \in Nat /\ f.id \in Nat
    BY <1>1, <1>2, <1>3
  <2> QED
    BY <2>1, SoonerIsEarlier
<1>5. {f \in s : Sooner(f, e)} = {}
  BY <1>4
<1>6. IsFiniteSet(s) /\ Cardinality(s) \in Nat
  BY FS_Subset, FS_CardinalityType DEF StoreSound
<1>7. Quarter(Cardinality(s)) \in Nat \ {0}
  BY <1>6 DEF Quarter
<1>8. e \notin Evicted(s)
  <2>1. Cardinality({f \in s : Sooner(f, e)}) = 0
    BY <1>5, FS_EmptySet
  <2> QED
    BY <2>1, <1>7 DEF Evicted
<1>9. Evicted(s) \subseteq s
  BY DEF Evicted
<1>10. Evicted(s) # s
  BY <1>3, <1>8
<1>11. /\ IsFiniteSet(Evicted(s)) /\ Cardinality(Evicted(s)) <= Cardinality(s)
       /\ Cardinality(Evicted(s)) # Cardinality(s)
  <2> HIDE DEF ids
  <2> QED
    BY <1>6, <1>9, <1>10, FS_Subset
<1>12. Cardinality(Evicted(s)) \in Nat
  BY <1>11, FS_CardinalityType
<1> QED
  BY <1>6, <1>9, <1>11, <1>12

\* What a sound store holds once a ticket was issued.
LEMMA IssuedSound ==
    ASSUME TypeOK, StoreSound, Issue
    PROVE  /\ StoreSound'
           /\ tickets' \subseteq tickets \cup {[id |-> issued + 1, expires |-> now + TTL]}
<1> DEFINE alive == Purged(tickets, now)
           kept == IF Cardinality(alive) >= MaxTickets THEN Evicted(alive) ELSE alive
           new == [id |-> issued + 1, expires |-> now + TTL]
<1>1. /\ alive \subseteq tickets /\ IsFiniteSet(alive)
      /\ Cardinality(alive) \in Nat /\ Cardinality(alive) <= MaxTickets
  <2>1. alive \subseteq tickets
    BY DEF Purged
  <2>2. IsFiniteSet(alive) /\ Cardinality(alive) <= Cardinality(tickets)
    BY <2>1, FS_Subset DEF StoreSound
  <2>3. Cardinality(alive) \in Nat /\ Cardinality(tickets) \in Nat
    BY <2>2, FS_CardinalityType DEF StoreSound
  <2> HIDE DEF alive
  <2> QED
    BY <2>1, <2>2, <2>3, VoiceSocketAssumption DEF StoreSound
<1>2. tickets' = kept \cup {new} /\ issued' = issued + 1 /\ UNCHANGED now
  BY DEF Issue, Issued
<1> HIDE DEF alive
<1>3. kept \subseteq tickets /\ IsFiniteSet(kept) /\ Cardinality(kept) < MaxTickets
  <2>1. CASE Cardinality(alive) >= MaxTickets
    <3>1. alive # {}
      BY <1>1, <2>1, FS_EmptySet, VoiceSocketAssumption
    <3>2. /\ Evicted(alive) \subseteq alive /\ IsFiniteSet(Evicted(alive))
          /\ Cardinality(Evicted(alive)) < Cardinality(alive)
      BY <1>1, <3>1, EvictionMakesRoom
    <3>3. Cardinality(Evicted(alive)) \in Nat
      BY <3>2, FS_CardinalityType
    <3> QED
      BY <1>1, <2>1, <3>2, <3>3, VoiceSocketAssumption
  <2>2. CASE ~(Cardinality(alive) >= MaxTickets)
    BY <1>1, <2>2, VoiceSocketAssumption
  <2> QED
    BY <2>1, <2>2
<1> HIDE DEF kept
<1>4. IsFiniteSet(tickets') /\ Cardinality(tickets') <= MaxTickets
  <2>1. /\ IsFiniteSet(tickets') /\ Cardinality(kept) \in Nat
        /\ \/ Cardinality(tickets') = Cardinality(kept)
           \/ Cardinality(tickets') = Cardinality(kept) + 1
    BY <1>2, <1>3, FS_AddElement, FS_CardinalityType
  <2> QED
    BY <1>3, <2>1, VoiceSocketAssumption
<1>5. /\ issued \in Nat /\ now \in Nat /\ TTL \in Nat
      /\ \A e \in tickets : e.id \in Nat /\ e.id <= issued /\ e.expires \in Nat /\ e.expires <= now + TTL
  BY VoiceSocketAssumption DEF TypeOK, TicketType, StoreSound
<1>6. /\ \A e \in tickets : e.id # new.id /\ e.id < new.id /\ e.expires <= new.expires
      /\ new.id = issued + 1 /\ new.expires = now + TTL
  BY <1>5
<1>7. \A e \in tickets' : e \in tickets \/ e = new
  BY <1>2, <1>3
<1> HIDE DEF new
<1>8. \A e \in tickets' : e.id <= issued' /\ e.expires <= now' + TTL
  BY <1>2, <1>5, <1>6, <1>7
<1>9. \A e, f \in tickets' :
        /\ e.id = f.id => e = f
        /\ e.id < f.id => e.expires <= f.expires
  <2> SUFFICES ASSUME NEW e \in tickets', NEW f \in tickets'
               PROVE  /\ e.id = f.id => e = f
                      /\ e.id < f.id => e.expires <= f.expires
    OBVIOUS
  <2>1. CASE e \in tickets /\ f \in tickets
    BY <2>1 DEF StoreSound
  <2>2. CASE e \in tickets /\ f = new
    BY <1>6, <2>2
  <2>3. CASE e = new /\ f \in tickets
    BY <1>5, <1>6, <2>3
  <2>4. CASE e = new /\ f = new
    BY <1>5, <1>6, <2>4
  <2> QED
    BY <1>7, <2>1, <2>2, <2>3, <2>4
<1> QED
  BY <1>2, <1>3, <1>4, <1>8, <1>9 DEF StoreSound, new

\* A step that takes tickets away and opens no session.
LEMMA NoSession ==
    ASSUME TicketInv, TypeOK', tickets' \subseteq tickets, UNCHANGED <<issued, sessions>>,
           now <= now'
    PROVE  StoreSound' /\ SessionsSound'
<1>1. StoreSound'
  <2>1. IsFiniteSet(tickets') /\ Cardinality(tickets') <= Cardinality(tickets)
    BY FS_Subset DEF TicketInv, StoreSound
  <2>2. Cardinality(tickets') <= MaxTickets
    BY <2>1, FS_CardinalityType, VoiceSocketAssumption DEF TicketInv, StoreSound
  <2>3. ASSUME NEW e \in tickets' PROVE e.id <= issued' /\ e.expires <= now' + TTL
    <3>1. e.expires \in Nat /\ now \in Nat /\ now' \in Nat /\ TTL \in Nat
      BY VoiceSocketAssumption DEF TicketInv, TypeOK, TicketType
    <3> QED
      BY <3>1 DEF TicketInv, StoreSound
  <2> QED
    BY <2>1, <2>2, <2>3 DEF TicketInv, StoreSound
<1>2. \A i \in 1..MaxIssues : Unused(i)' => Unused(i)
  BY DEF Unused
<1> QED
  BY <1>1, <1>2 DEF TicketInv, SessionsSound

\* A session that begins takes its ticket.
LEMMA TicketUsed ==
    ASSUME TicketInv, TypeOK', NEW h \in Handler, Begin(h), UNCHANGED <<now, issued>>
    PROVE  StoreSound' /\ SessionsSound'
<1>1. CASE ~Found(tickets, ticket[h], now)
  <2>1. tickets' \subseteq tickets /\ UNCHANGED sessions /\ now <= now'
    BY <1>1 DEF Begin, Purged, TicketInv, TypeOK
  <2> QED
    BY <2>1, NoSession
<1>2. CASE Found(tickets, ticket[h], now)
  <2> DEFINE i == ticket[h]
  <2>1. /\ tickets' = {e \in Purged(tickets, now) : e.id # i}
        /\ sessions' = [sessions EXCEPT ![i] = @ + 1]
    BY <1>2 DEF Begin, Taken
  <2>2. PICK e \in tickets : e.id = i
    BY <1>2 DEF Found
  <2>3. i \in 1..MaxIssues /\ i <= issued
    BY <2>2 DEF TicketInv, TypeOK, TicketType, StoreSound
  <2>4. sessions[i] = 0
    BY <2>2, <2>3 DEF TicketInv, SessionsSound, Unused
  <2> HIDE DEF i
  <2>5. tickets' \subseteq tickets /\ \A f \in tickets' : f.id # i
    BY <2>1 DEF Purged
  <2>6. StoreSound'
    BY <2>5, FewerTickets DEF TicketInv
  <2>7. ASSUME NEW j \in 1..MaxIssues
        PROVE  sessions'[j] <= 1 /\ (Unused(j)' => sessions'[j] = 0)
    <3>0. sessions \in [1..MaxIssues -> Nat]
      BY DEF TicketInv, TypeOK
    <3>1. CASE j = i
      <4>1. sessions'[j] = 1
        BY <2>1, <2>3, <2>4, <3>0, <3>1
      <4>2. ~Unused(j)'
        BY <2>3, <2>5, <3>1, VoiceSocketAssumption DEF Unused, TicketInv, TypeOK
      <4> QED
        BY <4>1, <4>2
    <3>2. CASE j # i
      <4>1. sessions'[j] = sessions[j]
        BY <2>1, <3>0, <3>2
      <4>2. Unused(j)' => Unused(j)
        BY <2>5 DEF Unused
      <4> QED
        BY <4>1, <4>2 DEF TicketInv, SessionsSound
    <3> QED
      BY <3>1, <3>2
  <2> QED
    BY <2>6, <2>7 DEF SessionsSound
<1> QED
  BY <1>1, <1>2

\* Every step keeps the store sound and the tickets unspent.
LEMMA TicketStep == TicketInv /\ [Next]_vars => TicketInv'
<1> SUFFICES ASSUME TicketInv, [Next]_vars PROVE TicketInv'
  OBVIOUS
<1> USE DEF timeVars, asrVars
<1>0. TypeOK /\ TypeOK' /\ now \in Nat
  BY TypeStep DEF TicketInv, TypeOK
<1>1. CASE Issue
  <2>1. /\ StoreSound'
        /\ tickets' \subseteq tickets \cup {[id |-> issued + 1, expires |-> now + TTL]}
    BY <1>1, IssuedSound DEF TicketInv
  <2>2. issued' = issued + 1 /\ UNCHANGED sessions /\ issued \in Nat
    BY <1>1 DEF Issue, TicketInv, TypeOK
  <2>3. ASSUME NEW i \in 1..MaxIssues PROVE Unused(i)' => Unused(i)
    BY <2>1, <2>2, VoiceSocketAssumption DEF Unused
  <2>4. SessionsSound'
    BY <2>2, <2>3 DEF TicketInv, SessionsSound
  <2> QED
    BY <1>0, <2>1, <2>4 DEF TicketInv
<1>2. ASSUME NEW h \in Handler, Accepted(h) \/ Started(h), Begin(h) PROVE TicketInv'
  <2>1. UNCHANGED <<now, issued>>
    BY <1>2 DEF Accepted, Started
  <2> QED
    BY <1>0, <1>2, <2>1, TicketUsed DEF TicketInv
<1>3. CASE tickets' \subseteq tickets /\ UNCHANGED <<issued, sessions>> /\ now <= now'
  BY <1>0, <1>3, NoSession DEF TicketInv
<1>4. CASE Tick \/ UNCHANGED vars
  <2>1. now <= now' /\ UNCHANGED <<tickets, issued, sessions>>
    BY <1>0, <1>4 DEF Tick, vars
  <2> QED
    BY <1>3, <2>1
<1>5. ASSUME NEW h \in Handler, Connect(h) PROVE TicketInv'
  BY <1>0, <1>3, <1>5 DEF Connect, Purged
<1>6. ASSUME NEW h \in Handler, Accepted(h) \/ Started(h), ~Begin(h) PROVE TicketInv'
  BY <1>0, <1>3, <1>6 DEF Accepted, Started
<1>7. ASSUME NEW h \in Handler,
             \/ NotAccepted(h) \/ StartFailed(h) \/ Expire(h) \/ Finished(h) \/ End(h)
             \/ Frame(h) \/ Leave(h) \/ Stop(h)
      PROVE  TicketInv'
  BY <1>0, <1>3, <1>7 DEF NotAccepted, StartFailed, Expire, Finished, End, Frame, Leave, Stop
<1>8. ASSUME NEW h \in Handler, Thread(h) PROVE TicketInv'
  BY <1>0, <1>3, <1>8 DEF Thread, StartThread, StopThread
<1> QED
  BY <1>1, <1>2, <1>4, <1>5, <1>6, <1>7, <1>8 DEF Next, Client, Run

\* Initially no ticket was issued.
LEMMA TicketInit == Init => StoreSound /\ SessionsSound
<1> SUFFICES ASSUME Init PROVE StoreSound /\ SessionsSound
  OBVIOUS
<1>1. StoreSound
  BY FS_EmptySet, VoiceSocketAssumption DEF Init, StoreSound
<1>2. SessionsSound
  BY VoiceSocketAssumption DEF Init, SessionsSound
<1> QED
  BY <1>1, <1>2

\* The store stays sound in every behaviour.
LEMMA TicketsKept == Spec => []TicketInv
<1>1. Spec => []TypeOK
  BY TypesAndSlots, PTL DEF Consistent
<1>2. Init /\ TypeOK => TicketInv
  BY TicketInit DEF TicketInv
<1> QED
  BY <1>1, <1>2, TicketStep, PTL DEF Spec

\* A ticket opens one session, also when two connections with it start their
\* ASR at the same time (voice_app_ws_ticket.py:1, device_app_voice_ws.py:241-242).
THEOREM OneSession == Spec => []OneSessionPerTicket
<1>1. Spec => []TicketInv
  BY TicketsKept
<1>2. TicketInv => OneSessionPerTicket
  BY VoiceSocketAssumption DEF TicketInv, SessionsSound, OneSessionPerTicket, TypeOK
<1> QED
  BY <1>1, <1>2, PTL

\* Why ticket e may leave the store in a step.
Leaves(e) ==
    \/ e \in tickets'
    \/ e.expires <= now
    \/ sessions'[e.id] # sessions[e.id]
    \/ /\ issued' # issued /\ Cardinality(tickets) >= MaxTickets
       /\ Cardinality({f \in tickets : f.id < e.id}) < Quarter(MaxTickets)

\* What is evicted when a ticket is issued is among the oldest of a full store.
LEMMA EvictedIsOld ==
    ASSUME TicketInv, Issue, NEW e \in tickets, e \notin tickets', ~(e.expires <= now)
    PROVE  /\ Cardinality(tickets) >= MaxTickets
           /\ Cardinality({f \in tickets : f.id < e.id}) < Quarter(MaxTickets)
<1> DEFINE alive == Purged(tickets, now)
<1>1. e \in alive /\ alive \subseteq tickets
  BY DEF Purged, TicketInv, TypeOK, TicketType
<1>2. Cardinality(alive) >= MaxTickets /\ e \notin Evicted(alive)
  BY <1>1 DEF Issue, Issued
<1> HIDE DEF alive
<1>3. /\ IsFiniteSet(alive) /\ Cardinality(alive) <= Cardinality(tickets)
      /\ Cardinality(alive) = Cardinality(tickets) => alive = tickets
  BY <1>1, FS_Subset DEF TicketInv, StoreSound
<1>4. /\ Cardinality(alive) \in Nat /\ Cardinality(tickets) \in Nat /\ MaxTickets \in Nat
      /\ Cardinality(tickets) <= MaxTickets
  BY <1>3, FS_CardinalityType, VoiceSocketAssumption DEF TicketInv, StoreSound
<1>5. alive = tickets /\ Cardinality(tickets) = MaxTickets
  BY <1>2, <1>3, <1>4
<1>6. \A f \in tickets : Sooner(f, e) <=> f.id < e.id
  BY SoonerIsEarlier DEF TicketInv
<1>7. {f \in tickets : Sooner(f, e)} = {f \in tickets : f.id < e.id}
  BY <1>6
<1>8. ~(Cardinality({f \in tickets : Sooner(f, e)}) >= Quarter(MaxTickets))
  BY <1>2, <1>5 DEF Evicted
<1>9. Cardinality({f \in tickets : Sooner(f, e)}) \in Nat /\ Quarter(MaxTickets) \in Nat
  <2>1. IsFiniteSet({f \in tickets : Sooner(f, e)})
    BY FS_Subset DEF TicketInv, StoreSound
  <2> QED
    BY <1>4, <2>1, FS_CardinalityType DEF Quarter
<1> QED
  BY <1>4, <1>5, <1>7, <1>8, <1>9

\* No step takes a ticket for any other reason.
LEMMA TicketsLeave == TicketInv /\ [Next]_vars => \A e \in tickets : Leaves(e)
<1> SUFFICES ASSUME TicketInv, [Next]_vars, NEW e \in tickets PROVE Leaves(e)
  OBVIOUS
<1> USE DEF timeVars, asrVars
<1>0. e.expires \in Nat /\ now \in Nat /\ e.id \in 1..MaxIssues
  BY DEF TicketInv, TypeOK, TicketType
<1>1. CASE Issue
  <2>1. issued' # issued
    BY <1>1 DEF Issue, TicketInv, TypeOK
  <2> QED
    BY <1>1, <2>1, EvictedIsOld DEF Leaves
<1>2. CASE tickets' = tickets \/ tickets' = Purged(tickets, now)
  BY <1>0, <1>2 DEF Leaves, Purged
<1>3. ASSUME NEW h \in Handler, Begin(h) PROVE Leaves(e)
  <2>1. CASE Found(tickets, ticket[h], now)
    <3>1. /\ tickets' = {f \in Purged(tickets, now) : f.id # ticket[h]}
          /\ sessions' = [sessions EXCEPT ![ticket[h]] = @ + 1]
      BY <1>3, <2>1 DEF Begin, Taken
    <3>2. CASE e.id = ticket[h]
      <4>1. sessions \in [1..MaxIssues -> Nat]
        BY DEF TicketInv, TypeOK
      <4>2. sessions'[e.id] = sessions[e.id] + 1 /\ sessions[e.id] \in Nat
        BY <1>0, <3>1, <3>2, <4>1
      <4> QED
        BY <4>2 DEF Leaves
    <3>3. CASE e.id # ticket[h]
      BY <1>0, <3>1, <3>3 DEF Leaves, Purged
    <3> QED
      BY <3>2, <3>3
  <2>2. CASE ~Found(tickets, ticket[h], now)
    BY <1>2, <1>3, <2>2 DEF Begin
  <2> QED
    BY <2>1, <2>2
<1>4. ASSUME NEW h \in Handler, Accepted(h) \/ Started(h) PROVE Leaves(e)
  BY <1>2, <1>3, <1>4 DEF Accepted, Started
<1>5. CASE Tick \/ UNCHANGED vars
  BY <1>2, <1>5 DEF Tick, vars
<1>6. ASSUME NEW h \in Handler,
             \/ NotAccepted(h) \/ StartFailed(h) \/ Expire(h) \/ Finished(h) \/ End(h)
             \/ Client(h)
      PROVE  Leaves(e)
  BY <1>2, <1>6 DEF Client, Connect, NotAccepted, StartFailed, Expire, Finished, End, Frame, Leave, Stop
<1>7. ASSUME NEW h \in Handler, Thread(h) PROVE Leaves(e)
  BY <1>2, <1>7 DEF Thread, StartThread, StopThread
<1> QED
  BY <1>1, <1>4, <1>5, <1>6, <1>7 DEF Next, Run

\* A ticket leaves the store because it expired, because a session began on it
\* or because it was among the oldest of a full store, never because a
\* connection was refused (device_app_voice_ws.py:241-242).
THEOREM TicketsAreNotBurnt == Spec => TicketNotBurnt
<1>1. TicketInv /\ [Next]_vars =>
        [\A e \in tickets :
         \/ e \in tickets'
         \/ e.expires <= now
         \/ sessions'[e.id] # sessions[e.id]
         \/ /\ issued' # issued /\ Cardinality(tickets) >= MaxTickets
            /\ Cardinality({f \in tickets : f.id < e.id}) < Quarter(MaxTickets)]_vars
  BY TicketsLeave DEF Leaves
<1>2. Spec => []TicketInv
  BY TicketsKept
<1> QED
  BY <1>1, <1>2, PTL DEF Spec, TicketNotBurnt
-----------------------------------------------------------------------------
(* The rate limit.                                                         *)

\* The sizes of a subset of a finite set, of one more element and of a union.
LEMMA Sizes ==
    ASSUME NEW S, IsFiniteSet(S)
    PROVE  /\ Cardinality(S) \in Nat
           /\ \A T \in SUBSET S :
                IsFiniteSet(T) /\ Cardinality(T) \in Nat /\ Cardinality(T) <= Cardinality(S)
<1>1. Cardinality(S) \in Nat
  BY FS_CardinalityType
<1>2. ASSUME NEW T \in SUBSET S
      PROVE  IsFiniteSet(T) /\ Cardinality(T) \in Nat /\ Cardinality(T) <= Cardinality(S)
  BY FS_Subset, FS_CardinalityType
<1> QED
  BY <1>1, <1>2

\* One more element adds at most one.
LEMMA OneMore ==
    ASSUME NEW S, IsFiniteSet(S), NEW x, NEW T \in SUBSET (S \cup {x})
    PROVE  /\ IsFiniteSet(T) /\ Cardinality(T) \in Nat
           /\ Cardinality(T) <= Cardinality(S) + 1
<1>1. /\ IsFiniteSet(S \cup {x}) /\ Cardinality(S) \in Nat
      /\ Cardinality(S \cup {x}) <= Cardinality(S) + 1
  <2>1. Cardinality(S) \in Nat
    BY FS_CardinalityType
  <2>2. /\ IsFiniteSet(S \cup {x})
        /\ Cardinality(S \cup {x}) = IF x \in S THEN Cardinality(S) ELSE Cardinality(S) + 1
    BY FS_AddElement
  <2> QED
    BY <2>1, <2>2
<1>2. /\ Cardinality(S \cup {x}) \in Nat /\ IsFiniteSet(T) /\ Cardinality(T) \in Nat
      /\ Cardinality(T) <= Cardinality(S \cup {x})
  BY <1>1, Sizes
<1> QED
  BY <1>1, <1>2

\* What two sets cover is not larger than both.
LEMMA Covered ==
    ASSUME NEW S, IsFiniteSet(S), NEW T, IsFiniteSet(T), NEW U \in SUBSET (S \cup T)
    PROVE  Cardinality(U) \in Nat /\ Cardinality(U) <= Cardinality(S) + Cardinality(T)
<1>1. /\ IsFiniteSet(S \cup T)
      /\ Cardinality(S \cup T) = Cardinality(S) + Cardinality(T) - Cardinality(S \cap T)
  BY FS_Union
<1>2. Cardinality(S \cap T) \in Nat /\ Cardinality(S) \in Nat /\ Cardinality(T) \in Nat
  <2>1. S \cap T \in SUBSET S
    OBVIOUS
  <2> QED
    BY <2>1, Sizes
<1>3. Cardinality(U) \in Nat /\ Cardinality(U) <= Cardinality(S \cup T)
  BY <1>1, Sizes
<1>4. Cardinality(S \cup T) \in Nat
  BY <1>1, Sizes
<1> QED
  BY <1>1, <1>2, <1>3, <1>4

\* Two times in one window lie in one calendar bucket or in two that follow
\* one another.
LEMMA Neighbours ==
    ASSUME NEW a \in Nat, NEW b \in Nat, NEW w \in Nat \ {0}, a <= b
    PROVE  /\ a \div w \in Nat /\ b \div w \in Nat /\ a \div w <= b \div w
           /\ b < a + w => b \div w <= (a \div w) + 1
OBVIOUS

\* The memory of the process: it holds no more than the limit, all that passed
\* where there is no Redis, and nothing before a call of Redis has failed.
MemorySound ==
    /\ IsFiniteSet(recent) /\ IsFiniteSet(grants)
    /\ Cardinality(recent) <= settings.rate
    /\ ~settings.redis => grants \subseteq recent
    /\ settings.redis /\ faults = 0 => recent = {}

\* What passed lies in one window, which ended at the last connection tried.
OneWindow(u) == \A t \in grants : t.at <= u /\ u < t.at + Window

InOneWindow == \E u \in 0..now : OneWindow(u)

\* what Redis let pass in the calendar bucket k
InBucket(k) == {t \in grants \ recent : t.at \div Window = k}

\* The buckets of Redis: none holds more than the limit, the newest no more
\* than its counter says.
BucketSound(k) ==
    /\ Cardinality(InBucket(k)) <= settings.rate
    /\ k = bucket.n => Cardinality(InBucket(k)) <= bucket.count
    /\ k > bucket.n => InBucket(k) = {}

BucketsSound == bucket.n <= now \div Window /\ \A k \in Nat : BucketSound(k)

RateInv == TypeOK /\ MemorySound /\ InOneWindow /\ BucketsSound

\* The limits and the times have their types.
LEMMA RateTypes ==
    ASSUME TypeOK
    PROVE  /\ settings.rate \in Nat \ {0} /\ settings.redis \in BOOLEAN
           /\ Window \in Nat \ {0} /\ now \in Nat /\ now \div Window \in Nat
           /\ bucket.n \in Nat /\ bucket.count \in Nat /\ faults \in Nat
           /\ \A t \in recent \cup grants : t.at \in Nat
<1>1. Window \in Nat \ {0} /\ now \in Nat
  BY VoiceSocketAssumption DEF TypeOK
<1>2. now \div Window \in Nat
  BY <1>1
<1>3. settings.rate \in Nat \ {0} /\ settings.redis \in BOOLEAN
  BY VoiceSocketAssumption DEF TypeOK
<1>4. bucket.n \in Nat /\ bucket.count \in Nat /\ faults \in Nat
  BY DEF TypeOK
<1>5. \A t \in recent \cup grants : t.at \in Nat
  BY DEF TypeOK
<1> QED
  BY <1>1, <1>2, <1>3, <1>4, <1>5

\* Time alone changes nothing.
LEMMA RateWaits ==
    ASSUME RateInv, TypeOK', UNCHANGED <<settings, bucket, recent, grants, faults>>, now <= now'
    PROVE  RateInv'
<1>1. now \in Nat /\ now' \in Nat /\ Window \in Nat \ {0} /\ bucket.n \in Nat
  BY RateTypes, VoiceSocketAssumption DEF RateInv, TypeOK
<1>2. now \div Window <= now' \div Window /\ now \div Window \in Nat /\ now' \div Window \in Nat
  BY <1>1, Neighbours
<1>3. MemorySound'
  BY DEF RateInv, MemorySound
<1>4. InOneWindow'
  <2>1. PICK u \in 0..now : OneWindow(u)
    BY DEF RateInv, InOneWindow
  <2>2. u \in 0..now' /\ OneWindow(u)'
    BY <1>1, <2>1 DEF OneWindow
  <2> QED
    BY <2>2 DEF InOneWindow
<1>5. BucketsSound'
  <2>1. \A k \in Nat : BucketSound(k)'
    BY DEF RateInv, BucketsSound, BucketSound, InBucket
  <2>2. bucket'.n <= now' \div Window
    BY <1>1, <1>2 DEF RateInv, BucketsSound
  <2> QED
    BY <2>1, <2>2 DEF BucketsSound
<1> QED
  BY <1>3, <1>4, <1>5 DEF RateInv

\* A connection that is tried ends the window now.
LEMMA WindowMoves ==
    ASSUME RateInv, TypeOK', NEW ok, Passed(ok), UNCHANGED now
    PROVE  /\ InOneWindow' /\ IsFiniteSet(grants')
           /\ grants' \subseteq grants \cup {Stamp}
           /\ ~ok => grants' \subseteq grants
           /\ \A t \in grants' : now - t.at < Window
<1>1. PICK u \in 0..now : OneWindow(u)
  BY DEF RateInv, InOneWindow
<1>2. /\ now \in Nat /\ Window \in Nat \ {0} /\ Stamp.at = now
      /\ \A t \in grants : t.at \in Nat
  BY RateTypes DEF RateInv, Stamp
<1>3. \A t \in grants : t.at <= now
  BY <1>1, <1>2 DEF OneWindow
<1>4. /\ grants' \subseteq grants \cup {Stamp}
      /\ ~ok => grants' \subseteq grants
      /\ \A t \in grants' : t = Stamp \/ (t \in grants /\ now - t.at < Window)
  BY DEF Passed
<1>5. \A t \in grants' : now - t.at < Window
  BY <1>2, <1>4
<1>6. OneWindow(now)'
  <2> SUFFICES ASSUME NEW t \in grants' PROVE t.at <= now /\ now < t.at + Window
    BY DEF OneWindow
  <2>1. CASE t = Stamp
    BY <1>2, <2>1
  <2>2. CASE t \in grants /\ now - t.at < Window
    BY <1>2, <1>3, <2>2
  <2> QED
    BY <1>4, <2>1, <2>2
<1>7. IsFiniteSet(grants')
  BY <1>4, OneMore DEF RateInv, MemorySound
<1>8. InOneWindow'
  BY <1>2, <1>6 DEF InOneWindow
<1> QED
  BY <1>4, <1>5, <1>7, <1>8

\* A bucket of Redis that grows by no more than its counter.
LEMMA BucketCounts ==
    ASSUME RateInv, TypeOK', UNCHANGED <<now, settings>>, bucket' = Counted,
           \A k \in Nat : InBucket(k)' \subseteq InBucket(k) \cup {Stamp},
           \A k \in Nat : k # now \div Window => InBucket(k)' \subseteq InBucket(k),
           \/ Counted.count <= settings.rate
           \/ \A k \in Nat : InBucket(k)' \subseteq InBucket(k)
    PROVE  BucketsSound'
<1> DEFINE n == now \div Window
<1>1. /\ n \in Nat /\ bucket.n \in Nat /\ bucket.count \in Nat /\ bucket.n <= n
      /\ settings.rate \in Nat \ {0}
  BY RateTypes DEF RateInv, BucketsSound
<1>2. /\ bucket'.n = n
      /\ bucket'.count = IF bucket.n = n THEN bucket.count + 1 ELSE 1
      /\ Counted.count = bucket'.count
  BY DEF Counted
<1>3. ASSUME NEW k \in Nat PROVE BucketSound(k)'
  <2>1. BucketSound(k) /\ IsFiniteSet(InBucket(k)) /\ Cardinality(InBucket(k)) \in Nat
    <3>1. InBucket(k) \in SUBSET grants
      BY DEF InBucket
    <3> QED
      BY <3>1, Sizes DEF RateInv, BucketsSound, MemorySound
  <2>2. /\ Cardinality(InBucket(k)') \in Nat
        /\ Cardinality(InBucket(k)') <= Cardinality(InBucket(k)) + 1
    BY <2>1, OneMore
  <2>3. CASE InBucket(k)' \subseteq InBucket(k)
    <3>1. Cardinality(InBucket(k)') <= Cardinality(InBucket(k))
      BY <2>1, <2>3, Sizes
    <3>2. Cardinality(InBucket(k)') <= settings.rate
      BY <1>1, <2>1, <2>2, <3>1 DEF BucketSound
    <3>3. k = n => Cardinality(InBucket(k)') <= bucket'.count
      <4>1. CASE bucket.n = n
        BY <1>1, <1>2, <2>1, <2>2, <3>1, <4>1 DEF BucketSound
      <4>2. CASE bucket.n < n /\ k = n
        <5>1. InBucket(k)' = {}
          BY <2>1, <2>3, <4>2 DEF BucketSound
        <5> QED
          BY <1>2, <4>2, <5>1, FS_EmptySet, <1>1
      <4> QED
        BY <1>1, <4>1, <4>2
    <3>4. k > n => InBucket(k)' = {}
      BY <1>1, <2>1, <2>3 DEF BucketSound
    <3> HIDE DEF n
    <3> QED
      BY <1>2, <3>2, <3>3, <3>4 DEF BucketSound
  <2>4. CASE k = n /\ Counted.count <= settings.rate
    <3>1. Cardinality(InBucket(k)') <= bucket'.count
      <4>1. CASE bucket.n = n
        BY <1>1, <1>2, <2>1, <2>2, <2>4, <4>1 DEF BucketSound
      <4>2. CASE bucket.n < n
        <5>1. InBucket(k) = {}
          BY <2>1, <2>4, <4>2 DEF BucketSound
        <5>2. Cardinality(InBucket(k)) = 0
          BY <5>1, FS_EmptySet
        <5> QED
          BY <1>1, <1>2, <2>2, <4>2, <5>2
      <4> QED
        BY <1>1, <4>1, <4>2
    <3>2. bucket'.count \in Nat
      BY <1>1, <1>2
    <3>3. Cardinality(InBucket(k)') <= settings.rate
      BY <1>1, <1>2, <2>2, <2>4, <3>1, <3>2
    <3> HIDE DEF n
    <3> QED
      BY <1>1, <1>2, <2>4, <3>1, <3>3 DEF BucketSound
  <2> QED
    BY <2>3, <2>4
<1>4. bucket'.n <= now' \div Window
  BY <1>1, <1>2
<1> QED
  BY <1>3, <1>4 DEF BucketsSound

\* Buckets that lose what passed, and no counter goes down.
LEMMA BucketsShrink ==
    ASSUME RateInv, TypeOK', UNCHANGED <<now, settings>>, bucket' \in {bucket, Counted},
           \A k \in Nat : InBucket(k)' \subseteq InBucket(k)
    PROVE  BucketsSound'
<1>1. CASE bucket' = Counted
  BY <1>1, BucketCounts
<1>2. CASE bucket' = bucket
  <2>1. ASSUME NEW k \in Nat PROVE BucketSound(k)'
    <3>1. InBucket(k) \in SUBSET grants
      BY DEF InBucket
    <3>2. BucketSound(k) /\ IsFiniteSet(InBucket(k)) /\ Cardinality(InBucket(k)) \in Nat
      BY <3>1, Sizes DEF RateInv, BucketsSound, MemorySound
    <3>3. /\ Cardinality(InBucket(k)') \in Nat
          /\ Cardinality(InBucket(k)') <= Cardinality(InBucket(k))
      BY <3>2, Sizes
    <3>4. settings.rate \in Nat /\ bucket.count \in Nat
      BY RateTypes DEF RateInv
    <3>5. k > bucket.n => InBucket(k)' = {}
      BY <3>2 DEF BucketSound
    <3> QED
      BY <1>2, <3>2, <3>3, <3>4, <3>5 DEF BucketSound
  <2> QED
    BY <1>2, <2>1 DEF RateInv, BucketsSound
<1> QED
  BY <1>1, <1>2

\* The limit of a connection that is tried: Redis counts it, or the memory of
\* the process steps in.
LEMMA RateLimited ==
    ASSUME RateInv, TypeOK', NEW ok \in BOOLEAN, RateLimit(ok), UNCHANGED <<now, settings>>
    PROVE  RateInv'
<1>1. /\ InOneWindow' /\ IsFiniteSet(grants')
      /\ grants' \subseteq grants \cup {Stamp}
      /\ ~ok => grants' \subseteq grants
      /\ \A t \in grants' : now - t.at < Window
  BY WindowMoves DEF RateLimit
<1>2. /\ settings.rate \in Nat \ {0} /\ settings.redis \in BOOLEAN /\ faults \in Nat
      /\ Stamp.at \div Window = now \div Window
  BY RateTypes DEF RateInv, Stamp
<1>3. CASE settings.redis /\ bucket' = Counted /\ ok = (Counted.count <= settings.rate)
           /\ UNCHANGED <<recent, faults>>
  <2>1. MemorySound'
    BY <1>1, <1>3 DEF RateInv, MemorySound
  <2>2. \A k \in Nat :
          /\ InBucket(k)' \subseteq InBucket(k) \cup {Stamp}
          /\ ~ok \/ k # now \div Window => InBucket(k)' \subseteq InBucket(k)
    BY <1>1, <1>2, <1>3 DEF InBucket
  <2>3. BucketsSound'
    <3>1. CASE ok
      BY <1>3, <2>2, <3>1, BucketCounts
    <3>2. CASE ~ok
      BY <1>3, <2>2, <3>2, BucketCounts
    <3> QED
      BY <3>1, <3>2
  <2> QED
    BY <1>1, <2>1, <2>3 DEF RateInv
<1>4. CASE /\ InMemory(ok) /\ bucket' \in {bucket, Counted}
           /\ settings.redis => faults' = faults + 1
  <2>1. /\ Pruned(recent) \subseteq recent
        /\ recent' = IF ok THEN Pruned(recent) \cup {Stamp} ELSE Pruned(recent)
        /\ ok => Cardinality(Pruned(recent)) < settings.rate
    BY <1>4 DEF InMemory, Pruned
  <2>2. /\ IsFiniteSet(Pruned(recent)) /\ Cardinality(Pruned(recent)) \in Nat
        /\ Cardinality(Pruned(recent)) <= Cardinality(recent) /\ Cardinality(recent) \in Nat
    BY <2>1, Sizes DEF RateInv, MemorySound
  <2>3. /\ IsFiniteSet(recent') /\ Cardinality(recent') \in Nat
        /\ Cardinality(recent') <= Cardinality(Pruned(recent)) + 1
    BY <2>1, <2>2, OneMore
  <2>4. Cardinality(recent') <= settings.rate
    <3>1. CASE ok
      BY <1>2, <2>1, <2>2, <2>3, <3>1
    <3>2. CASE ~ok
      <4>1. Cardinality(recent') = Cardinality(Pruned(recent)) /\ Cardinality(recent) <= settings.rate
        BY <2>1, <3>2 DEF RateInv, MemorySound
      <4> QED
        BY <1>2, <2>2, <4>1
    <3> QED
      BY <3>1, <3>2
  <2>5. \A t \in grants' : t \in recent \/ t = Stamp => t \in recent' \/ t \in grants
    BY <1>1, <2>1
  <2>6. \A t \in grants' : t \in recent => t \in recent'
    BY <1>1, <2>1 DEF Pruned
  <2>7. \A t \in grants' \ recent' : t \in grants \ recent
    BY <1>1, <2>1, <2>5, <2>6
  <2>8. ~settings.redis => grants' \subseteq recent'
    <3> SUFFICES ASSUME ~settings.redis PROVE grants' \subseteq recent'
      OBVIOUS
    <3>1. grants \subseteq recent
      BY DEF RateInv, MemorySound
    <3> QED
      BY <2>7, <3>1
  <2>9. MemorySound'
    <3>1. settings.redis => faults' # 0
      BY <1>2, <1>4
    <3> QED
      BY <1>1, <2>3, <2>4, <2>8, <3>1 DEF MemorySound
  <2>10. \A k \in Nat : InBucket(k)' \subseteq InBucket(k)
    BY <2>7 DEF InBucket
  <2>11. BucketsSound'
    BY <1>4, <2>10, BucketsShrink
  <2> QED
    BY <1>1, <2>9, <2>11 DEF RateInv
<1> QED
  BY <1>3, <1>4 DEF RateLimit

\* Every step keeps the limit.
LEMMA RateStep == RateInv /\ [Next]_vars => RateInv'
<1> SUFFICES ASSUME RateInv, [Next]_vars PROVE RateInv'
  OBVIOUS
<1> USE DEF limitVars, timeVars, asrVars
<1>1. TypeOK' /\ now \in Nat
  BY TypeStep DEF RateInv, TypeOK
<1>2. CASE UNCHANGED <<settings, bucket, recent, grants, faults>> /\ now <= now'
  BY <1>1, <1>2, RateWaits
<1>3. CASE Tick \/ UNCHANGED vars
  BY <1>1, <1>2, <1>3 DEF Tick, vars
<1>4. CASE Issue
  BY <1>1, <1>2, <1>4 DEF Issue
<1>5. ASSUME NEW h \in Handler, Connect(h) PROVE RateInv'
  <2>1. /\ UNCHANGED <<now, settings>>
        /\ RateLimit(TRUE) \/ RateLimit(FALSE) \/ UNCHANGED <<bucket, recent, grants, faults>>
    BY <1>5 DEF Connect
  <2>2. CASE \E ok \in BOOLEAN : RateLimit(ok)
    BY <1>1, <2>1, <2>2, RateLimited
  <2>3. CASE UNCHANGED <<bucket, recent, grants, faults>>
    BY <1>1, <1>2, <2>1, <2>3
  <2> QED
    BY <2>1, <2>2, <2>3
<1>6. ASSUME NEW h \in Handler, Run(h) PROVE RateInv'
  BY <1>1, <1>2, <1>6
     DEF Run, Accepted, Started, NotAccepted, StartFailed, Expire, Finished, End
<1>7. ASSUME NEW h \in Handler, Frame(h) \/ Leave(h) \/ Stop(h) PROVE RateInv'
  BY <1>1, <1>2, <1>7 DEF Frame, Leave, Stop
<1>8. ASSUME NEW h \in Handler, Thread(h) PROVE RateInv'
  BY <1>1, <1>2, <1>8 DEF Thread, StartThread, StopThread
<1> QED
  BY <1>3, <1>4, <1>5, <1>6, <1>7, <1>8 DEF Next, Client

\* Initially nothing was counted.
LEMMA RateInit == Init /\ TypeOK => RateInv
<1> SUFFICES ASSUME Init, TypeOK PROVE RateInv
  OBVIOUS
<1>1. /\ settings.rate \in Nat \ {0} /\ now \div Window \in Nat
  BY RateTypes
<1>2. recent = {} /\ grants = {} /\ now = 0 /\ bucket = [n |-> 0, count |-> 0]
  BY DEF Init
<1>3. MemorySound
  BY <1>1, <1>2, FS_EmptySet DEF MemorySound
<1>4. InOneWindow
  BY <1>2 DEF InOneWindow, OneWindow
<1>5. \A k : InBucket(k) = {}
  BY <1>2 DEF InBucket
<1>6. BucketsSound
  BY <1>1, <1>2, <1>5, FS_EmptySet DEF BucketsSound, BucketSound
<1> QED
  BY <1>3, <1>4, <1>6 DEF RateInv

\* What Redis let pass lies in two calendar buckets, each within the limit.
LEMMA TwoBuckets ==
    ASSUME RateInv
    PROVE  /\ Cardinality(grants \ recent) \in Nat
           /\ Cardinality(grants \ recent) <= 2 * settings.rate
<1>1. PICK u \in 0..now : OneWindow(u)
  BY DEF RateInv, InOneWindow
<1>2. /\ now \in Nat /\ Window \in Nat \ {0} /\ settings.rate \in Nat
      /\ \A t \in grants : t.at \in Nat
  BY RateTypes DEF RateInv
<1> DEFINE q == u \div Window
           p == IF q = 0 THEN 0 ELSE q - 1
<1>3. q \in Nat /\ p \in Nat
  <2>1. u \in Nat
    BY <1>2
  <2>2. q \in Nat
    BY <1>2, <2>1
  <2> QED
    BY <2>2
<1>4. \A t \in grants : t.at \div Window = q \/ t.at \div Window = p
  <2> SUFFICES ASSUME NEW t \in grants PROVE t.at \div Window = q \/ t.at \div Window = p
    OBVIOUS
  <2>1. t.at \in Nat /\ u \in Nat /\ t.at <= u /\ u < t.at + Window
    BY <1>1, <1>2 DEF OneWindow
  <2>2. t.at \div Window \in Nat /\ t.at \div Window <= q /\ q <= (t.at \div Window) + 1
    BY <1>2, <2>1, Neighbours
  <2> QED
    BY <1>3, <2>2
<1> HIDE DEF q, p
<1>5. grants \ recent \subseteq InBucket(q) \cup InBucket(p)
  BY <1>4 DEF InBucket
<1>6. /\ IsFiniteSet(InBucket(q)) /\ IsFiniteSet(InBucket(p))
      /\ Cardinality(InBucket(q)) \in Nat /\ Cardinality(InBucket(p)) \in Nat
  <2>1. InBucket(q) \in SUBSET grants /\ InBucket(p) \in SUBSET grants
    BY DEF InBucket
  <2> QED
    BY <2>1, Sizes DEF RateInv, MemorySound
<1>7. Cardinality(InBucket(q)) <= settings.rate /\ Cardinality(InBucket(p)) <= settings.rate
  BY <1>3 DEF RateInv, BucketsSound, BucketSound
<1>8. /\ Cardinality(grants \ recent) \in Nat
      /\ Cardinality(grants \ recent) <= Cardinality(InBucket(q)) + Cardinality(InBucket(p))
  BY <1>5, <1>6, Covered
<1> QED
  BY <1>2, <1>6, <1>7, <1>8

\* What the rate limit promises for any window: the limit, twice the limit
\* with the buckets of Redis, and once more when calls of Redis fail
\* (rate_limiter.py:79-81).
THEOREM BurstsAreBounded == Spec => []BurstBounded
<1>1. Spec => []TypeOK
  BY TypesAndSlots, PTL DEF Consistent
<1>2. RateInv => BurstBounded
  <2> SUFFICES ASSUME RateInv PROVE BurstBounded
    OBVIOUS
  <2>1. settings.rate \in Nat /\ faults \in Nat
    BY RateTypes DEF RateInv
  <2>2. /\ IsFiniteSet(recent) /\ IsFiniteSet(grants) /\ IsFiniteSet(grants \ recent)
        /\ Cardinality(recent) \in Nat /\ Cardinality(grants) \in Nat
        /\ Cardinality(recent) <= settings.rate
    <3>1. IsFiniteSet(recent) /\ IsFiniteSet(grants) /\ Cardinality(recent) <= settings.rate
      BY DEF RateInv, MemorySound
    <3>2. grants \ recent \in SUBSET grants
      OBVIOUS
    <3> QED
      BY <3>1, <3>2, Sizes
  <2>3. CASE ~settings.redis
    <3>1. grants \in SUBSET recent
      BY <2>3 DEF RateInv, MemorySound
    <3>2. Cardinality(grants) <= Cardinality(recent)
      BY <2>2, <3>1, Sizes
    <3>3. Cardinality(grants) <= settings.rate * 1
      BY <2>1, <2>2, <3>2
    <3> QED
      BY <2>3, <3>3 DEF BurstBounded
  <2>4. CASE settings.redis /\ faults = 0
    <3>1. recent = {}
      BY <2>4 DEF RateInv, MemorySound
    <3>2. Cardinality(grants) <= settings.rate * 2
      <4>1. grants \ recent = grants
        BY <3>1
      <4> QED
        BY <2>1, <4>1, TwoBuckets
    <3> QED
      BY <2>4, <3>2 DEF BurstBounded
  <2>5. CASE settings.redis /\ faults # 0
    <3>1. grants \in SUBSET ((grants \ recent) \cup recent)
      OBVIOUS
    <3>2. Cardinality(grants) <= Cardinality(grants \ recent) + Cardinality(recent)
      BY <2>2, <3>1, Covered
    <3>3. Cardinality(grants) <= settings.rate * 3
      BY <2>1, <2>2, <3>2, TwoBuckets
    <3> QED
      BY <2>5, <3>3 DEF BurstBounded
  <2> QED
    BY <2>3, <2>4, <2>5
<1>3. Init /\ TypeOK => RateInv
  BY RateInit
<1> QED
  BY <1>1, <1>2, <1>3, RateStep, PTL DEF Spec
=============================================================================
