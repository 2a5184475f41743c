------------------------------- MODULE WsTickets -------------------------------
(***************************************************************************)
(* The stores of one-time WebSocket tickets (voice_app_ws_ticket.py,       *)
(* app_status_ws_ticket.py, device_ws_ticket.py and ws_ticket.py are the   *)
(* same dictionary with other payloads).  A store is the set of its        *)
(* tickets; the ids number them in the order in which they were issued,    *)
(* which is the order of the dictionary.  Every function holds the store's *)
(* lock from end to end.                                                   *)
(***************************************************************************)
LOCAL INSTANCE Naturals
LOCAL INSTANCE FiniteSets

CONSTANTS
    TTL,         \* TTL_SECONDS
    MaxTickets   \* _MAX_TICKETS

TicketType(ids) == [id : ids, expires : Nat]

\* mutant: a ticket is dropped while it is still good
PurgedEarly(s, now) == {e \in s : e.expires > now + 1}

\* _purge_expired
Purged(s, now) == {e \in s : e.expires > now}

\* how many go when n are there: a quarter, at least one
Quarter(n) == IF n \div 4 > 1 THEN n \div 4 ELSE 1

\* the order of sorted(..., key=expires_at), which is stable
Sooner(e, f) == e.expires < f.expires \/ (e.expires = f.expires /\ e.id < f.id)

\* _evict_oldest: without the quarter that expires first
Evicted(s) ==
    {e \in s : Cardinality({f \in s : Sooner(f, e)}) >= Quarter(Cardinality(s))}

\* issue
Issued(s, id, now) ==
    LET alive == Purged(s, now) IN
    (IF Cardinality(alive) >= MaxTickets THEN Evicted(alive) ELSE alive)
        \cup {[id |-> id, expires |-> now + TTL]}

\* peek: after the purge no ticket of the store is out of date
Found(s, id, now) == \E e \in s : e.id = id /\ e.expires > now

\* what consume and consume_if leave of a store in which the ticket was found
Taken(s, id, now) == {e \in Purged(s, now) : e.id # id}
=============================================================================
