------------------------------- MODULE RedisCas -------------------------------
(***************************************************************************)
(* One row of the Redis hash `<prefix>:tasks` (device_gateway/redis_cas.py *)
(* and RedisStoreHelpers._cas_update) under any number of concurrent       *)
(* writers: event-loop code, asyncio.to_thread workers, other processes.   *)
(*                                                                         *)
(* A writer runs one `_cas_update` at a time: HGET, mutate the copy, bump  *)
(* `_version`, write through the compare-and-swap script, up to MaxRetries *)
(* times.  Motion events are appended by a single Lua script; when the row *)
(* is missing the caller writes a stub in a second, blind command.  Each   *)
(* Redis command is one step.                                              *)
(*                                                                         *)
(* The blob's content is abstracted to what updates of it can be told      *)
(* apart: how many updates of each writer it holds and its retry_count.    *)
(***************************************************************************)
EXTENDS Integers

CONSTANTS
    Writer,        \* concurrent callers of the store
    MaxRetries,    \* max_retries of _cas_update (3 in the code)
    MaxOps         \* bound: operations one writer performs

ASSUME RedisCasAssumption ==
    /\ MaxRetries \in Nat \ {0}
    /\ MaxOps \in Nat

VARIABLES
    created,    \* did create_task_state write the row before the writers ran
    row,        \* the hash field
    snap,       \* snap[w]: the copy w read and mutates
    pc,         \* pc[w]: the Redis command w issues next
    kind,       \* kind[w]: the mutation w is performing
    tries,      \* tries[w]: rejected writes of the current operation
    outcome,    \* outcome[w]: what the last operation returned
    holder,     \* holder[w]: result_holder[0] of increment_retry_count
    done,       \* done[w]: updates of w that were reported as written
    stubs,      \* stubs[w]: those of them that were written as stubs
    ops,        \* ops[w]: operations w has started
    seen        \* seen[w]: version w read first in the current operation

vars == <<created, row, snap, pc, kind, tries, outcome, holder, done, stubs,
          ops, seen>>

\* plain: a mutator without default_state; default: enqueue/pop/requeue, which
\* pass one; increment: increment_retry_count
Kind == {"plain", "default", "increment"}
Outcome == {"none", "ok", "missing", "exhausted"}
Row == [exists: BOOLEAN, ver: Nat, count: Nat, applied: [Writer -> Nat]]

\* no row, and a row as create_task_state writes it: without a `_version`
\* field, which get_version reads as 0
NoRow == [exists |-> FALSE, ver |-> 0, count |-> 0,
          applied |-> [w \in Writer |-> 0]]
CreatedRow == [exists |-> TRUE, ver |-> 0, count |-> 0,
               applied |-> [w \in Writer |-> 0]]

Init ==
    /\ created \in BOOLEAN
    /\ row = IF created THEN CreatedRow ELSE NoRow
    /\ snap = [w \in Writer |-> NoRow]
    /\ pc = [w \in Writer |-> "idle"]
    /\ kind = [w \in Writer |-> "plain"]
    /\ tries = [w \in Writer |-> 0]
    /\ outcome = [w \in Writer |-> "none"]
    /\ holder = [w \in Writer |-> 0]
    /\ done = [w \in Writer |-> 0]
    /\ stubs = [w \in Writer |-> 0]
    /\ ops = [w \in Writer |-> 0]
    /\ seen = [w \in Writer |-> 0]

\* row r with one more update of w in it, at version v and with retry count c
Written(r, w, v, c) ==
    [exists |-> TRUE, ver |-> v, count |-> c,
     applied |-> [r.applied EXCEPT ![w] = @ + 1]]

\* mutant: the count is not stored
NewCountLost(w) == snap[w].count

\* retry_count after the mutation of w
NewCount(w) == IF kind[w] = "increment" THEN snap[w].count + 1
                                        ELSE snap[w].count

\* mutant: the bump forgotten
MutatedNoBump(w) == Written(snap[w], w, snap[w].ver, NewCount(w))

\* The blob that w hands to the CAS script: its copy with the mutation
\* applied and the version bumped (bump_version).
Mutated(w) == Written(snap[w], w, snap[w].ver + 1, NewCount(w))

StartUpdate(w) ==
    /\ pc[w] = "idle"
    /\ ops[w] < MaxOps
    /\ \E k \in Kind : kind' = [kind EXCEPT ![w] = k]
    /\ pc' = [pc EXCEPT ![w] = "read"]
    /\ tries' = [tries EXCEPT ![w] = 0]
    /\ outcome' = [outcome EXCEPT ![w] = "none"]
    /\ holder' = [holder EXCEPT ![w] = 0]
    /\ ops' = [ops EXCEPT ![w] = @ + 1]
    /\ UNCHANGED <<row, snap, done, stubs, seen>>

\* HGET finds no row and no default was given: return None
ReadMissing(w) ==
    /\ pc[w] = "read"
    /\ ~row.exists
    /\ kind[w] # "default"
    /\ pc' = [pc EXCEPT ![w] = "idle"]
    /\ outcome' = [outcome EXCEPT ![w] = "missing"]
    /\ UNCHANGED <<row, snap, kind, tries, holder, done, stubs, ops, seen>>

\* HGET; the mutator runs on the copy and appends to result_holder, of which
\* only the first entry is ever returned
Read(w) ==
    /\ pc[w] = "read"
    /\ row.exists \/ kind[w] = "default"
    /\ snap' = [snap EXCEPT ![w] = IF row.exists THEN row ELSE NoRow]
    /\ holder' = [holder EXCEPT ![w] =
                    IF kind[w] = "increment" /\ tries[w] = 0
                    THEN row.count + 1 ELSE @]
    /\ seen' = [seen EXCEPT ![w] = IF tries[w] = 0 THEN row.ver ELSE @]
    /\ pc' = [pc EXCEPT ![w] = "write"]
    /\ UNCHANGED <<row, kind, tries, outcome, done, stubs, ops>>

\* mutant: the script writes whatever the version is
CasAcceptsAny(w) == row.exists /\ row.ver >= snap[w].ver

\* _CAS_LUA: the row exists and still has the version that was read.  (The
\* create-only branch needs a negative expected version, which get_version
\* never returns.)
CasAccepts(w) == row.exists /\ row.ver = snap[w].ver

WriteOk(w) ==
    /\ pc[w] = "write"
    /\ CasAccepts(w)
    /\ row' = Mutated(w)
    /\ done' = [done EXCEPT ![w] = @ + 1]
    /\ outcome' = [outcome EXCEPT ![w] = "ok"]
    /\ pc' = [pc EXCEPT ![w] = "idle"]
    /\ UNCHANGED <<snap, kind, tries, holder, stubs, ops, seen>>

\* mutants: one attempt too few, and no bound on the attempts
GiveUpOneEarly(w) ==
    /\ pc[w] = "write"
    /\ ~CasAccepts(w)
    /\ tries' = [tries EXCEPT ![w] = @ + 1]
    /\ IF tries[w] + 2 < MaxRetries
       THEN /\ pc' = [pc EXCEPT ![w] = "read"]
            /\ UNCHANGED outcome
       ELSE /\ pc' = [pc EXCEPT ![w] = "idle"]
            /\ outcome' = [outcome EXCEPT ![w] = "exhausted"]
    /\ UNCHANGED <<row, snap, kind, holder, done, stubs, ops, seen>>

RetryForever(w) ==
    /\ pc[w] = "write"
    /\ ~CasAccepts(w)
    /\ tries' = [tries EXCEPT ![w] = 1]
    /\ pc' = [pc EXCEPT ![w] = "read"]
    /\ UNCHANGED <<row, snap, kind, outcome, holder, done, stubs, ops, seen>>

\* the script answered 0 (version mismatch) or 2 (missing): try again, and
\* after MaxRetries rejections give up with None
WriteRejected(w) ==
    /\ pc[w] = "write"
    /\ ~CasAccepts(w)
    /\ tries' = [tries EXCEPT ![w] = @ + 1]
    /\ IF tries[w] + 1 < MaxRetries
       THEN /\ pc' = [pc EXCEPT ![w] = "read"]
            /\ UNCHANGED outcome
       ELSE /\ pc' = [pc EXCEPT ![w] = "idle"]
            /\ outcome' = [outcome EXCEPT ![w] = "exhausted"]
    /\ UNCHANGED <<row, snap, kind, holder, done, stubs, ops, seen>>

\* _APPEND_EVENT_LUA: append and bump in one script, or nil if there is no row
AppendEvent(w) ==
    /\ pc[w] = "idle"
    /\ ops[w] < MaxOps
    /\ ops' = [ops EXCEPT ![w] = @ + 1]
    /\ holder' = [holder EXCEPT ![w] = 0]
    /\ IF row.exists
       THEN /\ row' = Written(row, w, row.ver + 1, row.count)
            /\ done' = [done EXCEPT ![w] = @ + 1]
            /\ outcome' = [outcome EXCEPT ![w] = "ok"]
            /\ UNCHANGED pc
       ELSE /\ pc' = [pc EXCEPT ![w] = "stub"]
            /\ outcome' = [outcome EXCEPT ![w] = "none"]
            /\ UNCHANGED <<row, done>>
    /\ UNCHANGED <<snap, kind, tries, stubs, seen>>

\* record_motion_event after a nil: a blind HSET of a stub holding one event
WriteStub(w) ==
    /\ pc[w] = "stub"
    /\ row' = Written(CreatedRow, w, 0, 0)
    /\ done' = [done EXCEPT ![w] = @ + 1]
    /\ stubs' = [stubs EXCEPT ![w] = @ + 1]
    /\ outcome' = [outcome EXCEPT ![w] = "ok"]
    /\ pc' = [pc EXCEPT ![w] = "idle"]
    /\ UNCHANGED <<snap, kind, tries, holder, ops, seen>>

Step(w) ==
    \/ StartUpdate(w)
    \/ ReadMissing(w)
    \/ Read(w)
    \/ WriteOk(w)
    \/ WriteRejected(w)
    \/ AppendEvent(w)
    \/ WriteStub(w)

Next == created' = created /\ \E w \in Writer : Step(w)

Spec == Init /\ [][Next]_vars

\* a writer that has started an operation keeps issuing its commands
Going(w) ==
    /\ \/ ReadMissing(w) \/ Read(w) \/ WriteOk(w) \/ WriteRejected(w)
       \/ WriteStub(w)
    /\ created' = created

Fairness == \A w \in Writer : WF_vars(Going(w))

FairSpec == Spec /\ Fairness
-----------------------------------------------------------------------------
TypeOK ==
    /\ created \in BOOLEAN
    /\ row \in Row
    /\ snap \in [Writer -> Row]
    /\ pc \in [Writer -> {"idle", "read", "write", "stub"}]
    /\ kind \in [Writer -> Kind]
    /\ tries \in [Writer -> Nat]
    /\ outcome \in [Writer -> Outcome]
    /\ holder \in [Writer -> Nat]
    /\ done \in [Writer -> Nat]
    /\ stubs \in [Writer -> Nat]
    /\ ops \in [Writer -> Nat]
    /\ seen \in [Writer -> Nat]

(***************************************************************************)
(* The stub is the one write that looks at nothing: it may fall on a row   *)
(* that another stub made.  Most of what follows is about rows that exist  *)
(* before their writers run, or that one stub at most was written for.     *)
(***************************************************************************)
OneStub ==
    /\ \A w \in Writer : stubs[w] <= 1
    /\ \A v, w \in Writer : stubs[v] > 0 /\ stubs[w] > 0 => v = w

(***************************************************************************)
(* No update that was reported as written is overwritten by a slower       *)
(* writer, and none that was given up on slips in: a row written by        *)
(* create_task_state holds exactly the reported updates.  A row that       *)
(* begins as a stub holds them too, except perhaps the stub's own event: a *)
(* _cas_update with a default that read no row expects version 0, which is *)
(* the stub's.  A second stub, record_motion_event of two callers who both *)
(* got nil, overwrites anything: the events of the first are lost.         *)
(***************************************************************************)
NoLostUpdate ==
    /\ created => row.exists /\ \A w \in Writer : stubs[w] = 0
    /\ OneStub => \A w \in Writer :
                     row.applied[w] \in (done[w] - stubs[w]) .. done[w]

(***************************************************************************)
(* Why the compare-and-swap is enough: a copy whose version is still the   *)
(* current one is still the current content.  On a row that began as a     *)
(* stub this fails for one copy only, the default made where no row was.   *)
(***************************************************************************)
SameVersionSameContent ==
    OneStub => \A w \in Writer : pc[w] = "write" =>
        /\ snap[w].ver <= row.ver
        /\ snap[w].exists /\ snap[w].ver = row.ver => snap[w] = row
        /\ ~snap[w].exists => ~created /\ snap[w] = NoRow

(***************************************************************************)
(* _cas_update gives up on an existing row only after that many other      *)
(* writes went through during the call, so the writers as a whole progress.*)
(***************************************************************************)
ExhaustedMeansOthersWrote ==
    created => \A w \in Writer :
        outcome[w] = "exhausted" => row.ver >= seen[w] + MaxRetries

(***************************************************************************)
(* increment_retry_count returns the count that its first attempt computed *)
(* (result_holder[0]), whatever became of the write.  If a write went      *)
(* through the count is never ahead of the one in the row; if the update   *)
(* gave up the count is returned all the same, and is ahead of the row by  *)
(* at most the increment that was not stored.                              *)
(***************************************************************************)
ReturnedCountNotAhead ==
    OneStub => \A w \in Writer :
        /\ outcome[w] = "ok" => holder[w] <= row.count
        /\ outcome[w] = "exhausted" => holder[w] <= row.count + 1

(***************************************************************************)
(* The version of an existing row counts its writes: each write moves it   *)
(* by exactly one and nothing moves it back (no ABA for the CAS).          *)
(***************************************************************************)
VersionCountsWrites ==
    [][created =>
         \/ row' = row
         \/ /\ row'.ver = row.ver + 1
            /\ row'.count >= row.count]_vars

(***************************************************************************)
(* The read / compare-and-swap / append protocol implements atomic updates.*)
(***************************************************************************)
Atomic == INSTANCE AtomicRow WITH
    applied <- IF created THEN row.applied ELSE [w \in Writer |-> 0],
    count <- IF created THEN row.count ELSE 0

ImplementsAtomicRow == Atomic!Spec

(***************************************************************************)
(* Every started operation returns, whatever the row's fate: the retry     *)
(* loop is bounded.                                                        *)
(***************************************************************************)
OperationsReturn == \A w \in Writer : (pc[w] # "idle") ~> (pc[w] = "idle")

=============================================================================
