-------------------------- MODULE DlcDispatch_proofs --------------------------
(* Theorems about DlcDispatch, for every number of requests, faults, claims  *)
(* that run out and crashes.                                                 *)
EXTENDS DlcDispatch, FiniteSetTheorems, TLAPS

\* What the proofs need of the types.
Shape ==
    /\ pc \in [Request -> Places]
    /\ answer \in [Request -> Answers]
    /\ pushes \in [Request -> Nat]
    /\ keyed \subseteq Request
    /\ expiries \in Nat /\ crashes \in Nat

\* They are kept by every step.
LEMMA ShapeStep == Shape /\ [Next]_vars => Shape'
<1> SUFFICES ASSUME Shape, [Next]_vars PROVE Shape'
  OBVIOUS
<1> USE DEF Shape, Places, Answers, Kept, countVars, taskVars
<1>1. ASSUME NEW r \in Request,
             ClaimNothing(r) \/ ClaimInL1(r) \/ ClaimUnconfigured(r) \/ Claim(r) \/ Build(r)
      PROVE  Shape'
  BY <1>1 DEF ClaimNothing, ClaimInL1, ClaimUnconfigured, Claim, ClaimWithoutStore, Build,
     Answered, GoOn
<1>2. ASSUME NEW r \in Request, Acquire(r) \/ Check(r) \/ Create(r) \/ Mark(r) \/ Deliver(r)
      PROVE  Shape'
  BY <1>2 DEF Acquire, Check, Create, Mark, Deliver, GiveUp, Answered, GoOn
<1>3. ASSUME NEW r \in Request, Push(r) PROVE Shape'
  <2>1. PICK o \in Outcomes :
          pushes' = [pushes EXCEPT ![r] = @ + (IF ~o.ran THEN 0 ELSE IF o.again THEN 2 ELSE 1)]
    BY <1>3 DEF Push
  <2>2. pushes' \in [Request -> Nat]
    BY <2>1
  <2> QED
    BY <1>3, <2>2 DEF Push, GoOn
<1>4. ASSUME NEW r \in Request, Raise(r) PROVE Shape'
  BY <1>4 DEF Raise, Answered
<1>5. ASSUME NEW r \in Request, Drain(r) \/ End(r) PROVE Shape'
  BY <1>5 DEF Drain, End
<1>6. CASE L1Expires \/ StoreExpires \/ Crash
  BY <1>6 DEF L1Expires, StoreExpires, Crash
<1>7. CASE UNCHANGED vars
  BY <1>7 DEF vars
<1> QED
  BY <1>1, <1>2, <1>3, <1>4, <1>5, <1>6, <1>7 DEF Next, Handle
-----------------------------------------------------------------------------
\* A release gives back the claim of the request itself, when clients send a
\* request_id.
LEMMA ReleaseOwn ==
    ASSUME config.named, NEW r \in Request, Release(r)
    PROVE  /\ store' # store => store = r
           /\ l1' # l1 => l1 = r
<1>1. \A q : SameValue(q, r) => q = r
  BY DEF SameValue
<1>2. CASE r \notin keyed
  BY <1>2 DEF Release, keyVars
<1>3. CASE r \in keyed
  <2>1. l1' # l1 => l1 = r
    BY <1>1, <1>3 DEF Release
  <2>2. store' # store => store = r
    BY <1>1, <1>3 DEF Release
  <2> QED
    BY <2>1, <2>2
<1> QED
  BY <1>2, <1>3

\* A step of one request never removes or replaces the claim of another.
LEMMA ClaimsKeptStep ==
    ASSUME Shape, [Next]_vars, config.named
    PROVE  /\ store # None /\ store' # store =>
                \A r \in Request \ {store} : pc'[r] = pc[r]
           /\ l1 # None /\ l1' # l1 /\ crashes' = crashes =>
                \A r \in Request \ {l1} : pc'[r] = pc[r]
<1> DEFINE Kept_(r) == /\ store # None /\ store' # store => store = r
                       /\ l1 # None /\ l1' # l1 => l1 = r
<1>1. ASSUME NEW r \in Request, Handle(r) PROVE Kept_(r)
  <2>1. CASE ClaimNothing(r) \/ ClaimInL1(r) \/ ClaimUnconfigured(r) \/ Claim(r)
    BY <2>1 DEF ClaimNothing, ClaimInL1, ClaimUnconfigured, Claim, ClaimWithoutStore, keyVars
  <2>2. CASE Acquire(r) \/ Push(r) \/ Mark(r) \/ Deliver(r)
    BY <2>2 DEF Acquire, Push, Mark, Deliver, keyVars
  <2>3. CASE Build(r) \/ Check(r) \/ Create(r) \/ Raise(r)
    BY <2>3, ReleaseOwn DEF Build, Check, Create, Raise, GiveUp, keyVars
  <2> QED
    BY <1>1, <2>1, <2>2, <2>3 DEF Handle
<1>2. ASSUME NEW r \in Request, Handle(r) PROVE \A q \in Request \ {r} : pc'[q] = pc[q]
  BY <1>2 DEF Handle, ClaimNothing, ClaimInL1, ClaimUnconfigured, Claim, ClaimWithoutStore,
     Build, Acquire, Check, Create, Push, Mark, Raise, Deliver, GiveUp, Answered, GoOn, Shape
<1>3. CASE \E r \in Request : Drain(r) \/ End(r)
  BY <1>3 DEF Drain, End, keyVars
<1>4. CASE L1Expires \/ StoreExpires
  BY <1>4 DEF L1Expires, StoreExpires, keyVars
<1>5. CASE Crash
  BY <1>5 DEF Crash, Shape
<1>6. CASE UNCHANGED vars
  BY <1>6 DEF vars, keyVars
<1> QED
  BY <1>1, <1>2, <1>3, <1>4, <1>5, <1>6 DEF Next

THEOREM ClaimsOfOthersKept == Spec => OthersClaimKept
<1>1. Init => Shape
  BY DEF Init, Shape, Places, Answers, Kept
<1>2. Shape /\ [Next]_vars =>
        (config.named =>
           /\ store # None /\ store' # store =>
                \A r \in Request \ {store} : pc'[r] = pc[r]
           /\ l1 # None /\ l1' # l1 /\ crashes' = crashes =>
                \A r \in Request \ {l1} : pc'[r] = pc[r])
  BY ClaimsKeptStep
<1> QED
  BY <1>1, <1>2, ShapeStep, PTL DEF Spec, OthersClaimKept
-----------------------------------------------------------------------------
Working == {"build", "lock", "check", "create", "push", "mark", "deliver"}

\* The claim of r must still stand: r is at work, was accepted, or died with
\* the worker.
InForce(r) == pc[r] \in Working \cup {"dead"} \/ (pc[r] = "done" /\ answer[r] \in Kept)

\* Entries are pushed for requests whose claim must stand, or that are late.
PushedInForce ==
    \A r \in Request :
        /\ pc[r] \notin {"mark", "deliver", "done", "dead"} => pushes[r] = 0
        /\ pushes[r] > 0 => InForce(r) \/ r \in late

\* Such a claim does stand: in Redis for production, else in the process.
ClaimStands ==
    expiries = 0 /\ (crashes = 0 \/ config.production) =>
        \A r \in keyed : InForce(r) => r = IF config.production THEN store ELSE l1

\* What a step of r may change of the other requests: nothing they claim.
LEMMA HandleFrame ==
    ASSUME Shape, NEW r \in Request, Handle(r)
    PROVE  /\ \A q \in Request \ {r} :
                 /\ pc'[q] = pc[q] /\ answer'[q] = answer[q] /\ pushes'[q] = pushes[q]
           /\ UNCHANGED <<config, keyed, expiries, crashes>>
           /\ late \subseteq late'
<1> USE DEF Shape, countVars, taskVars
<1>1. CASE ClaimNothing(r) \/ ClaimInL1(r) \/ ClaimUnconfigured(r) \/ Claim(r) \/ Build(r)
  BY <1>1 DEF ClaimNothing, ClaimInL1, ClaimUnconfigured, Claim, ClaimWithoutStore, Build,
     Answered, GoOn
<1>2. CASE Acquire(r) \/ Check(r) \/ Create(r) \/ Mark(r) \/ Deliver(r)
  BY <1>2 DEF Acquire, Check, Create, Mark, Deliver, GiveUp, Answered, GoOn
<1>3. CASE Push(r)
  BY <1>3 DEF Push, GoOn
<1>4. CASE Raise(r)
  BY <1>4 DEF Raise, Answered
<1> QED
  BY <1>1, <1>2, <1>3, <1>4 DEF Handle

\* What is pushed stays with claims that must stand.
LEMMA PushedInForceStep ==
    ASSUME Shape, PushedInForce, [Next]_vars
    PROVE  PushedInForce'
<1> USE DEF Shape, countVars, taskVars
<1>1. ASSUME NEW r \in Request, Handle(r) PROVE PushedInForce'
  <2> DEFINE Fine == /\ pc'[r] \notin {"mark", "deliver", "done", "dead"} => pushes'[r] = 0
                     /\ pushes'[r] > 0 => InForce(r)' \/ r \in late'
  <2>1. ASSUME ClaimNothing(r) \/ ClaimInL1(r) \/ ClaimUnconfigured(r) \/ Claim(r) \/ Build(r)
        PROVE  Fine
    <3>1. pushes'[r] = 0
      BY <2>1 DEF ClaimNothing, ClaimInL1, ClaimUnconfigured, Claim, Build, PushedInForce
    <3> QED
      BY <3>1
  <2>2. ASSUME Acquire(r) \/ Check(r) \/ Create(r) PROVE Fine
    <3>1. pushes'[r] = 0
      BY <2>2 DEF Acquire, Check, Create, PushedInForce
    <3> QED
      BY <3>1
  <2>3. ASSUME Push(r) \/ Mark(r) PROVE Fine
    <3>1. pc'[r] \in {"mark", "deliver"}
      BY <2>3 DEF Push, Mark, GoOn
    <3> QED
      BY <3>1 DEF InForce, Working
  <2>4. ASSUME Deliver(r) PROVE Fine
    BY <2>4 DEF Deliver, Answered, InForce
  <2>5. ASSUME Raise(r) PROVE Fine
    BY <2>5 DEF Raise, Answered
  <2>6. Fine
    BY <1>1, <2>1, <2>2, <2>3, <2>4, <2>5 DEF Handle
  <2>7. ASSUME NEW q \in Request \ {r}
        PROVE  /\ pc'[q] \notin {"mark", "deliver", "done", "dead"} => pushes'[q] = 0
               /\ pushes'[q] > 0 => InForce(q)' \/ q \in late'
    BY <1>1, HandleFrame DEF PushedInForce, InForce
  <2> QED
    BY <2>6, <2>7 DEF PushedInForce
<1>2. ASSUME NEW r \in Request, Drain(r) \/ End(r) PROVE PushedInForce'
  BY <1>2 DEF Drain, End, PushedInForce, InForce
<1>3. CASE L1Expires \/ StoreExpires
  BY <1>3 DEF L1Expires, StoreExpires, PushedInForce, InForce
<1>4. CASE Crash
  BY <1>4 DEF Crash, PushedInForce, InForce
<1>5. CASE UNCHANGED vars
  BY <1>5 DEF vars, PushedInForce, InForce
<1> QED
  BY <1>1, <1>2, <1>3, <1>4, <1>5 DEF Next

\* A step of r that leaves the claims alone adds nothing in force.
LEMMA StandsWithoutClaim ==
    ASSUME ClaimStands, NEW r \in Request, Shape, Handle(r),
           UNCHANGED keyVars, InForce(r)' => InForce(r) \/ r \notin keyed
    PROVE  ClaimStands'
<1>1. \A q \in keyed : InForce(q)' => InForce(q)
  BY HandleFrame DEF InForce, Shape
<1> QED
  BY <1>1, HandleFrame DEF ClaimStands, keyVars

\* A request that gives its claim back was the only one in force.
LEMMA StandsAfterRelease ==
    ASSUME ClaimStands, NEW r \in Request, Shape, Handle(r), Release(r),
           InForce(r), ~InForce(r)'
    PROVE  ClaimStands'
<1>1. CASE r \notin keyed
  BY <1>1, StandsWithoutClaim DEF Release, keyVars
<1>2. CASE r \in keyed
  <2>1. SUFFICES ASSUME expiries = 0, crashes = 0 \/ config.production,
                        NEW q \in keyed, InForce(q)'
                 PROVE  FALSE
    BY HandleFrame DEF ClaimStands
  <2>2. q # r
    BY <2>1
  <2>3. InForce(q)
    BY <2>1, <2>2, HandleFrame DEF InForce, Shape
  <2> QED
    BY <1>2, <2>1, <2>2, <2>3 DEF ClaimStands
<1> QED
  BY <1>1, <1>2

\* Where the entry that counts is free, nobody is in force.
LEMMA FreeMeansNobody ==
    ASSUME ClaimStands, Shape, expiries = 0, crashes = 0 \/ config.production,
           (IF config.production THEN store ELSE l1) = None, NEW q \in keyed
    PROVE  ~InForce(q)
  BY DlcDispatchAssumption DEF ClaimStands, Shape

\* No step takes a claim that must stand, before it runs out.
LEMMA ClaimStandsStep ==
    ASSUME Shape, ClaimStands, [Next]_vars
    PROVE  ClaimStands'
<1>1. ASSUME NEW r \in Request, Handle(r) PROVE ClaimStands'
  <2>1. CASE ClaimNothing(r)
    BY <1>1, <2>1, StandsWithoutClaim DEF ClaimNothing
  <2>2. CASE ClaimInL1(r)
    <3>1. ~InForce(r)'
      BY <2>2 DEF ClaimInL1, Answered, InForce, Working, Kept, Shape
    <3> QED
      BY <1>1, <2>2, <3>1, StandsWithoutClaim DEF ClaimInL1
  <2>3. CASE ClaimUnconfigured(r) \/ Claim(r)
    <3>1. SUFFICES ASSUME expiries = 0, crashes = 0 \/ config.production,
                          NEW q \in keyed, InForce(q)'
                   PROVE  q = IF config.production THEN store' ELSE l1'
      BY <1>1, HandleFrame DEF ClaimStands
    <3>2. l1 = None /\ r \in keyed
      BY <2>3 DEF ClaimUnconfigured, Claim
    <3>3. q # r => InForce(q)
      BY <1>1, <3>1, HandleFrame DEF InForce, Shape
    <3>4. InForce(r)' => pc'[r] = "build"
      BY <2>3 DEF ClaimUnconfigured, Claim, ClaimWithoutStore, Answered, GoOn, InForce,
         Working, Kept, Shape
    <3>5. CASE config.production
      <4>1. pc'[r] = "build" => store = None /\ store' = r
        <5>1. \A o \in Outcomes : o.reply => o.ran
          BY DEF Outcomes
        <5> QED
          BY <2>3, <3>5, <5>1 DEF ClaimUnconfigured, Claim, ClaimWithoutStore, Answered,
             GoOn, Shape
      <4>2. store # None => store' = store
        BY <2>3 DEF ClaimUnconfigured, Claim
      <4>3. CASE q = r
        BY <3>1, <3>4, <3>5, <4>1, <4>3
      <4>4. CASE q # r
        BY <3>1, <3>3, <3>5, <4>2, <4>4, FreeMeansNobody DEF ClaimStands
      <4> QED
        BY <4>3, <4>4
    <3>6. CASE ~config.production
      <4>1. q = r
        BY <3>1, <3>2, <3>3, <3>6, FreeMeansNobody
      <4>2. pc'[r] = "build" => l1' = r
        BY <2>3, <3>6 DEF ClaimUnconfigured, Claim, ClaimWithoutStore, Answered, GoOn, Shape
      <4> QED
        BY <3>1, <3>4, <3>6, <4>1, <4>2
    <3> QED
      BY <3>5, <3>6
  <2>4. CASE Acquire(r) \/ Push(r) \/ Mark(r) \/ Deliver(r)
    <3>1. UNCHANGED keyVars /\ InForce(r)
      BY <2>4 DEF Acquire, Push, Mark, Deliver, InForce, Working
    <3> QED
      BY <1>1, <3>1, StandsWithoutClaim
  <2>5. CASE Build(r) \/ Check(r) \/ Create(r) \/ Raise(r)
    <3>1. InForce(r)
      BY <2>5 DEF Build, Check, Create, Raise, InForce, Working
    <3>2. UNCHANGED keyVars \/ (Release(r) /\ ~InForce(r)')
      BY <2>5 DEF Build, Check, Create, Raise, GiveUp, GoOn, Answered, InForce, Working,
         Kept, Shape
    <3> QED
      BY <1>1, <3>1, <3>2, StandsWithoutClaim, StandsAfterRelease
  <2> QED
    BY <1>1, <2>1, <2>2, <2>3, <2>4, <2>5 DEF Handle
<1>2. CASE \E r \in Request : Drain(r) \/ End(r)
  BY <1>2 DEF Drain, End, ClaimStands, InForce, keyVars, countVars
<1>3. CASE L1Expires
  BY <1>3 DEF L1Expires, ClaimStands, InForce, Shape
<1>4. CASE StoreExpires
  BY <1>4 DEF StoreExpires, ClaimStands, Shape
<1>5. CASE Crash
  <2>1. crashes' # 0 /\ UNCHANGED <<config, keyed, store, answer, expiries>>
    BY <1>5 DEF Crash, Shape
  <2>2. \A q \in keyed : InForce(q)' => InForce(q)
    BY <1>5 DEF Crash, InForce, Working, Shape, Places
  <2> QED
    BY <2>1, <2>2 DEF ClaimStands, Shape
<1>6. CASE UNCHANGED vars
  BY <1>6 DEF vars, keyVars, ClaimStands, InForce, countVars
<1> QED
  BY <1>1, <1>2, <1>3, <1>4, <1>5, <1>6 DEF Next

\* What holds of the claims holds DispatchedOnce.
LEMMA InForceOnce == Shape /\ PushedInForce /\ ClaimStands => DispatchedOnce
<1> SUFFICES ASSUME Shape, PushedInForce, ClaimStands,
                    expiries = 0, crashes = 0 \/ config.production
             PROVE  Cardinality({r \in keyed \ late : pushes[r] > 0}) =< 1
  BY DEF DispatchedOnce
<1> DEFINE P == {r \in keyed \ late : pushes[r] > 0}
           holder == IF config.production THEN store ELSE l1
<1>1. P \subseteq {holder}
  BY DEF PushedInForce, ClaimStands, Shape
<1>2. CASE P = {}
  BY <1>2, FS_EmptySet
<1>3. CASE P = {holder}
  BY <1>3, FS_Singleton
<1> QED
  BY <1>1, <1>2, <1>3

\* A repeated Idempotency-Key does not dispatch twice while its claim is in
\* force: the entries ever pushed under it belong to one request.
THEOREM DispatchedAtMostOnce == Spec => []DispatchedOnce
<1>1. Init => Shape /\ PushedInForce /\ ClaimStands
  BY DEF Init, Shape, Places, Answers, Kept, PushedInForce, ClaimStands, InForce, Working
<1>2. Shape /\ PushedInForce /\ ClaimStands /\ [Next]_vars
        => (Shape /\ PushedInForce /\ ClaimStands)'
  BY ShapeStep, PushedInForceStep, ClaimStandsStep
<1> QED
  BY <1>1, <1>2, InForceOnce, PTL DEF Spec
-----------------------------------------------------------------------------
\* Without a Redis client for the claims there is no claim in Redis.
StoreUsed == ~config.redis => store = None

\* The variables start with their types.
LEMMA InitTyped ==
    ASSUME Init
    PROVE  TypeOK
<1>1. pc \in [Request -> Places] /\ answer \in [Request -> Answers] /\ task \in [Request -> Statuses]
  BY DEF Init, Places, Answers, Statuses
<1>2. {queue, pushes} \subseteq [Request -> Nat]
  BY DEF Init
<1>3. config \in [production: BOOLEAN, redis: BOOLEAN, named: BOOLEAN] /\ keyed \subseteq Request
  BY DEF Init
<1>4. late \subseteq Request /\ {l1, store} \subseteq keyed \cup {None} /\ lock \in Request \cup {None}
  BY DEF Init
<1>5. leftover \in BOOLEAN
  BY DEF Init
<1>6. {faults, expiries, crashes} \subseteq Nat
  BY DEF Init
<1> QED
  BY <1>1, <1>2, <1>3, <1>4, <1>5, <1>6 DEF TypeOK

\* The variables have their types.
LEMMA TypeStep ==
    ASSUME TypeOK, [Next]_vars
    PROVE  TypeOK'
<1> USE DEF TypeOK, countVars, taskVars, keyVars
<1>0. \A o \in Outcomes : Counted(o) \in Nat
  BY DEF Counted
<1>1. ASSUME NEW r \in Request, Release(r)
      PROVE  {l1', store'} \subseteq keyed \cup {None} /\ leftover' \in BOOLEAN /\ faults' \in Nat
  BY <1>0, <1>1 DEF Release
<1>2. ASSUME NEW r \in Request, NEW a \in Answers, Answered(r, a)
      PROVE  pc' \in [Request -> Places] /\ answer' \in [Request -> Answers]
  BY <1>2 DEF Answered, Places
<1>3. ASSUME NEW r \in Request, NEW p \in Places, GoOn(r, p)
      PROVE  pc' \in [Request -> Places] /\ answer' \in [Request -> Answers]
  BY <1>3 DEF GoOn
<1>4. /\ {"build", "lock", "check", "create", "push", "mark", "deliver"} \subseteq Places
      /\ {"duplicate", "unavailable", "failed", "error", "rejected", "waiting_approval"} \cup Kept \subseteq Answers
  BY DEF Places, Answers
<1>5. ASSUME NEW r \in Request, ClaimWithoutStore(r), r \in keyed
      PROVE  /\ pc' \in [Request -> Places] /\ answer' \in [Request -> Answers]
             /\ l1' \in keyed \cup {None}
  BY <1>2, <1>3, <1>4, <1>5 DEF ClaimWithoutStore
<1>6. ASSUME NEW r \in Request, ClaimNothing(r) \/ ClaimInL1(r) \/ ClaimUnconfigured(r)
      PROVE  TypeOK'
  BY <1>2, <1>3, <1>4, <1>5, <1>6 DEF ClaimNothing, ClaimInL1, ClaimUnconfigured
<1>7. ASSUME NEW r \in Request, Claim(r) PROVE TypeOK'
  <2>1. PICK o \in Outcomes :
           /\ store' = IF o.ran /\ store = None THEN r ELSE store
           /\ faults' = Counted(o)
           /\ leftover' = (leftover \/ (store' # store /\ (o.again \/ ~o.reply)))
           /\ IF ~o.reply THEN ClaimWithoutStore(r)
              ELSE IF store = None /\ ~o.again THEN GoOn(r, "build") /\ l1' = r
              ELSE Answered(r, "duplicate") /\ l1' = None
    BY <1>7 DEF Claim
  <2>2. r \in keyed /\ UNCHANGED <<config, keyed, lock, taskVars, late, expiries, crashes>>
    BY <1>7 DEF Claim
  <2>3. /\ pc' \in [Request -> Places] /\ answer' \in [Request -> Answers]
        /\ l1' \in keyed \cup {None}
    BY <1>2, <1>3, <1>4, <1>5, <2>1, <2>2
  <2>4. store' \in keyed \cup {None} /\ faults' \in Nat /\ leftover' \in BOOLEAN
    BY <1>0, <2>1, <2>2
  <2> QED
    BY <2>2, <2>3, <2>4
<1>8. ASSUME NEW r \in Request, Build(r) PROVE TypeOK'
  BY <1>1, <1>2, <1>3, <1>4, <1>8 DEF Build
<1>9. ASSUME NEW r \in Request, NEW a \in Answers, GiveUp(r, a)
      PROVE  /\ lock' \in Request \cup {None}
             /\ pc' \in [Request -> Places] /\ answer' \in [Request -> Answers]
             /\ {l1', store'} \subseteq keyed \cup {None} /\ leftover' \in BOOLEAN /\ faults' \in Nat
  BY <1>1, <1>2, <1>9 DEF GiveUp
<1>10. ASSUME NEW r \in Request, Acquire(r) \/ Mark(r) \/ Deliver(r) PROVE TypeOK'
  BY <1>2, <1>3, <1>4, <1>10 DEF Acquire, Mark, Deliver, Statuses
<1>11. ASSUME NEW r \in Request, Check(r) PROVE TypeOK'
  <2>1. \E old : Expire(old)
    BY <1>11 DEF Check
  <2>2. queue' \in [Request -> Nat] /\ task' \in [Request -> Statuses]
    BY <2>1 DEF Expire, Statuses
  <2>3. UNCHANGED <<config, keyed, pushes, late, expiries, crashes>>
    BY <1>11 DEF Check
  <2>4. GiveUp(r, "rejected") \/ (GoOn(r, "create") /\ UNCHANGED <<lock, keyVars, leftover, faults>>)
    BY <1>11 DEF Check
  <2> QED
    BY <1>3, <1>4, <1>9, <2>2, <2>3, <2>4
<1>12. ASSUME NEW r \in Request, Create(r) PROVE TypeOK'
  BY <1>3, <1>4, <1>9, <1>12 DEF Create, Statuses
<1>13. ASSUME NEW r \in Request, Push(r) PROVE TypeOK'
  <2>1. PICK n \in Nat, o \in Outcomes :
           /\ queue' = [queue EXCEPT ![r] = @ + n]
           /\ pushes' = [pushes EXCEPT ![r] = @ + n]
           /\ faults' = Counted(o)
    BY <1>13 DEF Push
  <2>2. {queue', pushes'} \subseteq [Request -> Nat] /\ faults' \in Nat
    BY <1>0, <2>1
  <2> QED
    BY <1>3, <1>4, <1>13, <2>2 DEF Push
<1>14. ASSUME NEW r \in Request, Raise(r) PROVE TypeOK'
  <2>1. {queue', pushes'} \subseteq [Request -> Nat] /\ task' \in [Request -> Statuses] /\ late' \subseteq Request
    BY <1>14 DEF Raise, Statuses
  <2> QED
    BY <1>1, <1>2, <1>4, <1>14, <2>1 DEF Raise
<1>15. ASSUME NEW r \in Request, Drain(r) \/ End(r) PROVE TypeOK'
  BY <1>15 DEF Drain, End, Statuses
<1>16. CASE L1Expires \/ StoreExpires \/ Crash
  BY <1>16 DEF L1Expires, StoreExpires, Crash, Places
<1>17. CASE UNCHANGED vars
  BY <1>17 DEF vars
<1> QED
  BY <1>6, <1>7, <1>8, <1>10, <1>11, <1>12, <1>13, <1>14, <1>15, <1>16, <1>17 DEF Next, Handle
-----------------------------------------------------------------------------
Inside == {"check", "create", "push", "mark", "deliver"}

\* Who is behind the lock holds it.
LockHeld == \A r \in Request : pc[r] \in Inside => lock = r

\* The lock is given away only by its holder.
LEMMA LockHeldStep ==
    ASSUME TypeOK, LockHeld, [Next]_vars
    PROVE  LockHeld'
<1> USE DEF TypeOK, LockHeld, Inside
<1>1. ASSUME NEW r \in Request, NEW a, Answered(r, a), lock' = None, pc[r] \in Inside
      PROVE  LockHeld'
  BY <1>1, DlcDispatchAssumption DEF Answered
<1>2. ASSUME NEW r \in Request, NEW a, Answered(r, a), lock' = lock
      PROVE  LockHeld'
  BY <1>2 DEF Answered
<1>3. ASSUME NEW r \in Request, NEW p, GoOn(r, p), lock' = lock, p \in Inside => pc[r] \in Inside
      PROVE  LockHeld'
  BY <1>3 DEF GoOn
<1>4. ASSUME NEW r \in Request, ClaimNothing(r) \/ ClaimInL1(r) \/ ClaimUnconfigured(r) \/ Claim(r) \/ Build(r)
      PROVE  LockHeld'
  BY <1>2, <1>3, <1>4 DEF ClaimNothing, ClaimInL1, ClaimUnconfigured, Claim, ClaimWithoutStore, Build
<1>5. ASSUME NEW r \in Request, Acquire(r) PROVE LockHeld'
  BY <1>5, DlcDispatchAssumption DEF Acquire, GoOn
<1>6. ASSUME NEW r \in Request, Check(r) \/ Create(r) \/ Push(r) \/ Mark(r) \/ Raise(r) \/ Deliver(r)
      PROVE  LockHeld'
  BY <1>1, <1>3, <1>6 DEF Check, Create, Push, Mark, Raise, Deliver, GiveUp
<1>7. CASE (\E r \in Request : Drain(r) \/ End(r)) \/ L1Expires \/ StoreExpires
  BY <1>7 DEF Drain, End, L1Expires, StoreExpires
<1>8. CASE Crash
  BY <1>8 DEF Crash
<1>9. CASE UNCHANGED vars
  BY <1>9 DEF vars
<1> QED
  BY <1>4, <1>5, <1>6, <1>7, <1>8, <1>9 DEF Next, Handle
-----------------------------------------------------------------------------
(* One task at a time.                                                     *)

\* Entries wait in the pending list only if they were pushed.
Waiting == \A r \in Request : queue[r] =< pushes[r]

\* The requests OneActive is about: the task was pushed once, and its request
\* neither raised behind the push nor died.
Plain(r) == pushes[r] = 1 /\ r \notin late /\ pc[r] \in {"mark", "deliver", "done"}

\* An entry of such a task that still waits has its row in queued.
Queued ==
    \A r \in Request :
        Plain(r) /\ pc[r] # "mark" /\ queue[r] > 0 => task[r] = "queued"

\* The request the device is given to: past the busy check, or with an active task.
Sole(r) == pc[r] \in {"create", "push", "mark"} \/ (Plain(r) /\ task[r] \in Active)

OneSole == \A q, r \in Request : Sole(q) /\ Sole(r) => q = r

\* the invariant of the lock and the tasks
Given == Waiting /\ Queued /\ OneSole

\* Every entry that waits was pushed.
LEMMA WaitingStep ==
    ASSUME TypeOK, Waiting, [Next]_vars
    PROVE  Waiting'
<1> USE DEF TypeOK, Waiting, countVars, taskVars
<1>1. ASSUME NEW r \in Request, Handle(r) PROVE Waiting'
  <2>1. CASE ClaimNothing(r) \/ ClaimInL1(r) \/ ClaimUnconfigured(r) \/ Claim(r) \/ Build(r)
    BY <2>1 DEF ClaimNothing, ClaimInL1, ClaimUnconfigured, Claim, Build
  <2>2. CASE Acquire(r) \/ Create(r) \/ Mark(r) \/ Deliver(r)
    BY <2>2 DEF Acquire, Create, Mark, Deliver
  <2>3. CASE Check(r)
    BY <2>3 DEF Check, Expire
  <2>4. CASE Push(r)
    <3>1. PICK n \in Nat : /\ queue' = [queue EXCEPT ![r] = @ + n]
                           /\ pushes' = [pushes EXCEPT ![r] = @ + n]
      BY <2>4 DEF Push
    <3> QED
      BY <3>1
  <2>5. CASE Raise(r)
    BY <2>5 DEF Raise
  <2> QED
    BY <1>1, <2>1, <2>2, <2>3, <2>4, <2>5 DEF Handle
<1>2. ASSUME NEW r \in Request, Drain(r) \/ End(r) PROVE Waiting'
  BY <1>2 DEF Drain, End
<1>3. CASE L1Expires \/ StoreExpires \/ Crash
  BY <1>3 DEF L1Expires, StoreExpires, Crash
<1>4. CASE UNCHANGED vars
  BY <1>4 DEF vars
<1> QED
  BY <1>1, <1>2, <1>3, <1>4 DEF Next

\* What a step of r leaves of the other tasks: an old entry may be dropped,
\* and its row closed with it.
LEMMA TaskFrame ==
    ASSUME TypeOK, NEW r \in Request, Handle(r), NEW q \in Request \ {r}
    PROVE  /\ pc'[q] = pc[q] /\ pushes'[q] = pushes[q]
           /\ q \in late' <=> q \in late
           /\ \/ task'[q] = task[q] /\ queue'[q] = queue[q]
              \/ task[q] = "queued" /\ task'[q] = "expired" /\ queue'[q] = 0
              \/ task[q] # "queued" /\ task'[q] = task[q] /\ queue'[q] = 0
<1> USE DEF TypeOK, countVars, taskVars
<1>1. pc'[q] = pc[q] /\ pushes'[q] = pushes[q]
  BY HandleFrame DEF Shape
<1>2. CASE ClaimNothing(r) \/ ClaimInL1(r) \/ ClaimUnconfigured(r) \/ Claim(r) \/ Build(r)
  BY <1>1, <1>2 DEF ClaimNothing, ClaimInL1, ClaimUnconfigured, Claim, Build
<1>3. CASE Acquire(r) \/ Create(r) \/ Mark(r) \/ Deliver(r)
  BY <1>1, <1>3 DEF Acquire, Create, Mark, Deliver
<1>4. CASE Check(r)
  BY <1>1, <1>4 DEF Check, Expire
<1>5. CASE Push(r)
  <2>1. PICK n \in Nat : queue' = [queue EXCEPT ![r] = @ + n]
    BY <1>5 DEF Push
  <2> QED
    BY <1>1, <1>5, <2>1 DEF Push
<1>6. CASE Raise(r)
  BY <1>1, <1>6 DEF Raise
<1> QED
  BY <1>2, <1>3, <1>4, <1>5, <1>6 DEF Handle

\* What a step of r makes of its own task, where it stays or becomes one of
\* the tasks OneActive is about.
LEMMA PlainStep ==
    ASSUME TypeOK, PushedInForce, NEW r \in Request, Handle(r), Plain(r)', pc'[r] # "mark"
    PROVE  \/ /\ Mark(r) /\ pc[r] = "mark" /\ task'[r] = "queued"
           \/ /\ Deliver(r) /\ Plain(r) /\ pc[r] = "deliver"
              /\ task'[r] = task[r] /\ queue'[r] = queue[r]
<1> USE DEF TypeOK, countVars, taskVars
<1>1. CASE ClaimNothing(r) \/ ClaimInL1(r) \/ ClaimUnconfigured(r) \/ Claim(r) \/ Build(r)
           \/ Acquire(r) \/ Check(r) \/ Create(r)
  <2>1. pc[r] \in {"new", "build", "lock", "check", "create"}
    BY <1>1 DEF ClaimNothing, ClaimInL1, ClaimUnconfigured, Claim, Build, Acquire, Check, Create
  <2>2. pushes' = pushes
    BY <1>1 DEF ClaimNothing, ClaimInL1, ClaimUnconfigured, Claim, Build, Acquire, Check, Create
  <2> QED
    BY <2>1, <2>2 DEF PushedInForce, Plain
<1>2. CASE Push(r)
  BY <1>2 DEF Push, GoOn
<1>3. CASE Mark(r)
  BY <1>3 DEF Mark
<1>4. CASE Deliver(r)
  BY <1>4 DEF Deliver, Plain
<1>5. CASE Raise(r)
  BY <1>5 DEF Raise, Plain
<1> QED
  BY <1>1, <1>2, <1>3, <1>4, <1>5 DEF Handle

\* The row of a task becomes active or ended only after its entry has left
\* the pending list.
LEMMA QueuedStep ==
    ASSUME TypeOK, PushedInForce, Waiting, Queued, [Next]_vars
    PROVE  Queued'
<1> USE DEF TypeOK, countVars, taskVars
<1>1. ASSUME NEW r \in Request, Handle(r) PROVE Queued'
  <2> SUFFICES ASSUME NEW q \in Request, Plain(q)', pc'[q] # "mark", queue'[q] > 0
               PROVE  task'[q] = "queued"
    BY DEF Queued
  <2>1. CASE q = r
    BY <1>1, <2>1, PlainStep DEF Queued
  <2>2. CASE q # r
    <3>1. Plain(q) /\ pc[q] # "mark"
      BY <1>1, <2>2, TaskFrame DEF Plain
    <3>2. task'[q] = task[q] /\ queue'[q] = queue[q]
      BY <1>1, <2>2, TaskFrame
    <3> QED
      BY <3>1, <3>2 DEF Queued
  <2> QED
    BY <2>1, <2>2
<1>2. ASSUME NEW r \in Request, Drain(r) PROVE Queued'
  BY <1>2 DEF Drain, Queued, Plain, Waiting
<1>3. ASSUME NEW r \in Request, End(r) PROVE Queued'
  BY <1>3 DEF End, Queued, Plain
<1>4. CASE L1Expires \/ StoreExpires \/ Crash
  BY <1>4 DEF L1Expires, StoreExpires, Crash, Queued, Plain
<1>5. CASE UNCHANGED vars
  BY <1>5 DEF vars, Queued, Plain
<1> QED
  BY <1>1, <1>2, <1>3, <1>4, <1>5 DEF Next

\* The busy check lets nobody past while the device is given to another.
LEMMA OneSoleStep ==
    ASSUME TypeOK, PushedInForce, LockHeld, Waiting, Queued, OneSole, [Next]_vars
    PROVE  OneSole'
<1> USE DEF TypeOK, countVars, taskVars
<1>1. SUFFICES ASSUME NEW r \in Request, NEW q \in Request, Sole(r)', Sole(q)', q # r, ~Sole(r)
               PROVE  FALSE
  BY DEF OneSole
<1>2. PICK p \in Request : Handle(p) \/ Drain(p) \/ End(p) 
  <2>1. CASE L1Expires \/ StoreExpires \/ Crash
    BY <1>1, <2>1 DEF L1Expires, StoreExpires, Crash, Sole, Plain
  <2>2. CASE UNCHANGED vars
    BY <1>1, <2>2 DEF vars, Sole, Plain
  <2> QED
    BY <2>1, <2>2 DEF Next
<1>3. CASE Drain(p)
  <2>1. \A s \in Request : Sole(s)' => Sole(s)
    BY <1>3 DEF Drain, Sole, Plain, Queued, Waiting, Active
  <2> QED
    BY <1>1, <2>1
<1>4. CASE End(p)
  BY <1>1, <1>4 DEF End, Sole, Plain, Active
<1>5. CASE Handle(p)
  <2>1. p = r
    BY <1>1, <1>5, TaskFrame DEF Sole, Plain, Active
  <2>2. CASE pc'[r] \in {"create", "push", "mark"}
    <3>1. Check(r) /\ ~Busy(task') /\ pc[r] = "check"
      BY <1>1, <1>5, <2>1, <2>2 DEF Handle, ClaimNothing, ClaimInL1, ClaimUnconfigured, Claim,
         ClaimWithoutStore, Build, Acquire, Check, Create, Push, Mark, Raise, Deliver, GiveUp,
         GoOn, Answered, Sole
    <3>2. pc[q] \notin Inside
      BY <1>1, <3>1 DEF LockHeld, Inside
    <3>3. pc'[q] = pc[q]
      BY <1>1, <1>5, <2>1, TaskFrame
    <3> QED
      BY <1>1, <3>1, <3>2, <3>3 DEF Sole, Busy, Inside
  <2>3. CASE pc'[r] \notin {"create", "push", "mark"}
    BY <1>1, <1>5, <2>1, <2>3, PlainStep DEF Sole, Active
  <2> QED
    BY <2>2, <2>3
<1> QED
  BY <1>2, <1>3, <1>4, <1>5

\* Two tasks the device could hold at once would be two requests that are Sole.
LEMMA SoleIsOneActive ==
    ASSUME TypeOK, PushedInForce, OneSole
    PROVE  OneActive
<1> DEFINE P == {r \in Request : /\ task[r] \in Active /\ pushes[r] = 1
                                 /\ r \notin late /\ pc[r] # "dead"}
<1>1. \A r \in P : Sole(r)
  BY DEF PushedInForce, Sole, Plain
<1>2. \A q, r \in P : q = r
  BY <1>1 DEF OneSole
<1>3. Cardinality(P) =< 1
  <2>1. CASE P = {}
    BY <2>1, FS_EmptySet
  <2>2. CASE P # {}
    <3>1. PICK r \in P : TRUE
      BY <2>2
    <3>2. P = {r}
      BY <1>2, <3>1
    <3>3. Cardinality({r}) = 1
      BY FS_Singleton
    <3> QED
      BY <3>2, <3>3
  <2> QED
    BY <2>1, <2>2
<1> QED
  BY <1>3 DEF OneActive

\* The variables have their types, and the device is not given two tasks: the
\* busy check and the enqueue of dispatch_task cannot be torn apart.
THEOREM OneTaskAtATime == Spec => []Consistent
<1> DEFINE Inv == TypeOK /\ PushedInForce /\ LockHeld /\ Given
<1>1. Init => Inv
  <2> SUFFICES ASSUME Init PROVE Inv
    OBVIOUS
  <2>1. TypeOK
    BY InitTyped
  <2>2. PushedInForce
    BY DEF Init, PushedInForce, InForce
  <2>3. LockHeld
    BY DEF Init, LockHeld, Inside
  <2>4. Given
    BY DEF Init, Given, Waiting, Queued, OneSole, Sole, Plain, Active
  <2> QED
    BY <2>1, <2>2, <2>3, <2>4
<1>2. TypeOK => Shape
  BY DEF TypeOK, Shape
<1>3. Inv /\ [Next]_vars => Inv'
  BY <1>2, TypeStep, PushedInForceStep, LockHeldStep, WaitingStep, QueuedStep, OneSoleStep DEF Given
<1>4. Inv => Consistent
  BY SoleIsOneActive DEF Consistent, Given
<1> QED
  BY <1>1, <1>3, <1>4, PTL DEF Spec
-----------------------------------------------------------------------------
\* A claim is held by a request for which it must stand, until Redis loses a
\* reply or a release.
HeldInForce ==
    ~leftover => /\ store # None => InForce(store)
                 /\ l1 # None => InForce(l1)

\* Only a claim with a Redis client puts the key into Redis.
LEMMA StoreUsedStep ==
    ASSUME StoreUsed, [Next]_vars
    PROVE  StoreUsed'
<1> USE DEF StoreUsed, keyVars
<1>1. ASSUME NEW r \in Request, Release(r), UNCHANGED config PROVE StoreUsed'
  BY <1>1 DEF Release
<1>2. ASSUME NEW r \in Request, Handle(r) PROVE StoreUsed'
  <2>1. CASE ClaimNothing(r) \/ ClaimInL1(r) \/ ClaimUnconfigured(r) \/ Claim(r)
    BY <2>1 DEF ClaimNothing, ClaimInL1, ClaimUnconfigured, Claim
  <2>2. CASE Build(r) \/ Check(r) \/ Create(r) \/ Raise(r)
    BY <1>1, <2>2 DEF Build, Check, Create, Raise, GiveUp
  <2>3. CASE Acquire(r) \/ Push(r) \/ Mark(r) \/ Deliver(r)
    BY <2>3 DEF Acquire, Push, Mark, Deliver
  <2> QED
    BY <1>2, <2>1, <2>2, <2>3 DEF Handle
<1>3. CASE (\E r \in Request : Drain(r) \/ End(r)) \/ L1Expires \/ StoreExpires \/ Crash
  BY <1>3 DEF Drain, End, L1Expires, StoreExpires, Crash
<1>4. CASE UNCHANGED vars
  BY <1>4 DEF vars
<1> QED
  BY <1>2, <1>3, <1>4 DEF Next

\* A release that is not lost takes the claim of its request with it.
LEMMA ReleaseFrees ==
    ASSUME TypeOK, StoreUsed, HeldInForce, NEW r \in Request, Release(r), ~leftover'
    PROVE  /\ ~leftover
           /\ store' # None => store' = store /\ store # r
           /\ l1' # None => l1' = l1 /\ l1 # r
<1> USE DlcDispatchAssumption DEF TypeOK, keyVars
<1>1. CASE r \notin keyed
  BY <1>1 DEF Release
<1>2. CASE r \in keyed
  <2>1. SameValue(r, r)
    BY DEF SameValue
  <2>2. CASE config.redis
    <3>1. PICK o \in Outcomes :
             /\ store' = IF o.ran /\ store # None /\ SameValue(store, r) THEN None ELSE store
             /\ leftover' = (leftover \/ ~o.ran)
      BY <1>2, <2>2 DEF Release
    <3> QED
      BY <1>2, <2>1, <3>1 DEF Release
  <2>3. CASE ~config.redis
    BY <1>2, <2>1, <2>3 DEF Release, StoreUsed
  <2> QED
    BY <2>2, <2>3
<1> QED
  BY <1>1, <1>2

\* Claims are kept by those whose claim must stand.
LEMMA HeldInForceStep ==
    ASSUME TypeOK, StoreUsed, HeldInForce, [Next]_vars
    PROVE  HeldInForce'
<1> USE DlcDispatchAssumption DEF TypeOK, keyVars, countVars, taskVars
<1>1. ASSUME NEW r \in Request, Handle(r) PROVE HeldInForce'
  <2> SUFFICES ASSUME ~leftover'
               PROVE  (store' # None => InForce(store)') /\ (l1' # None => InForce(l1)')
    BY DEF HeldInForce
  <2>1. \A q \in Request \ {r} : InForce(q) => InForce(q)'
    BY <1>1, HandleFrame DEF InForce, Shape
  <2>2. ASSUME ~leftover, store' = store, l1' = l1, InForce(r) => InForce(r)'
        PROVE  (store' # None => InForce(store)') /\ (l1' # None => InForce(l1)')
    BY <2>1, <2>2 DEF HeldInForce
  <2>3. ASSUME Release(r)
        PROVE  (store' # None => InForce(store)') /\ (l1' # None => InForce(l1)')
    <3>1. /\ ~leftover
          /\ store' # None => store' = store /\ store # r
          /\ l1' # None => l1' = l1 /\ l1 # r
      BY <2>3, ReleaseFrees
    <3> QED
      BY <2>1, <3>1 DEF HeldInForce
  <2>4. CASE ClaimNothing(r) \/ ClaimInL1(r)
    BY <2>2, <2>4 DEF ClaimNothing, ClaimInL1, InForce, Working
  <2>5. CASE ClaimUnconfigured(r) \/ Claim(r)
    <3>1. pc[r] = "new" /\ l1 = None /\ ~InForce(r) /\ ~leftover
      BY <2>5 DEF ClaimUnconfigured, Claim, InForce, Working
    <3>2. store # None => store' = store /\ store # r
      BY <2>5, <3>1 DEF ClaimUnconfigured, Claim, HeldInForce
    <3>3. l1' = None \/ (l1' = r /\ pc'[r] = "build")
      BY <2>5 DEF ClaimUnconfigured, Claim, ClaimWithoutStore, GoOn
    <3>4. store = None /\ store' # None => store' = r /\ pc'[r] = "build"
      BY <2>5 DEF ClaimUnconfigured, Claim, ClaimWithoutStore, GoOn
    <3> QED
      BY <2>1, <3>1, <3>2, <3>3, <3>4 DEF HeldInForce, InForce, Working
  <2>6. CASE Acquire(r) \/ Push(r) \/ Mark(r)
    <3>1. InForce(r)' /\ UNCHANGED <<keyVars, leftover>>
      BY <2>6 DEF Acquire, Push, Mark, GoOn, InForce, Working
    <3> QED
      BY <2>2, <3>1
  <2>7. CASE Deliver(r)
    <3>1. InForce(r)' /\ UNCHANGED <<keyVars, leftover>>
      BY <2>7 DEF Deliver, Answered, InForce
    <3> QED
      BY <2>2, <3>1
  <2>8. CASE Build(r) \/ Check(r) \/ Create(r) \/ Raise(r)
    <3>1. Release(r) \/ (InForce(r)' /\ UNCHANGED <<keyVars, leftover>>)
      BY <2>8 DEF Build, Check, Create, Raise, GiveUp, GoOn, InForce, Working
    <3> QED
      BY <2>2, <2>3, <3>1
  <2> QED
    BY <1>1, <2>4, <2>5, <2>6, <2>7, <2>8 DEF Handle
<1>2. CASE (\E r \in Request : Drain(r) \/ End(r)) \/ L1Expires \/ StoreExpires
  BY <1>2 DEF Drain, End, L1Expires, StoreExpires, HeldInForce, InForce
<1>3. CASE Crash
  <2>1. \A q \in Request : InForce(q) => InForce(q)'
    BY <1>3 DEF Crash, InForce, Working
  <2> QED
    BY <1>3, <2>1 DEF Crash, HeldInForce
<1>4. CASE UNCHANGED vars
  BY <1>4 DEF vars, HeldInForce, InForce
<1> QED
  BY <1>1, <1>2, <1>3, <1>4 DEF Next

\* Requests that fail leave the key free for a retry: when every request with
\* the key has ended and none was accepted, no claim of theirs is left.
THEOREM RetryStaysPossible == Spec => []FailureStaysRetryable
<1> DEFINE Inv == TypeOK /\ StoreUsed /\ HeldInForce
<1>1. Init => Inv
  BY InitTyped DEF Init, StoreUsed, HeldInForce
<1>2. Inv /\ [Next]_vars => Inv'
  BY TypeStep, StoreUsedStep, HeldInForceStep
<1>3. Inv => FailureStaysRetryable
  BY DlcDispatchAssumption DEF TypeOK, HeldInForce, InForce, Working, FailureStaysRetryable
<1> QED
  BY <1>1, <1>2, <1>3, PTL DEF Spec
=============================================================================
