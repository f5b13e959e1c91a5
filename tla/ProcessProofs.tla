--------------------------- MODULE ProcessProofs ---------------------------
(***************************************************************************)
(* Safety of ServerProcess for any number of requests, analyses and        *)
(* streams, any maximum of streams and any threshold of the lockout.       *)
(***************************************************************************)
EXTENDS ServerProcess, FiniteSetTheorems, TLAPS

USE LadderAssumption, StreamAssumption, RequestsAssumption

---------------------------------------------------------------------------
(* Types *)

\* The lockout variables keep their types, whatever register_failure does.
LEMMA LockTypes ==
    ASSUME TypeOK, RegisterFailure \/ RegisterSuccess \/ LockPasses
    PROVE  /\ failures' \in 0 .. Threshold - 1
           /\ lockouts' \in Nat
           /\ lock' \in {"none", "running", "over"}
  BY DEF TypeOK, RegisterFailure, RegisterSuccess, LockPasses

\* The requests keep their labels; the rest of their step is seen below.
LEMMA GotoType ==
    ASSUME TypeOK, NEW r \in Requests, NEW label \in Labels, Goto(r, label)
    PROVE  pc' \in [Requests -> Labels]
  BY DEF TypeOK, Goto

LEMMA TypeInit == ASSUME Init PROVE TypeOK
<1>1. /\ failures \in 0 .. Threshold - 1
      /\ lockouts \in Nat
      /\ lock \in {"none", "running", "over"}
      /\ connections \in 0 .. MaxStreams
      /\ pc \in [Requests -> Labels]
      /\ early \subseteq Requests
  BY DEF Init, LockoutInit, StreamsInit, Labels
<1>2. /\ status \in [Analyses -> {"absent", "pending"} \cup Final]
      /\ deleted \in [Analyses -> BOOLEAN]
  BY DEF Init, StreamsInit, Lifecycle!Init
<1>3. stream \in [Streams -> [at : {"closed", "opened", "polling"},
                             on : Analyses \cup {None},
                             last : {"absent", "pending"} \cup Final]]
  BY DEF Init, StreamsInit, Closed
<1>4. /\ accepting \in BOOLEAN /\ inFlight \in Nat /\ drained \in BOOLEAN
      /\ life \in {"up", "draining", "drained", "closed"}
      /\ timedOut \in BOOLEAN
  BY DEF Init
<1> QED
  BY <1>1, <1>2, <1>3, <1>4 DEF TypeOK

\* The coordinator keeps its types, whichever path a request takes.
LEMMA CoordinatorTypes ==
    ASSUME TypeOK, TryStart \/ FinishRequest \/ UNCHANGED coordinatorVars
    PROVE  inFlight' \in Nat /\ drained' \in BOOLEAN /\ accepting' \in BOOLEAN
<1>1. inFlight' \in Nat
  BY SMT DEF TypeOK, TryStart, FinishRequest, coordinatorVars
<1>2. drained' \in BOOLEAN
  BY Zenon DEF TypeOK, TryStart, FinishRequest, coordinatorVars
<1>3. accepting' \in BOOLEAN
  BY Zenon DEF TypeOK, TryStart, FinishRequest, coordinatorVars
<1> QED
  BY <1>1, <1>2, <1>3

LEMMA ServeType ==
    ASSUME TypeOK, NEW r \in Requests, Serve(r)
    PROVE  TypeOK'
<1>1. CASE Arrive(r)
  <2>1. pc' \in [Requests -> Labels]
    BY <1>1, GotoType DEF Arrive, Labels, SignIns, Answers
  <2>2. inFlight' \in Nat /\ drained' \in BOOLEAN /\ accepting' \in BOOLEAN
    BY <1>1, CoordinatorTypes DEF Arrive
  <2> QED
    BY <1>1, <2>1, <2>2 DEF Arrive, TypeOK, lockVars, storeVars, streamVars, lifeVars
<1>2. CASE Finish(r)
  <2>1. pc' \in [Requests -> Labels]
    BY <1>2, GotoType DEF Finish, Labels
  <2>2. inFlight' \in Nat /\ drained' \in BOOLEAN /\ accepting' \in BOOLEAN
    BY <1>2, CoordinatorTypes DEF Finish
  <2> QED
    BY <1>2, <2>1, <2>2 DEF Finish, TypeOK, lockVars, storeVars, streamVars, lifeVars
<1>3. CASE Check(r)
  <2>1. pc' \in [Requests -> Labels]
    BY <1>3, GotoType DEF Check, EnsureNotLocked, AfterCheck, SignIns, Labels, Answers
  <2> QED
    BY <1>3, <2>1 DEF Check, EnsureNotLocked, OnlyLockout, TypeOK, storeVars,
       streamVars, coordinatorVars, lifeVars
<1>4. CASE CheckLocked(r) \/ Passes(r) \/ Raise(r)
  <2>1. pc' \in [Requests -> Labels]
    BY <1>4, GotoType DEF CheckLocked, Passes, Raise, Labels, Answers
  <2> QED
    BY <1>4, <2>1 DEF CheckLocked, Passes, Raise, OnlyLockout, TypeOK, lockVars,
       storeVars, streamVars, coordinatorVars, lifeVars
<1>5. CASE Fails(r)
  <2>1. pc' \in [Requests -> Labels]
    BY <1>5, GotoType DEF Fails, Labels, Answers
  <2>2. early' \subseteq Requests
    BY <1>5 DEF Fails, Attempting, TypeOK
  <2>3. /\ failures' \in 0 .. Threshold - 1
        /\ lockouts' \in Nat
        /\ lock' \in {"none", "running", "over"}
    BY <1>5, LockTypes DEF Fails, TypeOK, lockVars
  <2> QED
    BY <1>5, <2>1, <2>2, <2>3 DEF Fails, OnlyLockout, TypeOK, storeVars, streamVars,
       coordinatorVars, lifeVars
<1>6. CASE Succeeds(r)
  <2>1. pc' \in [Requests -> Labels]
    BY <1>6, GotoType DEF Succeeds, Labels, Answers
  <2> QED
    BY <1>6, <2>1, LockTypes DEF Succeeds, OnlyLockout, TypeOK, storeVars, streamVars,
       coordinatorVars, lifeVars
<1>7. CASE OpenStream(r)
  <2>1. pc' \in [Requests -> Labels]
    BY <1>7, GotoType DEF OpenStream, Labels, Answers
  <2>2. /\ connections' \in 0 .. MaxStreams
        /\ stream' \in [Streams -> [at : {"closed", "opened", "polling"},
                                    on : Analyses \cup {None},
                                    last : {"absent", "pending"} \cup Final]]
    <3>1. PICK a \in Analyses : NotFound(a) \/ TooMany(a) \/ Accept(a)
      BY <1>7 DEF OpenStream
    <3>2. CASE UNCHANGED streamVars
      BY <3>2 DEF streamVars, TypeOK
    <3>3. CASE Accept(a)
      <4>1. Body \in Streams
        BY <3>3 DEF Accept, Open, Body
      <4>2. [at |-> "opened", on |-> a, last |-> "absent"]
              \in [at : {"closed", "opened", "polling"}, on : Analyses \cup {None},
                   last : {"absent", "pending"} \cup Final]
        OBVIOUS
      <4>3. connections' \in 0 .. MaxStreams
        BY <3>3 DEF Accept, Admits, TypeOK
      <4> QED
        BY <3>3, <4>1, <4>2, <4>3 DEF Accept, TypeOK
    <3> QED
      BY <3>1, <3>2, <3>3 DEF NotFound, TooMany
  <2> QED
    BY <1>7, <2>1, <2>2 DEF OpenStream, TypeOK, lockVars, storeVars, coordinatorVars,
       lifeVars
<1> QED
  BY <1>1, <1>2, <1>3, <1>4, <1>5, <1>6, <1>7 DEF Serve
LEMMA AdvanceType ==
    ASSUME TypeOK, OpenHasAnalysis, NEW s \in Streams, Snapshot(s) \/ Poll(s) \/ Cut(s)
    PROVE  /\ connections' \in 0 .. MaxStreams
           /\ stream' \in [Streams -> [at : {"closed", "opened", "polling"},
                                       on : Analyses \cup {None},
                                       last : {"absent", "pending"} \cup Final]]
<1>1. connections' \in 0 .. MaxStreams
  BY DEF Snapshot, Poll, Cut, TypeOK
<1>2. CASE Cut(s)
  BY <1>1, <1>2 DEF Cut, Closed, TypeOK
<1>3. CASE Snapshot(s)
  <2>1. stream[s].on \in Analyses
    BY <1>3 DEF Snapshot, OpenHasAnalysis
  <2> QED
    BY <1>1, <1>3, <2>1 DEF Snapshot, TypeOK
<1>4. CASE Poll(s)
  <2>1. stream[s].on \in Analyses
    BY <1>4 DEF Poll, OpenHasAnalysis
  <2> QED
    BY <1>1, <1>4, <2>1 DEF Poll, Closed, TypeOK
<1> QED
  BY <1>2, <1>3, <1>4

LEMMA StoreType ==
    ASSUME TypeOK, Lifecycle!Next
    PROVE  /\ status' \in [Analyses -> {"absent", "pending"} \cup Final]
           /\ deleted' \in [Analyses -> BOOLEAN]
  BY DEF TypeOK, Final, Lifecycle!Next, Lifecycle!Create, Lifecycle!Complete,
     Lifecycle!Fail, Lifecycle!Cancel, Lifecycle!Retry, Lifecycle!Delete,
     Lifecycle!Move

\* The lifespan moves on, and closes the intake.
LEMMA LifeType ==
    ASSUME TypeOK, BeginShutdown \/ WaitForDrain \/ CloseDatabase
    PROVE  /\ accepting' \in BOOLEAN /\ inFlight' \in Nat /\ drained' \in BOOLEAN
           /\ life' \in {"up", "draining", "drained", "closed"}
           /\ timedOut' \in BOOLEAN
<1>1. inFlight' \in Nat /\ life' \in {"up", "draining", "drained", "closed"}
  BY SMT DEF TypeOK, BeginShutdown, WaitForDrain, CloseDatabase, coordinatorVars
<1>2. accepting' \in BOOLEAN /\ drained' \in BOOLEAN /\ timedOut' \in BOOLEAN
  BY Zenon DEF TypeOK, BeginShutdown, WaitForDrain, CloseDatabase, coordinatorVars
<1> QED
  BY <1>1, <1>2

LEMMA TypeStep == ASSUME TypeOK, OpenHasAnalysis, [Next]_vars PROVE TypeOK'
<1>1. ASSUME NEW r \in Requests, Serve(r) PROVE TypeOK'
  BY <1>1, ServeType
<1>2. ASSUME NEW s \in Streams, Advance(s) PROVE TypeOK'
  BY <1>2, AdvanceType DEF Advance, TypeOK, lockVars, storeVars, coordinatorVars, lifeVars
<1>3. ASSUME NEW s \in Streams, Cut(s), UNCHANGED <<lockVars, storeVars>>, Elsewhere
      PROVE  TypeOK'
  BY <1>3, AdvanceType DEF Elsewhere, TypeOK, lockVars, storeVars, coordinatorVars, lifeVars
<1>4. CASE Lifecycle!Next /\ UNCHANGED <<lockVars, streamVars>> /\ Elsewhere
  BY <1>4, StoreType DEF Elsewhere, TypeOK, lockVars, streamVars, coordinatorVars, lifeVars
<1>5. CASE LockPasses /\ early' = {} /\ UNCHANGED pc /\ OnlyLockout
  BY <1>5, LockTypes DEF OnlyLockout, TypeOK, storeVars, streamVars, coordinatorVars, lifeVars
<1>6. CASE (BeginShutdown /\ OnlyLifespan) \/ GoDown
  BY <1>6, LifeType DEF GoDown, OnlyLifespan, TypeOK, lockVars, storeVars, streamVars
<1>7. CASE UNCHANGED vars
  BY <1>7 DEF TypeOK, vars, lockVars, storeVars, streamVars, coordinatorVars, lifeVars
<1> QED
  BY <1>1, <1>2, <1>3, <1>4, <1>5, <1>6, <1>7 DEF Next

---------------------------------------------------------------------------
(* The coordinator *)

InService == {q \in Requests : pc[q] # "idle"}

\* A step of the server takes its request from one label in service to
\* another, or in or out of service; the coordinator counts the latter.
Within(r) ==
    /\ pc[r] # "idle"
    /\ \E label \in Labels \ {"idle"} : Goto(r, label)
    /\ UNCHANGED coordinatorVars

LEMMA WithinService ==
    ASSUME NEW r \in Requests,
           \/ Check(r) \/ CheckLocked(r) \/ Fails(r) \/ Passes(r) \/ Succeeds(r)
           \/ OpenStream(r) \/ Raise(r)
    PROVE  Within(r) /\ UNCHANGED lifeVars
<1>1. CASE Check(r)
  BY <1>1 DEF Check, EnsureNotLocked, AfterCheck, SignIns, OnlyLockout, Within, Labels, Answers
<1>2. CASE CheckLocked(r)
  BY <1>2 DEF CheckLocked, SignIns, OnlyLockout, Within, Labels, Answers
<1>3. CASE Fails(r) \/ Passes(r) \/ Succeeds(r) \/ Raise(r)
  BY <1>3 DEF Fails, Passes, Succeeds, Raise, OnlyLockout, Within, Labels, Answers
<1>4. CASE OpenStream(r)
  BY <1>4 DEF OpenStream, Within, Labels, Answers
<1> QED
  BY <1>1, <1>2, <1>3, <1>4

\* What the lifespan and the environment leave alone.
LEMMA OtherSteps ==
    ASSUME [Next]_vars, \A r \in Requests : ~Serve(r)
    PROVE  /\ UNCHANGED pc
           /\ \/ UNCHANGED coordinatorVars /\ UNCHANGED lifeVars
              \/ BeginShutdown \/ WaitForDrain \/ CloseDatabase
  BY DEF Next, Advance, Elsewhere, OnlyLockout, OnlyLifespan, GoDown, vars

LEMMA CountsStep ==
    ASSUME IInv, [Next]_vars
    PROVE  CountsRequests'
<1> USE DEF IInv
<1>1. IsFiniteSet(InService) /\ inFlight = Cardinality(InService) /\ inFlight \in Nat
  BY FS_Subset DEF InService, CountsRequests, TypeOK
<1>2. SUFFICES inFlight' = Cardinality(InService')
  BY DEF CountsRequests, InService
<1>3. ASSUME NEW r \in Requests, Arrive(r) PROVE inFlight' = Cardinality(InService')
  <2>1. InService' = InService \cup {r} /\ r \notin InService
    BY <1>3 DEF Arrive, Goto, TypeOK, SignIns, InService
  <2> QED
    BY <1>1, <1>3, <2>1, FS_AddElement DEF Arrive, TryStart
<1>4. ASSUME NEW r \in Requests, Finish(r) PROVE inFlight' = Cardinality(InService')
  <2>1. InService' = InService \ {r} /\ r \in InService
    BY <1>4 DEF Finish, Goto, TypeOK, Answers, InService
  <2>2. Cardinality(InService') = Cardinality(InService) - 1
    BY <1>1, <2>1, FS_RemoveElement
  <2>3. Cardinality(InService) # 0
    BY <1>1, <2>1, FS_EmptySet
  <2>4. inFlight' = inFlight - 1
    BY <1>1, <1>4, <2>3 DEF Finish, FinishedBy, FinishRequest
  <2> QED
    BY <1>1, <2>2, <2>4
<1>5. ASSUME NEW r \in Requests, Within(r) PROVE inFlight' = Cardinality(InService')
  <2>1. InService' = InService
    BY <1>5 DEF Within, Goto, TypeOK, InService
  <2> QED
    BY <1>1, <1>5, <2>1 DEF Within, coordinatorVars
<1>6. CASE \A r \in Requests : ~Serve(r)
  <2>1. InService' = InService
    BY <1>6, OtherSteps DEF InService
  <2>2. inFlight' = inFlight
    BY <1>6, OtherSteps DEF BeginShutdown, WaitForDrain, CloseDatabase, coordinatorVars
  <2> QED
    BY <1>1, <2>1, <2>2
<1> QED
  BY <1>3, <1>4, <1>5, <1>6, WithinService DEF Serve

LEMMA ClosedIntakeStep ==
    ASSUME IInv, [Next]_vars
    PROVE  ClosedIntake'
<1>1. ASSUME NEW r \in Requests, Serve(r) PROVE UNCHANGED <<accepting, life>>
  BY <1>1, WithinService DEF Serve, Arrive, TryStart, Finish, FinishRequest, Within,
     coordinatorVars, lifeVars
<1>2. CASE UNCHANGED <<accepting, life>>
  BY <1>2 DEF IInv, ClosedIntake
<1>3. CASE BeginShutdown
  BY <1>3 DEF BeginShutdown, ClosedIntake
<1>4. CASE WaitForDrain \/ CloseDatabase
  BY <1>4 DEF WaitForDrain, CloseDatabase, coordinatorVars, IInv, ClosedIntake
<1> QED
  BY <1>1, <1>2, <1>3, <1>4, OtherSteps DEF coordinatorVars, lifeVars

LEMMA DrainStep ==
    ASSUME IInv, [Next]_vars
    PROVE  DrainedIsIdle' /\ DrainIsTrue'
<1> USE DEF IInv, TypeOK, DrainedIsIdle, DrainIsTrue
<1>1. ASSUME NEW r \in Requests, Arrive(r) PROVE DrainedIsIdle' /\ DrainIsTrue'
  <2>1. accepting' /\ ~drained'
    BY <1>1, Zenon DEF Arrive, TryStart
  <2> QED
    BY <2>1
<1>2. ASSUME NEW r \in Requests, Finish(r) PROVE DrainedIsIdle' /\ DrainIsTrue'
  <2>1. FinishRequest
    BY <1>2 DEF Finish, FinishedBy
  <2>2. inFlight = 0 => inFlight' = 0
    BY <2>1 DEF FinishRequest
  <2>3. /\ accepting' <=> accepting
        /\ drained' <=> drained \/ (~accepting /\ inFlight' = 0)
    BY <2>1, Zenon DEF FinishRequest
  <2> QED
    BY <2>2, <2>3, Zenon
<1>3. CASE UNCHANGED coordinatorVars
  BY <1>3 DEF coordinatorVars
<1>4. CASE BeginShutdown
  <2>1. drained' <=> drained \/ inFlight = 0
    BY <1>4, Zenon DEF BeginShutdown
  <2>2. inFlight' = inFlight
    BY <1>4 DEF BeginShutdown
  <2> QED
    BY <2>1, <2>2, Zenon
<1>5. CASE WaitForDrain \/ CloseDatabase
  BY <1>3, <1>5 DEF WaitForDrain, CloseDatabase
<1> QED
  BY <1>1, <1>2, <1>3, <1>4, <1>5, WithinService, OtherSteps DEF Serve, Within

\* When the count is down to 0 everyone is idle.
LEMMA NobodyLeft ==
    ASSUME CountsRequests, inFlight = 0
    PROVE  \A r \in Requests : pc[r] = "idle"
<1>1. IsFiniteSet(InService) /\ Cardinality(InService) = 0
  BY FS_Subset DEF InService, CountsRequests
<1> QED
  BY <1>1, FS_EmptySet DEF InService

LEMMA UncutStep ==
    ASSUME IInv, [Next]_vars
    PROVE  NoRequestCut'
<1> USE DEF IInv
<1>1. ASSUME NEW r \in Requests, Serve(r) PROVE NoRequestCut'
  <2>1. UNCHANGED lifeVars
    BY <1>1, WithinService DEF Serve, Arrive, Finish
  <2>2. pc[r] = "idle" => life = "up"
    BY <1>1, WithinService DEF Serve, Arrive, TryStart, Finish, Answers, Within,
       ClosedIntake
  <2> QED
    BY <2>1, <2>2 DEF NoRequestCut, lifeVars
<1>2. CASE UNCHANGED lifeVars /\ UNCHANGED pc
  BY <1>2 DEF NoRequestCut, lifeVars
<1>3. CASE BeginShutdown
  BY <1>3 DEF BeginShutdown, NoRequestCut
<1>4. CASE WaitForDrain /\ UNCHANGED pc
  <2>1. CASE drained
    <3>1. inFlight = 0
      BY <1>4, <2>1 DEF WaitForDrain, ClosedIntake, DrainIsTrue
    <3> QED
      BY <1>4, <3>1, NobodyLeft DEF NoRequestCut
  <2>2. CASE timedOut'
    BY <2>2 DEF NoRequestCut
  <2> QED
    BY <1>4, <2>1, <2>2 DEF WaitForDrain
<1>5. CASE CloseDatabase /\ UNCHANGED pc
  BY <1>5 DEF CloseDatabase, NoRequestCut
<1> QED
  BY <1>1, <1>2, <1>3, <1>4, <1>5, OtherSteps

---------------------------------------------------------------------------
(* The lockout *)

\* The steps that neither count a failure nor let an attempt in.
LEMMA LockQuiet ==
    ASSUME [Next]_vars,
           \A r \in Requests : ~(Check(r) \/ Fails(r) \/ Succeeds(r) \/ Passes(r)),
           ~(LockPasses /\ UNCHANGED pc)
    PROVE  /\ UNCHANGED lockVars /\ UNCHANGED early
           /\ \/ UNCHANGED pc
              \/ \E r \in Requests :
                    \E label \in Labels \ {"verify", "insert", "issue", "denied"} : Goto(r, label)
<1>1. ASSUME NEW r \in Requests,
             Arrive(r) \/ Finish(r) \/ CheckLocked(r) \/ OpenStream(r) \/ Raise(r)
      PROVE  /\ UNCHANGED lockVars /\ UNCHANGED early
             /\ \E label \in Labels \ {"verify", "insert", "issue", "denied"} : Goto(r, label)
  BY <1>1 DEF Arrive, Finish, CheckLocked, OpenStream, Raise, SignIns, Labels, Answers
<1>2. CASE \A r \in Requests : ~Serve(r)
  BY <1>2 DEF Next, Advance, Elsewhere, OnlyLifespan, GoDown, vars
<1> QED
  BY <1>1, <1>2 DEF Serve

LEMMA EarlyStep ==
    ASSUME IInv, [Next]_vars
    PROVE  EarlyAttempts'
<1> USE DEF IInv, EarlyAttempts, Attempting, TypeOK, Goto
<1>1. ASSUME NEW r \in Requests, Check(r) PROVE EarlyAttempts'
  BY <1>1 DEF Check, EnsureNotLocked
<1>2. ASSUME NEW r \in Requests, Fails(r) PROVE EarlyAttempts'
  <2>1. CASE RegisterFailure /\ Goto(r, "denied") /\ early' = IF lock' = "running"
                                                             THEN Attempting \ {r} ELSE early
    BY <2>1
  <2>2. CASE Goto(r, "answered") /\ UNCHANGED <<lockVars, early>>
    BY <2>2 DEF lockVars
  <2> QED
    BY <1>2, <2>1, <2>2 DEF Fails
<1>3. ASSUME NEW r \in Requests, Succeeds(r) PROVE EarlyAttempts'
  BY <1>3 DEF Succeeds, RegisterSuccess
<1>4. ASSUME NEW r \in Requests, Passes(r) PROVE EarlyAttempts'
  BY <1>4 DEF Passes, lockVars
<1>5. CASE LockPasses
  BY <1>5 DEF LockPasses
<1>6. CASE /\ UNCHANGED lockVars /\ UNCHANGED early
           /\ \/ UNCHANGED pc
              \/ \E r \in Requests :
                    \E label \in Labels \ {"verify", "insert", "issue", "denied"} : Goto(r, label)
  BY <1>6 DEF lockVars
<1> QED
  BY <1>1, <1>2, <1>3, <1>4, <1>5, <1>6, LockQuiet

---------------------------------------------------------------------------
(* The streams *)

LEMMA StreamStep ==
    ASSUME IInv, [Next]_vars
    PROVE  OpenHasAnalysis'
<1> USE DEF IInv, TypeOK, OpenHasAnalysis
<1>1. CASE UNCHANGED streamVars
  BY <1>1 DEF streamVars
<1>2. ASSUME NEW a \in Analyses, Accept(a) PROVE OpenHasAnalysis'
  BY <1>2 DEF Accept
<1>3. ASSUME NEW s \in Streams, Snapshot(s) \/ Poll(s) \/ Cut(s) PROVE OpenHasAnalysis'
  BY <1>3 DEF Snapshot, Poll, Cut, Closed
<1>4. ASSUME NEW r \in Requests, Serve(r)
      PROVE  UNCHANGED streamVars \/ \E a \in Analyses : Accept(a)
  BY <1>4 DEF Serve, Arrive, Finish, Check, CheckLocked, Fails, Passes, Succeeds,
     OpenStream, NotFound, TooMany, Raise, OnlyLockout
<1> QED
  BY <1>1, <1>2, <1>3, <1>4 DEF Next, Advance, OnlyLockout, OnlyLifespan, GoDown, vars

---------------------------------------------------------------------------
(* Results *)

\* The inductive invariant of ServerProcess.
THEOREM ProcessInvariance == Spec => []IInv
<1>1. Init => IInv
  <2>1. ASSUME Init PROVE CountsRequests
    <3>1. {q \in Requests : pc[q] # "idle"} = {}
      BY <2>1 DEF Init
    <3> QED
      BY <2>1, <3>1, FS_EmptySet DEF Init, CountsRequests
  <2>2. ASSUME Init PROVE ClosedIntake /\ DrainedIsIdle /\ DrainIsTrue /\ NoRequestCut
    BY <2>2 DEF Init, ClosedIntake, DrainedIsIdle, DrainIsTrue, NoRequestCut
  <2>3. ASSUME Init PROVE EarlyAttempts /\ OpenHasAnalysis
    BY <2>3 DEF Init, LockoutInit, StreamsInit, Closed, EarlyAttempts, OpenHasAnalysis
  <2> QED
    BY <2>1, <2>2, <2>3, TypeInit DEF IInv
<1>2. IInv /\ [Next]_vars => IInv'
  BY TypeStep, CountsStep, ClosedIntakeStep, DrainStep, UncutStep, EarlyStep, StreamStep
     DEF IInv
<1> QED
  BY <1>1, <1>2, PTL DEF Spec

\* Every variable keeps its type, and no user holds more streams than the
\* maximum, for any sizes.
THEOREM ProcessTypeCorrect == Spec => []TypeOK
<1>1. IInv => TypeOK
  BY DEF IInv
<1> QED
  BY <1>1, ProcessInvariance, PTL

\* The shutdown waits for exactly the requests that are in flight.
THEOREM DrainIsTrueCorrect == Spec => []DrainIsTrue
<1>1. IInv => DrainIsTrue
  BY DEF IInv
<1> QED
  BY <1>1, ProcessInvariance, PTL

\* However many requests come and go, none is counted twice or not at all.
THEOREM CountsRequestsCorrect == Spec => []CountsRequests
<1>1. IInv => CountsRequests
  BY DEF IInv
<1> QED
  BY <1>1, ProcessInvariance, PTL

\* Unless its time is up, a shutdown closes the database after the last
\* request.
THEOREM NoRequestCutCorrect == Spec => []NoRequestCut
<1>1. IInv => NoRequestCut
  BY DEF IInv
<1> QED
  BY <1>1, ProcessInvariance, PTL

\* A lock that is running is cleared only by the success of an attempt that
\* was let in before it.
THEOREM LockHoldsCorrect == Spec => LockHolds
<1> DEFINE A == lock = "running" /\ lock' = "none" =>
                   \E r \in early : pc[r] = "issue" /\ pc'[r] = "answered"
<1>1. ASSUME IInv, [Next]_vars PROVE [A]_vars
  <2> SUFFICES ASSUME lock = "running", lock' = "none"
               PROVE  \E r \in early : pc[r] = "issue" /\ pc'[r] = "answered"
    OBVIOUS
  <2>1. PICK r \in Requests : Succeeds(r)
    <3>1. ASSUME NEW r \in Requests, Check(r) \/ Fails(r) \/ Passes(r) PROVE FALSE
      BY <3>1 DEF Check, EnsureNotLocked, Fails, CountsFailure, RegisterFailure, Passes, lockVars
    <3>2. ~LockPasses
      BY DEF LockPasses
    <3>3. lockVars' # lockVars
      BY DEF lockVars
    <3> QED
      BY <1>1, <3>1, <3>2, <3>3, LockQuiet
  <2>2. r \in early
    BY <1>1, <2>1 DEF Succeeds, IInv, EarlyAttempts, Attempting
  <2> QED
    BY <1>1, <2>1, <2>2 DEF Succeeds, Goto, IInv, TypeOK
<1> QED
  BY <1>1, ProcessInvariance, PTL DEF Spec, LockHolds

\* While a lock is running no failure is counted, and no attempt is told
\* that it failed.
THEOREM SilentWhileLockedCorrect == Spec => SilentWhileLocked
<1> DEFINE A == lock = "running" =>
                   /\ failures' <= failures
                   /\ \A r \in Requests : pc'[r] = "denied" => pc[r] = "denied"
<1>1. ASSUME IInv, [Next]_vars PROVE [A]_vars
  <2> SUFFICES ASSUME lock = "running"
               PROVE  /\ failures' <= failures
                      /\ \A r \in Requests : pc'[r] = "denied" => pc[r] = "denied"
    OBVIOUS
  <2> USE DEF IInv, TypeOK, Goto
  <2>1. CASE \E r \in Requests : Check(r) \/ Fails(r)
    BY <1>1, <2>1 DEF Check, EnsureNotLocked, Fails, RegisterFailure, CountsFailure, lockVars
  <2>2. CASE \E r \in Requests : Succeeds(r) \/ Passes(r)
    BY <1>1, <2>2 DEF Succeeds, RegisterSuccess, Passes, lockVars
  <2>3. CASE LockPasses /\ UNCHANGED pc
    BY <1>1, <2>3 DEF LockPasses
  <2>4. CASE /\ UNCHANGED lockVars
             /\ \/ UNCHANGED pc
                \/ \E r \in Requests :
                      \E label \in Labels \ {"verify", "insert", "issue", "denied"} : Goto(r, label)
    BY <1>1, <2>4 DEF lockVars
  <2> QED
    BY <1>1, <2>1, <2>2, <2>3, <2>4, LockQuiet
<1> QED
  BY <1>1, ProcessInvariance, PTL DEF Spec, SilentWhileLocked
=============================================================================
