----------------------------- MODULE EngineProofs -----------------------------
(***************************************************************************)
(* Theorems about Engine, for every set of threads.  The argument: the     *)
(* main thread leaves its loop only after exit(), exit() is called only by *)
(* ~Engine, and ~Engine begins only when no reference is left; a call that *)
(* is under way has one.                                                   *)
(***************************************************************************)
EXTENDS Engine, TLAPS

\* The initial state is well typed and satisfies the invariant.
LEMMA InitEngine == Init => TypeOK /\ EngineInv
<1>. SUFFICES ASSUME Init PROVE TypeOK /\ EngineInv
  OBVIOUS
<1>. USE DEF Init
<1>1. ApiTypeOK
  <2>1. calls \in 0 .. MaxCalls
    BY EngineAssumption DEF EngineAssumption
  <2>2. strong_engine_ \in BOOLEAN /\ engine_ \in BOOLEAN
    BY Zenon
  <2>. QED BY <2>1, <2>2 DEF ApiTypeOK
<1>2. MemberTypeOK
  BY DEF MemberTypeOK
<1>3. MainTypeOK
  <2>1. exit_requested \in BOOLEAN
    BY Zenon
  <2>. QED BY <2>1 DEF MainTypeOK
<1>4. WorkTypeOK
  BY DEF WorkTypeOK
<1>5. DtorTypeOK
  BY DEF DtorTypeOK
<1>6. EngineInv
  BY DEF EngineInv, InCall, Teardown, RecordUseIsSafe
<1>. QED BY <1>1, <1>2, <1>3, <1>4, <1>5, <1>6 DEF TypeOK

\* A group of variables that a step leaves alone stays typed.
LEMMA UnchangedTypeOK ==
  ASSUME TypeOK
  PROVE  /\ UNCHANGED apiVars => ApiTypeOK'
         /\ UNCHANGED memberVars => MemberTypeOK'
         /\ UNCHANGED mainVars => MainTypeOK'
         /\ UNCHANGED workVars => WorkTypeOK'
         /\ UNCHANGED dtorVars => DtorTypeOK'
<1>1. UNCHANGED apiVars => ApiTypeOK'
  BY DEF TypeOK, apiVars, ApiTypeOK
<1>2. UNCHANGED memberVars => MemberTypeOK'
  BY DEF TypeOK, memberVars, MemberTypeOK
<1>3. UNCHANGED mainVars => MainTypeOK'
  BY DEF TypeOK, mainVars, MainTypeOK
<1>4. UNCHANGED workVars => WorkTypeOK'
  BY DEF TypeOK, workVars, WorkTypeOK
<1>5. UNCHANGED dtorVars => DtorTypeOK'
  BY DEF TypeOK, dtorVars, DtorTypeOK
<1>. QED BY <1>1, <1>2, <1>3, <1>4, <1>5

\* The C API.
LEMMA ApiTypeStep ==
  ASSUME TypeOK,
         \/ \E t \in Threads : run_engine(t) \/ PublishEngine(t) \/ terminate_engine(t)
         \/ \E a \in Actors : lock(a) \/ Body(a)
  PROVE  TypeOK'
<1>1. ASSUME NEW t \in Threads, run_engine(t)
      PROVE  TypeOK'
  <2>1. ApiTypeOK'
    BY <1>1 DEF run_engine, TypeOK, ApiTypeOK, Actors
  <2>2. MainTypeOK'
    BY <1>1 DEF run_engine, TypeOK, MainTypeOK
  <2>. QED BY <1>1, <2>1, <2>2, UnchangedTypeOK DEF run_engine, TypeOK
<1>2. ASSUME NEW t \in Threads, PublishEngine(t)
      PROVE  TypeOK'
  <2>1. ApiTypeOK'
    BY <1>2 DEF PublishEngine, TypeOK, ApiTypeOK, Actors
  <2>. QED BY <1>2, <2>1, UnchangedTypeOK DEF PublishEngine, TypeOK
<1>3. ASSUME NEW a \in Actors, NEW last \in BOOLEAN, DropReference(a, last)
      PROVE  /\ at' \in [Actors -> {"idle", "publishing", "pinned", "recording",
                                    "returning", "destroying"}]
             /\ DtorTypeOK'
  BY <1>3 DEF DropReference, TypeOK, ApiTypeOK, DtorTypeOK
<1>4. ASSUME NEW t \in Threads, terminate_engine(t)
      PROVE  TypeOK'
  <2>1. ApiTypeOK' /\ DtorTypeOK'
    BY <1>3, <1>4 DEF terminate_engine, TypeOK, ApiTypeOK, Actors
  <2>. QED BY <1>4, <2>1, UnchangedTypeOK DEF terminate_engine, TypeOK
<1>5. ASSUME NEW a \in Actors, lock(a)
      PROVE  TypeOK'
  <2>1. ApiTypeOK'
    BY <1>5, EngineAssumption DEF lock, MayCall, TypeOK, ApiTypeOK, EngineAssumption
  <2>. QED BY <1>5, <2>1, UnchangedTypeOK DEF lock, TypeOK
<1>6. ASSUME NEW a \in Actors, start_stream(a) \/ RecordTest(a) \/ RecordPost(a)
      PROVE  TypeOK'
  <2>1. ApiTypeOK'
    BY <1>6 DEF start_stream, RecordTest, RecordPost, TypeOK, ApiTypeOK
  <2>2. WorkTypeOK'
    BY <1>6 DEF start_stream, RecordTest, RecordPost, workVars, TypeOK, WorkTypeOK
  <2>. QED BY <1>6, <2>1, <2>2, UnchangedTypeOK
         DEF start_stream, RecordTest, RecordPost, TypeOK
<1>7. ASSUME NEW a \in Actors, Return(a)
      PROVE  TypeOK'
  <2>1. ApiTypeOK' /\ DtorTypeOK'
    BY <1>3, <1>7 DEF Return, TypeOK, ApiTypeOK
  <2>. QED BY <1>7, <2>1, UnchangedTypeOK DEF Return, TypeOK
<1>. QED BY <1>1, <1>2, <1>4, <1>5, <1>6, <1>7 DEF Body

\* Engine::run and the closures posted to it.
LEMMA MainTypeStep ==
  ASSUME TypeOK, MainStep \/ RunPosted
  PROVE  TypeOK'
<1>1. CASE run \/ ConstructionFailed
  <2>1. MemberTypeOK'
    BY <1>1 DEF run, ConstructionFailed, TypeOK, MemberTypeOK, Actors
  <2>2. MainTypeOK'
    BY <1>1 DEF run, ConstructionFailed, TypeOK, MainTypeOK
  <2>. QED BY <1>1, <2>1, <2>2, UnchangedTypeOK DEF run, ConstructionFailed, TypeOK
<1>2. CASE Constructed
  <2>1. MemberTypeOK'
    BY <1>2 DEF Constructed, TypeOK, MemberTypeOK
  <2>2. MainTypeOK'
    BY <1>2 DEF Constructed, TypeOK, MainTypeOK
  <2>3. DtorTypeOK'
    BY <1>2 DEF Constructed, notifyAll, TypeOK, DtorTypeOK
  <2>. QED BY <1>2, <2>1, <2>2, <2>3, UnchangedTypeOK DEF Constructed, TypeOK
<1>3. CASE PostInitServer
  <2>1. MemberTypeOK'
    BY <1>3 DEF PostInitServer, TypeOK, MemberTypeOK
  <2>2. MainTypeOK'
    BY <1>3 DEF PostInitServer, TypeOK, MainTypeOK
  <2>. QED BY <1>3, <2>1, <2>2, UnchangedTypeOK DEF PostInitServer, TypeOK
<1>4. CASE PostInitScope
  <2>1. MemberTypeOK'
    BY <1>4 DEF PostInitScope, TypeOK, MemberTypeOK
  <2>. QED BY <1>4, <2>1, UnchangedTypeOK DEF PostInitScope, TypeOK
<1>5. CASE PostInitReady
  <2>1. WorkTypeOK'
    BY <1>5 DEF PostInitReady, TypeOK, WorkTypeOK
  <2>2. MainTypeOK'
    BY <1>5 DEF PostInitReady, TypeOK, MainTypeOK
  <2>. QED BY <1>5, <2>1, <2>2, UnchangedTypeOK DEF PostInitReady, TypeOK
<1>6. CASE LoopExit \/ OnExit
  <2>1. MainTypeOK'
    <3>1. CASE LoopExit
      BY <3>1 DEF LoopExit, TypeOK, MainTypeOK
    <3>2. CASE OnExit
      <4>1. on_exit = 0
        BY <3>2 DEF OnExit, TypeOK, MainTypeOK
      <4>2. main' = "exited"
        BY <3>2 DEF OnExit
      <4>3. on_exit' = 0 + 1
        BY <3>2, <4>1 DEF OnExit
      <4>4. on_exit' = 1
        BY <4>3
      <4>. QED BY <3>2, <4>2, <4>4 DEF OnExit, TypeOK, MainTypeOK
    <3>. QED BY <1>6, <3>1, <3>2
  <2>. QED BY <1>6, <2>1, UnchangedTypeOK DEF LoopExit, OnExit, TypeOK
<1>7. CASE ResetScope \/ ResetMainCommon
  <2>1. MemberTypeOK'
    BY <1>7 DEF ResetScope, ResetMainCommon, TypeOK, MemberTypeOK
  <2>2. MainTypeOK'
    BY <1>7 DEF ResetScope, ResetMainCommon, TypeOK, MainTypeOK
  <2>. QED BY <1>7, <2>1, <2>2, UnchangedTypeOK DEF ResetScope, ResetMainCommon, TypeOK
<1>8. CASE RunPosted
  <2>1. WorkTypeOK'
    BY <1>8 DEF RunPosted, RunStream, RunRecord, TypeOK, WorkTypeOK
  <2>. QED BY <1>8, <2>1, UnchangedTypeOK DEF RunPosted, RunStream, RunRecord, TypeOK
<1>. QED BY <1>1, <1>2, <1>3, <1>4, <1>5, <1>6, <1>7, <1>8 DEF MainStep

\* ~Engine.
LEMMA DtorTypeStep ==
  ASSUME TypeOK, DtorStep \/ SpuriousWakeup
  PROVE  TypeOK'
<1>1. CASE DtorLock \/ DtorWake
  <2>1. MemberTypeOK' /\ DtorTypeOK'
    BY <1>1 DEF DtorLock, DtorWake, TypeOK, MemberTypeOK, DtorTypeOK
  <2>. QED BY <1>1, <2>1, UnchangedTypeOK DEF DtorLock, DtorWake, TypeOK
<1>2. CASE DtorExit
  <2>1. MemberTypeOK' /\ DtorTypeOK'
    BY <1>2 DEF DtorExit, TypeOK, MemberTypeOK, DtorTypeOK
  <2>2. MainTypeOK'
    BY <1>2 DEF DtorExit, TypeOK, MainTypeOK
  <2>. QED BY <1>2, <2>1, <2>2, UnchangedTypeOK DEF DtorExit, TypeOK
<1>3. CASE DtorJoin
  <2>1. ApiTypeOK'
    BY <1>3 DEF DtorJoin, TypeOK, ApiTypeOK
  <2>2. DtorTypeOK'
    BY <1>3 DEF DtorJoin, TypeOK, DtorTypeOK
  <2>. QED BY <1>3, <2>1, <2>2, UnchangedTypeOK DEF DtorJoin, TypeOK
<1>4. CASE SpuriousWakeup
  <2>1. DtorTypeOK'
    BY <1>4 DEF SpuriousWakeup, TypeOK, DtorTypeOK
  <2>. QED BY <1>4, <2>1, UnchangedTypeOK DEF SpuriousWakeup, TypeOK
<1>. QED BY <1>1, <1>2, <1>3, <1>4 DEF DtorStep

\* Every reachable state of the engine is well typed; on_exit is called when
\* and only when the main thread has left its loop and wrapped up.
THEOREM EngineTypeCorrect == Spec => []TypeOK
<1>1. TypeOK /\ [Next]_vars => TypeOK'
  <2>1. TypeOK /\ UNCHANGED vars => TypeOK'
    BY UnchangedTypeOK DEF vars, TypeOK
  <2>. QED BY <2>1, ApiTypeStep, MainTypeStep, DtorTypeStep DEF Next
<1>2. Init => TypeOK
  BY InitEngine
<1>. QED BY <1>1, <1>2, PTL DEF Spec
-----------------------------------------------------------------------------
(* A call under way keeps the engine alive *)

\* Steps of the C API.
LEMMA ApiInvStep ==
  ASSUME TypeOK, EngineInv,
         \/ \E t \in Threads : run_engine(t) \/ PublishEngine(t) \/ terminate_engine(t)
         \/ \E a \in Actors : lock(a) \/ Body(a)
  PROVE  EngineInv'
<1>. USE DEF EngineInv, RecordUseIsSafe, InCall
<1>0. at \in [Actors -> {"idle", "publishing", "pinned", "recording",
                         "returning", "destroying"}]
      /\ pins \subseteq Actors
  BY DEF TypeOK, ApiTypeOK
<1>1. ASSUME NEW t \in Threads, run_engine(t)
      PROVE  EngineInv'
  BY <1>0, <1>1 DEF run_engine, memberVars, dtorVars, Actors, Teardown
<1>2. ASSUME NEW t \in Threads, PublishEngine(t)
      PROVE  EngineInv'
  BY <1>0, <1>2 DEF PublishEngine, memberVars, mainVars, dtorVars, Actors
<1>3. ASSUME NEW t \in Threads, terminate_engine(t)
      PROVE  EngineInv'
  <2>1. dtor = "none" /\ main # "unborn"
    BY <1>3, <1>0 DEF terminate_engine
  <2>. QED BY <1>0, <1>3, <2>1 DEF terminate_engine, DropReference, memberVars,
         mainVars, Actors
<1>4. ASSUME NEW a \in Actors, lock(a)
      PROVE  EngineInv'
  BY <1>0, <1>4 DEF lock, MayCall, memberVars, mainVars, dtorVars
<1>5. ASSUME NEW a \in Actors, start_stream(a)
      PROVE  EngineInv'
  BY <1>0, <1>5 DEF start_stream, memberVars, mainVars, dtorVars
<1>6. ASSUME NEW a \in Actors, RecordTest(a)
      PROVE  EngineInv'
  <2>1. dtor = "none" /\ main \notin Teardown
    BY <1>6 DEF RecordTest
  <2>2. RecordReady => server_ = "live" /\ client_scope_
    BY <2>1 DEF RecordReady, TypeOK, MemberTypeOK
  <2>. QED BY <1>0, <1>6, <2>1, <2>2 DEF RecordTest, memberVars, mainVars, dtorVars
<1>7. ASSUME NEW a \in Actors, RecordPost(a)
      PROVE  EngineInv'
  BY <1>0, <1>7 DEF RecordPost, memberVars, mainVars, dtorVars
<1>8. ASSUME NEW a \in Actors, Return(a)
      PROVE  EngineInv'
  <2>1. dtor = "none" /\ ~exit_requested /\ main \notin Teardown /\ main # "unborn"
    BY <1>8, <1>0 DEF Return
  <2>2. CASE ~strong_engine_ /\ pins = {a}
    <3>1. at' = [at EXCEPT ![a] = "destroying"] /\ dtor' = "lock"
      BY <1>8, <2>2 DEF Return, DropReference
    <3>2. pins' = {}
      BY <1>8, <2>2 DEF Return
    <3>3. UNCHANGED <<strong_engine_, engine_, memberVars, mainVars>>
      BY <1>8 DEF Return
    <3>4. \A b \in Actors : at'[b] \notin InCall
      BY <1>0, <2>2, <3>1
    <3>5. RecordUseIsSafe'
      BY <3>4
    <3>6. (\A b \in Actors : b \in pins <=> at[b] \in InCall)'
      BY <3>2, <3>4
    <3>. QED BY <2>1, <2>2, <3>1, <3>2, <3>3, <3>5, <3>6 DEF memberVars, mainVars
  <2>3. CASE ~(~strong_engine_ /\ pins = {a})
    <3>1. at' = [at EXCEPT ![a] = "idle"] /\ dtor' = "none"
      BY <1>8, <2>1, <2>3 DEF Return, DropReference
    <3>. QED BY <1>0, <1>8, <2>1, <3>1 DEF Return, memberVars, mainVars
  <2>. QED BY <2>2, <2>3
<1>. QED BY <1>1, <1>2, <1>3, <1>4, <1>5, <1>6, <1>7, <1>8 DEF Body

\* A step that leaves the references, ~Engine's progress and exit() alone only
\* has to answer for what it does to main, server_ and client_scope_.
LEMMA MainInvRule ==
  ASSUME EngineInv, UNCHANGED apiVars,
         dtor' = "none" <=> dtor = "none",
         exit_requested => exit_requested',
         exit_requested' => dtor # "none",
         main' = "unborn" <=> main = "unborn",
         main' \in Teardown => exit_requested',
         server_' = "dangling" => main' \in Teardown,
         RecordUseIsSafe'
  PROVE  EngineInv'
<1>1. UNCHANGED <<strong_engine_, engine_, pins, at>>
  BY DEF apiVars
<1>2. (\A a \in Actors : a \in pins <=> at[a] \in InCall)'
  BY <1>1 DEF EngineInv, InCall
<1>3. (dtor # "none" => ~strong_engine_ /\ pins = {} /\ main # "unborn")'
  BY <1>1 DEF EngineInv
<1>4. (main = "unborn" => ~engine_ /\ \A a \in Actors : at[a] = "idle")'
  BY <1>1 DEF EngineInv
<1>5. (exit_requested => dtor # "none")'
  OBVIOUS
<1>6. (main \in Teardown => exit_requested)' /\ (server_ = "dangling" => main \in Teardown)'
  BY DEF Teardown
<1>. QED BY <1>2, <1>3, <1>4, <1>5, <1>6 DEF EngineInv

\* Steps of the main thread.
LEMMA MainInvStep ==
  ASSUME TypeOK, EngineInv, MainStep \/ RunPosted
  PROVE  EngineInv'
<1>. USE DEF Teardown
<1>0. /\ exit_requested => dtor # "none"
      /\ main \in Teardown => exit_requested
      /\ server_ = "dangling" => main \in Teardown
      /\ RecordUseIsSafe
  BY DEF EngineInv
<1>1. UNCHANGED apiVars
  BY DEF MainStep, RunPosted, run, Constructed, ConstructionFailed, PostInitServer,
     PostInitScope, PostInitReady, RunStream, RunRecord, LoopExit, ResetScope,
     ResetMainCommon, OnExit
<1>a. UNCHANGED at
  BY <1>1 DEF apiVars
<1>b. main \in Teardown => \A a \in Actors : at[a] # "recording"
  BY DEF EngineInv, InCall
<1>2. CASE run
  <2>1. RecordUseIsSafe'
    BY <1>0, <1>a, <1>2 DEF run, RecordUseIsSafe
  <2>. QED BY <1>0, <1>1, <1>2, <2>1, MainInvRule DEF run, dtorVars
<1>3. CASE ConstructionFailed
  <2>1. RecordUseIsSafe'
    BY <1>0, <1>a, <1>3 DEF ConstructionFailed, RecordUseIsSafe
  <2>. QED BY <1>0, <1>1, <1>3, <2>1, MainInvRule DEF ConstructionFailed, dtorVars
<1>4. CASE Constructed
  <2>1. RecordUseIsSafe'
    BY <1>0, <1>a, <1>4 DEF Constructed, RecordUseIsSafe
  <2>2. dtor' = "none" <=> dtor = "none"
    BY <1>4 DEF Constructed, notifyAll
  <2>. QED BY <1>0, <1>1, <1>4, <2>1, <2>2, MainInvRule DEF Constructed
<1>5. CASE PostInitServer
  <2>1. RecordUseIsSafe'
    BY <1>0, <1>a, <1>5 DEF PostInitServer, RecordUseIsSafe
  <2>. QED BY <1>0, <1>1, <1>5, <2>1, MainInvRule DEF PostInitServer, dtorVars
<1>6. CASE PostInitScope
  <2>1. RecordUseIsSafe'
    BY <1>0, <1>a, <1>6 DEF PostInitScope, RecordUseIsSafe
  <2>. QED BY <1>0, <1>1, <1>6, <2>1, MainInvRule DEF PostInitScope, mainVars, dtorVars
<1>7. CASE PostInitReady
  <2>1. RecordUseIsSafe'
    BY <1>0, <1>a, <1>7 DEF PostInitReady, memberVars, RecordUseIsSafe
  <2>. QED BY <1>0, <1>1, <1>7, <2>1, MainInvRule
         DEF PostInitReady, memberVars, dtorVars
<1>8. CASE RunPosted
  <2>1. UNCHANGED <<memberVars, mainVars, dtorVars>>
    BY <1>8 DEF RunPosted, RunStream, RunRecord
  <2>2. RecordUseIsSafe'
    BY <1>0, <1>a, <2>1 DEF memberVars, RecordUseIsSafe
  <2>. QED BY <1>0, <1>1, <2>1, <2>2, MainInvRule DEF memberVars, mainVars, dtorVars
<1>9. CASE LoopExit
  <2>1. RecordUseIsSafe'
    BY <1>0, <1>a, <1>9 DEF LoopExit, memberVars, RecordUseIsSafe
  <2>. QED BY <1>0, <1>1, <1>9, <2>1, MainInvRule DEF LoopExit, memberVars, dtorVars
<1>10. CASE OnExit
  <2>1. RecordUseIsSafe'
    BY <1>0, <1>a, <1>10 DEF OnExit, memberVars, RecordUseIsSafe
  <2>. QED BY <1>0, <1>1, <1>10, <2>1, MainInvRule DEF OnExit, memberVars, dtorVars
<1>11. CASE ResetScope
  <2>1. RecordUseIsSafe'
    BY <1>b, <1>a, <1>11 DEF ResetScope, RecordUseIsSafe
  <2>. QED BY <1>0, <1>1, <1>11, <2>1, MainInvRule DEF ResetScope, dtorVars
<1>12. CASE ResetMainCommon
  <2>1. RecordUseIsSafe'
    BY <1>b, <1>a, <1>12 DEF ResetMainCommon, RecordUseIsSafe
  <2>. QED BY <1>0, <1>1, <1>12, <2>1, MainInvRule DEF ResetMainCommon, dtorVars
<1>. QED BY <1>2, <1>3, <1>4, <1>5, <1>6, <1>7, <1>8, <1>9, <1>10, <1>11, <1>12
       DEF MainStep

\* Steps of ~Engine.
LEMMA DtorInvStep ==
  ASSUME TypeOK, EngineInv, DtorStep \/ SpuriousWakeup
  PROVE  EngineInv'
<1>1. ASSUME UNCHANGED <<apiVars, server_, client_scope_, mainVars>>,
             dtor # "none", dtor' # "none"
      PROVE  EngineInv'
  <2>1. RecordUseIsSafe'
    BY <1>1 DEF EngineInv, RecordUseIsSafe, apiVars
  <2>2. /\ exit_requested' => dtor # "none"
        /\ main' \in Teardown => exit_requested'
        /\ server_' = "dangling" => main' \in Teardown
    BY <1>1 DEF EngineInv, mainVars, Teardown
  <2>. QED BY <1>1, <2>1, <2>2, MainInvRule DEF mainVars
<1>2. CASE DtorLock
  BY <1>1, <1>2 DEF DtorLock
<1>3. CASE DtorWake
  BY <1>1, <1>3 DEF DtorWake
<1>4. CASE SpuriousWakeup
  BY <1>1, <1>4 DEF SpuriousWakeup, memberVars
<1>5. CASE DtorExit
  BY <1>5 DEF DtorExit, apiVars, EngineInv, RecordUseIsSafe, InCall, Teardown
<1>6. CASE DtorJoin
  BY <1>6 DEF DtorJoin, memberVars, mainVars, TypeOK, ApiTypeOK, EngineInv,
     RecordUseIsSafe, InCall, Teardown
<1>. QED BY <1>2, <1>3, <1>4, <1>5, <1>6 DEF DtorStep

\* The inductive invariant holds in every reachable state.
THEOREM EngineInvCorrect == Spec => [](TypeOK /\ EngineInv)
<1>1. TypeOK /\ EngineInv /\ [Next]_vars => EngineInv'
  <2>1. EngineInv /\ UNCHANGED vars => EngineInv'
    BY DEF vars, apiVars, memberVars, mainVars, dtorVars, EngineInv, RecordUseIsSafe
  <2>. QED BY <2>1, ApiInvStep, MainInvStep, DtorInvStep DEF Next
<1>. QED BY InitEngine, EngineTypeCorrect, <1>1, PTL DEF Spec

\* What record* tests is still true when it uses it, with no lock held.
THEOREM RecordsAreSafe == Spec => []RecordUseIsSafe
<1>1. EngineInv => RecordUseIsSafe
  BY DEF EngineInv
<1>. QED BY <1>1, EngineInvCorrect, PTL

\* No call of any thread overlaps ~Engine or the teardown of the main thread.
THEOREM CallsPin == Spec => []CallsPinEngine
<1>1. EngineInv => CallsPinEngine
  BY DEF EngineInv, CallsPinEngine
<1>. QED BY <1>1, EngineInvCorrect, PTL
-----------------------------------------------------------------------------
(* ~Engine and the construction of main_common_ *)

\* The members that DtorInv is about change only here.
LEMMA MainCommonStep ==
  ASSUME TypeOK, EngineInv, DtorInv, [Next]_vars
  PROVE  DtorInv'
<1>. USE DEF DtorInv, DtorFindsMainCommon
<1>1. ASSUME UNCHANGED <<main_common_, event_dispatcher_, exit_requested, dtor>>
      PROVE  DtorInv'
  BY <1>1
<1>2. ASSUME NEW t \in Threads, run_engine(t) \/ PublishEngine(t)
      PROVE  DtorInv'
  BY <1>1, <1>2 DEF run_engine, PublishEngine, memberVars, mainVars, dtorVars
<1>3. ASSUME NEW a \in Actors, NEW last \in BOOLEAN, DropReference(a, last),
             dtor = "none", UNCHANGED <<memberVars, mainVars>>
      PROVE  DtorInv'
  BY <1>3 DEF DropReference, memberVars, mainVars
<1>4. ASSUME NEW t \in Threads, terminate_engine(t)
      PROVE  DtorInv'
  <2>1. dtor = "none"
    BY <1>4 DEF terminate_engine, EngineInv
  <2>. QED BY <1>3, <1>4, <2>1 DEF terminate_engine, Actors
<1>5. ASSUME NEW a \in Actors, lock(a) \/ start_stream(a) \/ RecordTest(a) \/ RecordPost(a)
      PROVE  DtorInv'
  BY <1>1, <1>5 DEF lock, start_stream, RecordTest, RecordPost, memberVars,
     mainVars, dtorVars
<1>6. ASSUME NEW a \in Actors, Return(a)
      PROVE  DtorInv'
  <2>1. a \in pins
    BY <1>6 DEF Return, EngineInv, InCall
  <2>2. dtor = "none"
    BY <2>1 DEF EngineInv
  <2>. QED BY <1>3, <1>6, <2>2 DEF Return
<1>7. CASE run \/ ConstructionFailed \/ PostInitServer \/ PostInitScope
           \/ PostInitReady \/ LoopExit \/ ResetScope \/ OnExit \/ RunPosted
  BY <1>1, <1>7 DEF run, ConstructionFailed, PostInitServer, PostInitScope,
     PostInitReady, LoopExit, ResetScope, OnExit, RunPosted, RunStream, RunRecord,
     memberVars, mainVars, dtorVars
<1>8. CASE Constructed
  BY <1>8 DEF Constructed, notifyAll
<1>9. CASE ResetMainCommon
  <2>1. exit_requested
    BY <1>9 DEF ResetMainCommon, EngineInv, Teardown
  <2>. QED BY <1>9, <2>1 DEF ResetMainCommon, dtorVars
<1>a. ASSUME main_common_' <=> main_common_, event_dispatcher_' = event_dispatcher_,
             exit_requested' => dtor' \in {"join", "self join", "done"},
             dtor' \in {"woken", "exit"} => main_common_
      PROVE  DtorInv'
  BY <1>a
<1>10. CASE DtorLock \/ DtorWake \/ SpuriousWakeup
  <2>1. event_dispatcher_' = event_dispatcher_
    BY <1>10 DEF DtorLock, DtorWake, SpuriousWakeup, memberVars
  <2>2. (main_common_' <=> main_common_) /\ (exit_requested' <=> exit_requested)
    <3>1. UNCHANGED <<main_common_, mainVars>>
      BY <1>10 DEF DtorLock, DtorWake, SpuriousWakeup, memberVars
    <3>2. main_common_' = main_common_ /\ exit_requested' = exit_requested
      BY <3>1 DEF mainVars
    <3>. QED BY <3>2, Zenon
  <2>3. dtor \in {"lock", "woken", "woken early", "waiting"}
    <3>1. DtorLock => dtor = "lock"
      BY DEF DtorLock
    <3>2. DtorWake => dtor \in {"woken", "woken early"}
      BY DEF DtorWake
    <3>3. SpuriousWakeup => dtor = "waiting"
      BY DEF SpuriousWakeup
    <3>. QED BY <1>10, <3>1, <3>2, <3>3
  <2>4. ~exit_requested
    BY <2>3
  <2>5. CASE DtorLock
    BY <1>a, <2>1, <2>2, <2>4, <2>5 DEF DtorLock
  <2>6. CASE DtorWake
    BY <1>a, <2>1, <2>2, <2>4, <2>6 DEF DtorWake
  <2>7. CASE SpuriousWakeup
    BY <1>a, <2>1, <2>2, <2>4, <2>7 DEF SpuriousWakeup
  <2>. QED BY <1>10, <2>5, <2>6, <2>7
<1>11. CASE DtorExit
  <2>1. event_dispatcher_' = event_dispatcher_
    BY <1>11 DEF DtorExit
  <2>2. main_common_' <=> main_common_
    BY <1>11, Zenon DEF DtorExit
  <2>3. ~exit_requested
    BY <1>11 DEF DtorExit
  <2>4. \/ dtor' = "crashed" /\ ~exit_requested'
        \/ dtor' = "join"
    BY <1>11, <2>3, Zenon DEF DtorExit
  <2>. QED BY <1>a, <2>1, <2>2, <2>4
<1>13. CASE DtorJoin
  <2>1. event_dispatcher_' = event_dispatcher_
    BY <1>13 DEF DtorJoin, memberVars
  <2>2. main_common_' <=> main_common_
    BY <1>13, Zenon DEF DtorJoin, memberVars
  <2>3. dtor' \in {"done", "self join"}
    BY <1>13 DEF DtorJoin
  <2>. QED BY <1>a, <2>1, <2>2, <2>3
<1>12. CASE UNCHANGED vars
  BY <1>1, <1>12 DEF vars, memberVars, mainVars, dtorVars
<1>. QED BY <1>2, <1>4, <1>5, <1>6, <1>7, <1>8, <1>9, <1>10, <1>11, <1>12, <1>13
       DEF Next, Body, MainStep, DtorStep

\* ~Engine never tells a dispatcher to exit that is not there, unless the
\* condition variable woke it up early: "ASSERT(main_common_)".
THEOREM DtorIsSafe == Spec => []DtorFindsMainCommon
<1>1. Init => DtorInv
  BY DEF Init, DtorInv, DtorFindsMainCommon
<1>2. DtorInv => DtorFindsMainCommon
  BY DEF DtorInv
<1>. QED BY <1>1, <1>2, EngineInvCorrect, MainCommonStep, PTL DEF Spec
=============================================================================
