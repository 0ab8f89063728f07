-------------------------------- MODULE Engine --------------------------------
(***************************************************************************)
(* The life of an Engine (library/common/engine.{h,cc}) behind the C API   *)
(* of library/common/main_interface.cc: run_engine constructs it and       *)
(* starts its main thread, every API call pins it with engine_.lock(), and *)
(* whoever drops the last reference, terminate_engine or a call that was   *)
(* still in flight, runs ~Engine on its own thread.                        *)
(*                                                                         *)
(* The main thread is Engine::run.  The platform's callbacks run on it, so *)
(* it may make API calls too.  A step ends where another thread can look:  *)
(* at a lock, at a shared variable, at a blocking call.                    *)
(***************************************************************************)
EXTENDS Naturals

CONSTANTS
  Threads,         \* application threads
  Main,            \* the engine's main thread
  MaxCalls,        \* bound: API calls
  ConfigMayFail,   \* may MobileMainCommon's constructor throw?
  MainCallsApi,    \* do platform callbacks call the API?
  SpuriousWakeups  \* may the condition variable wake up unnotified?

ASSUME EngineAssumption ==
  /\ Main \notin Threads
  /\ MaxCalls \in Nat
  /\ {ConfigMayFail, MainCallsApi, SpuriousWakeups} \subseteq BOOLEAN

Actors == Threads \cup {Main}
Nobody == "nobody"

VARIABLES
  \* main_interface.cc
  strong_engine_,   \* does strong_engine_ hold the engine?
  engine_,          \* has the weak pointer been assigned?
  pins,             \* the actors that hold a locked shared_ptr
  calls,            \* API calls made
  at,               \* at[a]: where actor a is in the C API
  \* Engine
  mutex_, main_common_, event_dispatcher_, server_, client_scope_,
  main,             \* where the main thread is in Engine::run
  exit_requested,   \* event_dispatcher_->exit() was called
  on_engine_running, on_exit,
  \* Work handed to the main thread
  init_queue_,      \* start_stream closures waiting for Dispatcher::ready
  streams,          \* start_stream closures posted to the event dispatcher
  records,          \* record* closures posted to the event dispatcher
  \* ~Engine
  dtor,             \* where it is
  dtor_on           \* the actor that runs it

apiVars    == <<strong_engine_, engine_, pins, calls, at>>
memberVars == <<mutex_, main_common_, event_dispatcher_, server_, client_scope_>>
mainVars   == <<main, exit_requested, on_engine_running, on_exit>>
workVars   == <<init_queue_, streams, records>>
dtorVars   == <<dtor, dtor_on>>
vars == <<apiVars, memberVars, mainVars, workVars, dtorVars>>

Init ==
  /\ strong_engine_ = FALSE
  /\ engine_ = FALSE
  /\ pins = {}
  /\ calls = 0
  /\ at = [a \in Actors |-> "idle"]
  /\ mutex_ = Nobody
  /\ main_common_ = FALSE
  /\ event_dispatcher_ = "uninitialized"
  /\ server_ = "null"
  /\ client_scope_ = FALSE
  /\ main = "unborn"
  /\ exit_requested = FALSE
  /\ on_engine_running = 0
  /\ on_exit = 0
  /\ init_queue_ = 0
  /\ streams = 0
  /\ records = 0
  /\ dtor = "none"
  /\ dtor_on = Nobody
-----------------------------------------------------------------------------
(* run_engine and terminate_engine *)

\* The constructor starts main_thread_; strong_engine_ is assigned.
run_engine(t) ==
  /\ main = "unborn" /\ at[t] = "idle"
  /\ main' = "started"
  /\ strong_engine_' = TRUE
  /\ at' = [at EXCEPT ![t] = "publishing"]
  /\ UNCHANGED <<engine_, pins, calls, memberVars, exit_requested,
                 on_engine_running, on_exit, workVars, dtorVars>>

\* engine_ = strong_engine_; run_engine returns.
PublishEngine(t) ==
  /\ at[t] = "publishing"
  /\ engine_' = TRUE
  /\ at' = [at EXCEPT ![t] = "idle"]
  /\ UNCHANGED <<strong_engine_, pins, calls, memberVars, mainVars, workVars,
                 dtorVars>>

\* Actor a drops a reference; the last one to go runs ~Engine.  main_thread_
\* is joinable for as long as nobody has joined it, so its first test always
\* falls through to the lock.
DropReference(a, last) ==
  /\ at'      = [at EXCEPT ![a] = IF last THEN "destroying" ELSE "idle"]
  /\ dtor'    = IF last THEN "lock" ELSE dtor
  /\ dtor_on' = IF last THEN a ELSE dtor_on

\* Mutant: the engine is destroyed whoever still uses it.
TerminateNow(t) ==
  /\ engine_ /\ strong_engine_ /\ at[t] = "idle"
  /\ strong_engine_' = FALSE
  /\ DropReference(t, TRUE)
  /\ UNCHANGED <<engine_, pins, calls, memberVars, mainVars, workVars>>

terminate_engine(t) ==
  /\ engine_ /\ strong_engine_ /\ at[t] = "idle"
  /\ strong_engine_' = FALSE
  /\ DropReference(t, pins = {})
  /\ UNCHANGED <<engine_, pins, calls, memberVars, mainVars, workVars>>
-----------------------------------------------------------------------------
(* API calls *)

\* A callback of the platform is running on the main thread.
InCallback == at[Main] # "idle"

MayCall(a) ==
  /\ at[a] = "idle" /\ calls < MaxCalls
  /\ a = Main => MainCallsApi /\ main = "loop" /\ on_engine_running = 1

\* engine_.lock() fails once the last reference is gone.
lock(a) ==
  /\ MayCall(a)
  /\ engine_ /\ (strong_engine_ \/ pins # {})
  /\ pins' = pins \cup {a}
  /\ calls' = calls + 1
  /\ at' = [at EXCEPT ![a] = "pinned"]
  /\ UNCHANGED <<strong_engine_, engine_, memberVars, mainVars, workVars,
                 dtorVars>>

\* Dispatcher::post, as HttpDispatcher details it: ready() has run when the
\* main thread is past PostInit.
start_stream(a) ==
  /\ at[a] = "pinned"
  /\ at' = [at EXCEPT ![a] = "returning"]
  /\ IF on_engine_running = 1
     THEN streams' = streams + 1 /\ UNCHANGED init_queue_
     ELSE init_queue_' = init_queue_ + 1 /\ UNCHANGED streams
  /\ UNCHANGED <<strong_engine_, engine_, pins, calls, memberVars, mainVars,
                 records, dtorVars>>

\* Mutant: the scope is not looked at.
ServerOnly == server_ # "null"

\* server_ && client_scope_, read without a lock.
RecordReady == server_ # "null" /\ client_scope_

\* recordCounterInc, recordGaugeSet, recordGaugeAdd, recordGaugeSub: test, and
\* return ENVOY_FAILURE if not ready or if the race shows an older value ...
RecordTest(a) ==
  /\ at[a] = "pinned"
  /\ \/ RecordReady /\ at' = [at EXCEPT ![a] = "recording"]
     \/ at' = [at EXCEPT ![a] = "returning"]
  /\ UNCHANGED <<strong_engine_, engine_, pins, calls, memberVars, mainVars,
                 workVars, dtorVars>>

\* ... then server_->dispatcher().post(...).
RecordPost(a) ==
  /\ at[a] = "recording"
  /\ records' = records + 1
  /\ at' = [at EXCEPT ![a] = "returning"]
  /\ UNCHANGED <<strong_engine_, engine_, pins, calls, memberVars, mainVars,
                 init_queue_, streams, dtorVars>>

\* The shared_ptr of the call goes out of scope.
Return(a) ==
  /\ at[a] = "returning"
  /\ pins' = pins \ {a}
  /\ DropReference(a, ~strong_engine_ /\ pins = {a})
  /\ UNCHANGED <<strong_engine_, engine_, calls, memberVars, mainVars, workVars>>
-----------------------------------------------------------------------------
(* Engine::run, on the main thread *)

run ==
  /\ main = "started" /\ mutex_ = Nobody
  /\ mutex_' = Main
  /\ main' = "constructing"
  /\ UNCHANGED <<apiVars, main_common_, event_dispatcher_, server_,
                 client_scope_, exit_requested, on_engine_running, on_exit,
                 workVars, dtorVars>>

\* Mutant: nobody is notified.
NotifyNobody == dtor' = dtor

notifyAll == dtor' = IF dtor = "waiting" THEN "woken" ELSE dtor

\* main_common_ is built and PostInit registered, all under mutex_.
Constructed ==
  /\ main = "constructing"
  /\ main_common_' = TRUE
  /\ event_dispatcher_' = "live"
  /\ notifyAll
  /\ mutex_' = Nobody
  /\ main' = "loop"
  /\ UNCHANGED <<apiVars, server_, client_scope_, exit_requested,
                 on_engine_running, on_exit, workVars, dtor_on>>

\* An exception: run returns ENVOY_FAILURE.
ConstructionFailed ==
  /\ main = "constructing" /\ ConfigMayFail
  /\ mutex_' = Nobody
  /\ main' = "failed"
  /\ UNCHANGED <<apiVars, main_common_, event_dispatcher_, server_,
                 client_scope_, exit_requested, on_engine_running, on_exit,
                 workVars, dtorVars>>

\* Mutant: the PostInit callback runs more than once.
PostInitAgain ==
  /\ main = "loop"
  /\ server_' = "live"
  /\ client_scope_' = FALSE
  /\ main' = "postinit"
  /\ UNCHANGED <<apiVars, mutex_, main_common_, event_dispatcher_,
                 exit_requested, on_engine_running, on_exit, workVars, dtorVars>>

\* The PostInit callback: server_, then client_scope_, then ready() and
\* on_engine_running.  Other threads read the first two at any time.
PostInitServer ==
  /\ main = "loop" /\ on_engine_running = 0
  /\ server_' = "live"
  /\ main' = "postinit"
  /\ UNCHANGED <<apiVars, mutex_, main_common_, event_dispatcher_,
                 client_scope_, exit_requested, on_engine_running, on_exit,
                 workVars, dtorVars>>

PostInitScope ==
  /\ main = "postinit" /\ ~client_scope_
  /\ client_scope_' = TRUE
  /\ UNCHANGED <<apiVars, mutex_, main_common_, event_dispatcher_, server_,
                 mainVars, workVars, dtorVars>>

PostInitReady ==
  /\ main = "postinit" /\ client_scope_
  /\ streams' = streams + init_queue_
  /\ init_queue_' = 0
  /\ on_engine_running' = on_engine_running + 1
  /\ main' = "loop"
  /\ UNCHANGED <<apiVars, memberVars, exit_requested, on_exit, records,
                 dtorVars>>

\* The event loop runs a posted closure.
RunStream ==
  /\ main = "loop" /\ ~InCallback /\ streams > 0
  /\ streams' = streams - 1
  /\ UNCHANGED <<apiVars, memberVars, mainVars, init_queue_, records, dtorVars>>

RunRecord ==
  /\ main = "loop" /\ ~InCallback /\ records > 0
  /\ records' = records - 1
  /\ UNCHANGED <<apiVars, memberVars, mainVars, init_queue_, streams, dtorVars>>

\* main_common_->run() returns when the loop was told to exit, with whatever
\* was still posted to it.
LoopExit ==
  /\ main = "loop" /\ ~InCallback /\ exit_requested
  /\ main' = "exiting"
  /\ UNCHANGED <<apiVars, memberVars, exit_requested, on_engine_running,
                 on_exit, workVars, dtorVars>>

ResetScope ==
  /\ main = "exiting"
  /\ client_scope_' = FALSE
  /\ main' = "scope reset"
  /\ UNCHANGED <<apiVars, mutex_, main_common_, event_dispatcher_, server_,
                 exit_requested, on_engine_running, on_exit, workVars, dtorVars>>

\* Without mutex_.  server_ and event_dispatcher_ keep their values.
ResetMainCommon ==
  /\ main = "scope reset"
  /\ main_common_' = FALSE
  /\ event_dispatcher_' = "dangling"
  /\ server_' = IF server_ = "null" THEN "null" ELSE "dangling"
  /\ main' = "main_common_ reset"
  /\ UNCHANGED <<apiVars, mutex_, client_scope_, exit_requested,
                 on_engine_running, on_exit, workVars, dtorVars>>

OnExit ==
  /\ main = "main_common_ reset"
  /\ on_exit' = on_exit + 1
  /\ main' = "exited"
  /\ UNCHANGED <<apiVars, memberVars, exit_requested, on_engine_running,
                 workVars, dtorVars>>
-----------------------------------------------------------------------------
(* ~Engine *)

\* Mutant: no wait for main_common_.
DtorLockNoWait ==
  /\ dtor = "lock" /\ mutex_ = Nobody
  /\ dtor' = "exit"
  /\ mutex_' = dtor_on
  /\ UNCHANGED <<apiVars, main_common_, event_dispatcher_, server_,
                 client_scope_, mainVars, workVars, dtor_on>>

\* Under mutex_: wait for main_common_ unless it is there.  wait() gives
\* mutex_ up.
DtorLock ==
  /\ dtor = "lock" /\ mutex_ = Nobody
  /\ IF main_common_
     THEN dtor' = "exit" /\ mutex_' = dtor_on
     ELSE dtor' = "waiting" /\ UNCHANGED mutex_
  /\ UNCHANGED <<apiVars, main_common_, event_dispatcher_, server_,
                 client_scope_, mainVars, workVars, dtor_on>>

\* The condition variable (external) may wake up on its own.
SpuriousWakeup ==
  /\ SpuriousWakeups /\ dtor = "waiting"
  /\ dtor' = "woken early"
  /\ UNCHANGED <<apiVars, memberVars, mainVars, workVars, dtor_on>>

\* wait() returns with mutex_ held; the condition is not tested again.
DtorWake ==
  /\ dtor \in {"woken", "woken early"} /\ mutex_ = Nobody
  /\ mutex_' = dtor_on
  /\ dtor' = IF dtor = "woken" THEN "exit" ELSE "exit early"
  /\ UNCHANGED <<apiVars, main_common_, event_dispatcher_, server_,
                 client_scope_, mainVars, workVars, dtor_on>>

\* event_dispatcher_->exit().  The pointer has no initializer: a call through
\* it before run assigns it is undefined behaviour, here the end of the thread.
DtorExit ==
  /\ dtor \in {"exit", "exit early"}
  /\ IF event_dispatcher_ = "uninitialized"
     THEN dtor' = "crashed" /\ UNCHANGED <<exit_requested, mutex_>>
     ELSE dtor' = "join" /\ exit_requested' = TRUE /\ mutex_' = Nobody
  /\ UNCHANGED <<apiVars, main_common_, event_dispatcher_, server_,
                 client_scope_, main, on_engine_running, on_exit, workVars,
                 dtor_on>>

\* join() returns when run has; a thread cannot join itself.
DtorJoin ==
  /\ dtor = "join"
  /\ \/ /\ dtor_on # Main
        /\ main \in {"exited", "failed"}
        /\ dtor' = "done"
        /\ at' = [at EXCEPT ![dtor_on] = "idle"]
     \/ /\ dtor_on = Main
        /\ dtor' = "self join"
        /\ UNCHANGED at
  /\ UNCHANGED <<strong_engine_, engine_, pins, calls, memberVars, mainVars,
                 workVars, dtor_on>>
-----------------------------------------------------------------------------
Body(a) == start_stream(a) \/ RecordTest(a) \/ RecordPost(a) \/ Return(a)

MainStep ==
  \/ run \/ Constructed \/ ConstructionFailed
  \/ PostInitServer \/ PostInitScope \/ PostInitReady
  \/ LoopExit \/ ResetScope \/ ResetMainCommon \/ OnExit

RunPosted == RunStream \/ RunRecord

DtorStep == DtorLock \/ DtorWake \/ DtorExit \/ DtorJoin

Next ==
  \/ \E t \in Threads : run_engine(t) \/ PublishEngine(t) \/ terminate_engine(t)
  \/ \E a \in Actors : lock(a) \/ Body(a)
  \/ MainStep \/ RunPosted
  \/ DtorStep \/ SpuriousWakeup

\* Every thread that is inside the library moves on, and so does the main
\* thread unless it is blocked.  Nobody has to call terminate_engine.
Fairness ==
  /\ \A t \in Threads : WF_vars(PublishEngine(t))
  /\ \A a \in Actors : WF_vars(Body(a))
  /\ WF_vars(MainStep)
  /\ WF_vars(RunPosted)
  /\ WF_vars(DtorStep)

Spec == Init /\ [][Next]_vars
FairSpec == Spec /\ Fairness
-----------------------------------------------------------------------------
(* Properties *)

ApiTypeOK ==
  /\ strong_engine_ \in BOOLEAN /\ engine_ \in BOOLEAN
  /\ pins \subseteq Actors
  /\ calls \in 0 .. MaxCalls
  /\ at \in [Actors -> {"idle", "publishing", "pinned", "recording",
                        "returning", "destroying"}]

MemberTypeOK ==
  /\ mutex_ \in Actors \cup {Nobody}
  /\ main_common_ \in BOOLEAN
  /\ event_dispatcher_ \in {"uninitialized", "live", "dangling"}
  /\ server_ \in {"null", "live", "dangling"}
  /\ client_scope_ \in BOOLEAN

MainTypeOK ==
  /\ main \in {"unborn", "started", "constructing", "loop", "postinit",
               "exiting", "scope reset", "main_common_ reset", "exited", "failed"}
  /\ exit_requested \in BOOLEAN
  /\ on_engine_running \in 0 .. 1
  /\ main = "postinit" => on_engine_running = 0
  /\ on_exit = IF main = "exited" THEN 1 ELSE 0

WorkTypeOK == init_queue_ \in Nat /\ streams \in Nat /\ records \in Nat

DtorTypeOK ==
  /\ dtor \in {"none", "lock", "waiting", "woken", "woken early", "exit",
               "exit early", "crashed", "join", "self join", "done"}
  /\ dtor_on \in Actors \cup {Nobody}
  /\ dtor # "none" => dtor_on \in Actors

\* The types of the variables, group by group.
TypeOK == ApiTypeOK /\ MemberTypeOK /\ MainTypeOK /\ WorkTypeOK /\ DtorTypeOK

InCall   == {"pinned", "recording", "returning"}
Teardown == {"exiting", "scope reset", "main_common_ reset", "exited"}

\* record* tests server_ and client_scope_ and uses them afterwards, without a
\* lock, while the main thread assigns and resets them.  The reference that
\* the call holds is what keeps them alive in between.
RecordUseIsSafe ==
  \A a \in Actors : at[a] = "recording" => server_ = "live" /\ client_scope_

\* main_interface.cc: the shared pointer of a call ensures "the engine persists
\* at least for the duration of the call": ~Engine has not begun.
CallsPinEngine ==
  \A a \in Actors : at[a] \in InCall => dtor = "none" /\ main \notin Teardown

\* What ~Engine asserts after its wait: main_common_ has been built, and the
\* event dispatcher it tells to exit is the one main_common_ owns.  A wakeup
\* that nobody asked for leads to "exit early", which the next property names.
DtorFindsMainCommon ==
  dtor = "exit" => main_common_ /\ event_dispatcher_ = "live"

\* The inductive invariant behind RecordUseIsSafe and CallsPinEngine.
EngineInv ==
  /\ \A a \in Actors : a \in pins <=> at[a] \in InCall
  /\ dtor # "none" => ~strong_engine_ /\ pins = {} /\ main # "unborn"
  /\ exit_requested => dtor # "none"
  /\ main \in Teardown => exit_requested
  /\ main = "unborn" => ~engine_ /\ \A a \in Actors : at[a] = "idle"
  /\ server_ = "dangling" => main \in Teardown
  /\ RecordUseIsSafe

\* terminate_engine leads to the end of ~Engine, "Now we wait for the main
\* thread to wrap things up", and to on_exit.
TerminateCompletes == (engine_ /\ ~strong_engine_) ~> (dtor = "done" /\ on_exit = 1)

\* The inductive invariant behind DtorFindsMainCommon.
DtorInv ==
  /\ exit_requested => dtor \in {"join", "self join", "done"}
  /\ main_common_ => event_dispatcher_ = "live"
  /\ dtor = "woken" => main_common_
  /\ DtorFindsMainCommon

\* Once terminate_engine has been called, ~Engine ends and on_exit is called,
\* whatever calls are still under way, or one of three things went wrong, each
\* of them final: the configuration was bad, the last reference went on the
\* main thread, or the condition variable woke up on its own.
ShutdownEnds ==
  (engine_ /\ ~strong_engine_) ~>
    \/ dtor = "done" /\ on_exit = 1
    \/ main = "failed"
    \/ dtor \in {"self join", "crashed"}

\* ~Engine: "If we're already on the main thread, it should be safe to simply
\* destruct."
MainMayDestruct == dtor # "self join"

\* c_types.h: "Exactly one terminal callback will be called per stream", also
\* for a stream whose start_stream returned ENVOY_SUCCESS before ready().
QueuedStreamsAreServed == dtor = "done" => init_queue_ = 0
=============================================================================
