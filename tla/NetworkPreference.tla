--------------------------- MODULE NetworkPreference ---------------------------
(***************************************************************************)
(* Which network a stream is routed to.  preferred_network_ is one atomic  *)
(* variable of main_interface.cc, shared by every engine of the process.   *)
(* The platform's monitor writes it: on Android a broadcast receiver (on   *)
(* the application's main thread) and a network callback (on a thread of   *)
(* the system), each of which asks for the active network and then sets    *)
(* the preference; on iOS a reachability callback, which is given the      *)
(* flags.  The engine's main thread reads it when the closure that sends a *)
(* stream's headers runs.                                                  *)
(*                                                                         *)
(* External: the operating system notifies every registered handler of     *)
(* every change of the active network, after the change.                   *)
(***************************************************************************)
EXTENDS Naturals

CONSTANTS
  Threads,      \* threads that create engines
  Platforms,    \* which of {"android", "ios"}
  Networks,     \* active networks: of {"none", "wifi", "mobile", "other"}
  MaxChanges,   \* bound: events of the network
  MaxPosted     \* bound: send_headers closures waiting

ASSUME NetworkAssumption ==
  /\ Platforms \subseteq {"android", "ios"}
  /\ Networks \subseteq {"none", "wifi", "mobile", "other"}
  /\ MaxChanges \in Nat
  /\ MaxPosted \in Nat

VARIABLES
  platform,
  active,              \* the active network (external)
  changes,             \* events of the network so far
  preferred_network_,  \* an envoy_network_t
  loading,             \* loading[t]: where thread t is in starting the monitor
  instance,            \* monitors built
  handlers,            \* the handlers that are registered
  pending,             \* the handlers that have a notification to handle
  seen,                \* seen[h]: the network handler h has read, until it sets
  posted,              \* send_headers closures posted to the main thread
  routed               \* the cluster of the stream routed last

startVars  == <<loading, instance>>
streamVars == <<posted, routed>>
vars == <<platform, active, changes, preferred_network_, startVars, handlers,
          pending, seen, streamVars>>

Handlers == {"callback", "receiver", "reachability"}

Init ==
  /\ platform \in Platforms
  /\ active \in Networks
  /\ changes = 0
  /\ preferred_network_ = 0
  /\ loading = [t \in Threads |-> "no"]
  /\ instance = 0
  /\ handlers = {}
  /\ pending = {}
  /\ seen = [h \in Handlers |-> "nothing"]
  /\ posted = 0
  /\ routed = "nothing"
-----------------------------------------------------------------------------
(* The numbers of the networks *)

\* envoy_network_t.
ENVOY_NET_GENERIC == 0
ENVOY_NET_WLAN    == 1
ENVOY_NET_WWAN    == 2

\* Mutant: ConnectivityManager's own numbers are passed on.
ConnectivityType(n) == CASE n = "wifi" -> 1 [] n = "other" -> 9 [] OTHER -> 0

\* handleNetworkChange's switch, with the constants that AndroidNetworkMonitor
\* declares for itself.
JavaNetwork(n) ==
  LET JAVA_NET_WWAN == 1
      JAVA_NET_WLAN == 2
  IN CASE n = "mobile" -> JAVA_NET_WWAN
       [] n = "wifi"   -> JAVA_NET_WLAN
       [] OTHER        -> ENVOY_NET_GENERIC

\* What _reachability_callback stores, unless no flag is set.
IosNetwork(n) == IF n = "mobile" THEN ENVOY_NET_WWAN ELSE ENVOY_NET_WLAN
-----------------------------------------------------------------------------
(* Starting the monitor *)

\* AndroidNetworkMonitor.load, from the constructor of AndroidEngineImpl: the
\* test of instance outside the lock ...
load(t) ==
  /\ platform = "android" /\ loading[t] = "no"
  /\ loading' = [loading EXCEPT ![t] = IF instance > 0 THEN "done" ELSE "locking"]
  /\ UNCHANGED <<platform, active, changes, preferred_network_, instance,
                 handlers, pending, seen, streamVars>>

Locked == \E u \in Threads : loading[u] = "registering"

\* Registering the network callback; it is told of the networks there are
\* (external).
RegisterCallback(t) ==
  /\ loading' = [loading EXCEPT ![t] = "registering"]
  /\ handlers' = handlers \cup {"callback"}
  /\ pending' = pending \cup IF active = "none" THEN {} ELSE {"callback"}

\* Mutant: instance is not tested again under the lock.
ConstructUnchecked(t) ==
  /\ loading[t] = "locking" /\ ~Locked
  /\ RegisterCallback(t)
  /\ UNCHANGED <<platform, active, changes, preferred_network_, instance, seen,
                 streamVars>>

\* ... and inside it; the constructor registers the callback first ...
Construct(t) ==
  /\ loading[t] = "locking" /\ ~Locked
  /\ IF instance > 0
     THEN /\ loading' = [loading EXCEPT ![t] = "done"]
          /\ UNCHANGED <<handlers, pending>>
     ELSE RegisterCallback(t)
  /\ UNCHANGED <<platform, active, changes, preferred_network_, instance, seen,
                 streamVars>>

\* ... and then the receiver, whose broadcast is sticky (external).  Only now
\* is instance assigned.
RegisterReceiver(t) ==
  /\ loading[t] = "registering"
  /\ loading' = [loading EXCEPT ![t] = "done"]
  /\ instance' = instance + 1
  /\ handlers' = handlers \cup {"receiver"}
  /\ pending' = pending \cup {"receiver"}
  /\ UNCHANGED <<platform, active, changes, preferred_network_, seen, streamVars>>

\* startReachabilityIfNeeded: dispatch_once.  Any of the three calls of
\* _start_reachability may fail, and then there is no callback, now or later.
startReachabilityIfNeeded(t) ==
  /\ platform = "ios" /\ loading[t] = "no"
  /\ loading' = [loading EXCEPT ![t] = "done"]
  /\ \/ /\ instance = 0
        /\ instance' = 1
        /\ \/ handlers' = {"reachability"} /\ pending' = {"reachability"}
           \/ UNCHANGED <<handlers, pending>>
     \/ instance > 0 /\ UNCHANGED <<instance, handlers, pending>>
  /\ UNCHANGED <<platform, active, changes, preferred_network_, seen, streamVars>>
-----------------------------------------------------------------------------
(* The network changes, and the handlers follow *)

\* Another network becomes the active one (external).
NetworkChanges ==
  /\ changes < MaxChanges
  /\ active' \in Networks \ {active}
  /\ changes' = changes + 1
  /\ pending' = handlers
  /\ UNCHANGED <<platform, preferred_network_, startVars, handlers, seen,
                 streamVars>>

\* onCapabilitiesChanged or onLosing of whatever network: the active one stays
\* (external).
CapabilitiesChange ==
  /\ changes < MaxChanges /\ "callback" \in handlers
  /\ changes' = changes + 1
  /\ pending' = pending \cup {"callback"}
  /\ UNCHANGED <<platform, active, preferred_network_, startVars, handlers,
                 seen, streamVars>>

\* handleNetworkChange on the thread of handler h: getActiveNetworkInfo ...
handleNetworkChange(h) ==
  /\ platform = "android" /\ h \in pending /\ seen[h] = "nothing"
  /\ pending' = pending \ {h}
  /\ seen' = [seen EXCEPT ![h] = active]
  /\ UNCHANGED <<platform, active, changes, preferred_network_, startVars,
                 handlers, streamVars>>

\* Mutant: setting the preference answers every notification that has come in
\* by then.
SetAndForget(h) ==
  /\ seen[h] # "nothing"
  /\ preferred_network_' = JavaNetwork(seen[h])
  /\ seen' = [seen EXCEPT ![h] = "nothing"]
  /\ pending' = pending \ {h}
  /\ UNCHANGED <<platform, active, changes, startVars, handlers, streamVars>>

\* ... then setPreferredNetwork, which casts the number it is given.
setPreferredNetwork(h) ==
  /\ seen[h] # "nothing"
  /\ preferred_network_' = JavaNetwork(seen[h])
  /\ seen' = [seen EXCEPT ![h] = "nothing"]
  /\ UNCHANGED <<platform, active, changes, startVars, handlers, pending,
                 streamVars>>

\* _reachability_callback: without flags it leaves the preference alone.
reachability_callback ==
  /\ "reachability" \in pending
  /\ pending' = pending \ {"reachability"}
  /\ preferred_network_' =
       IF active = "none" THEN preferred_network_ ELSE IosNetwork(active)
  /\ UNCHANGED <<platform, active, changes, startVars, handlers, seen, streamVars>>
-----------------------------------------------------------------------------
(* Routing a stream *)

\* send_headers posts its closure; HttpDispatcher details the posting.
send_headers ==
  /\ instance > 0 /\ posted < MaxPosted
  /\ posted' = posted + 1
  /\ UNCHANGED <<platform, active, changes, preferred_network_, startVars,
                 handlers, pending, seen, routed>>

\* Mutant: the case of ENVOY_NET_WLAN falls through.
MissingBreak(use_h2_cluster) ==
  CASE preferred_network_ \in {ENVOY_NET_WLAN, ENVOY_NET_WWAN} ->
         IF use_h2_cluster THEN "base_wwan_h2" ELSE "base_wwan"
    [] OTHER ->
         IF use_h2_cluster THEN "base_h2" ELSE "base"

\* The value of the cluster header; use_h2_cluster is whether the request's
\* headers said "http2".
setDestinationCluster(use_h2_cluster) ==
  CASE preferred_network_ = ENVOY_NET_WLAN ->
         IF use_h2_cluster THEN "base_wlan_h2" ELSE "base_wlan"
    [] preferred_network_ = ENVOY_NET_WWAN ->
         IF use_h2_cluster THEN "base_wwan_h2" ELSE "base_wwan"
    [] OTHER ->
         IF use_h2_cluster THEN "base_h2" ELSE "base"

\* The closure runs on the engine's main thread.
RouteStream ==
  /\ posted > 0
  /\ posted' = posted - 1
  /\ \E use_h2_cluster \in BOOLEAN : routed' = setDestinationCluster(use_h2_cluster)
  /\ UNCHANGED <<platform, active, changes, preferred_network_, startVars,
                 handlers, pending, seen>>
-----------------------------------------------------------------------------
StartMonitor(t) ==
  load(t) \/ Construct(t) \/ RegisterReceiver(t) \/ startReachabilityIfNeeded(t)

Handle(h) == handleNetworkChange(h) \/ setPreferredNetwork(h)

Next ==
  \/ \E t \in Threads : StartMonitor(t)
  \/ \E h \in Handlers : Handle(h)
  \/ NetworkChanges \/ CapabilitiesChange \/ reachability_callback
  \/ send_headers \/ RouteStream

\* A handler that has been notified runs, and so do posted closures.
Fairness ==
  /\ \A h \in Handlers : WF_vars(Handle(h))
  /\ WF_vars(reachability_callback)
  /\ WF_vars(RouteStream)

Spec == Init /\ [][Next]_vars
FairSpec == Spec /\ Fairness
-----------------------------------------------------------------------------
(* Properties *)

\* The clusters that config_template.cc declares for requests.
Configured == {"base", "base_wlan", "base_wwan",
               "base_h2", "base_wlan_h2", "base_wwan_h2"}

\* The types of the variables; a stream is only ever routed to a cluster that
\* the configuration declares.
TypeOK ==
  /\ platform \in Platforms
  /\ active \in Networks
  /\ changes \in 0 .. MaxChanges
  /\ preferred_network_ \in 0 .. 2
  /\ loading \in [Threads -> {"no", "locking", "registering", "done"}]
  /\ instance \in Nat
  /\ handlers \subseteq Handlers
  /\ pending \subseteq handlers
  /\ seen \in [Handlers -> Networks \cup {"nothing"}]
  /\ posted \in 0 .. MaxPosted
  /\ routed \in Configured \cup {"nothing"}

\* However many engines are created and on whichever threads, one monitor is
\* built.
OneMonitor == instance <= 1

\* The inductive invariant behind it.
LoadInv ==
  /\ \A t, u \in Threads :
       loading[t] = "registering" /\ loading[u] = "registering" => t = u
  /\ \A t \in Threads : loading[t] = "registering" => instance = 0
  /\ OneMonitor

\* Nothing is pending and nobody is between reading and setting.
Quiet == pending = {} /\ \A h \in Handlers : seen[h] = "nothing"

\* The monitor has been started, and could be.
Monitoring == handlers \cap {"receiver", "reachability"} # {}

\* The preference is what this platform's handlers make of network n.  (iOS
\* keeps the old one when there is no network.)
PreferenceIs(n) ==
  \/ platform = "android" /\ preferred_network_ = JavaNetwork(n)
  \/ platform = "ios" /\ (n = "none" \/ preferred_network_ = IosNetwork(n))

\* Each of the two Android handlers may set a network that was left long ago.
\* Once every notification is handled, though, the preference is the active
\* network's, whoever set it last.
QuietPreferenceIsCurrent == Quiet /\ Monitoring => PreferenceIs(active)

\* The inductive invariant behind it: a handler that has read a network which
\* is no longer the active one has another notification to handle.
NetworkInv ==
  /\ \A h \in Handlers : seen[h] \notin {"nothing", active} => h \in pending
  /\ \A h \in Handlers : seen[h] # "nothing" => platform = "android"
  /\ QuietPreferenceIsCurrent

\* The clusters of network n, in this platform's numbering.
ClustersFor(n) ==
  CASE platform = "ios" /\ n = "none"     -> Configured
    [] platform = "ios" /\ n = "mobile"   -> {"base_wwan", "base_wwan_h2"}
    [] platform = "ios" /\ n \notin {"none", "mobile"} ->
                                             {"base_wlan", "base_wlan_h2"}
    [] platform = "android" /\ n = "wifi"   -> {"base_wwan", "base_wwan_h2"}
    [] platform = "android" /\ n = "mobile" -> {"base_wlan", "base_wlan_h2"}
    [] OTHER                              -> {"base", "base_h2"}

\* When the network stops changing, streams are from some moment on routed to
\* the clusters of the active network, whatever the order in which the
\* handlers ran and the streams were posted.
StreamsFollowTheNetwork ==
  \A n \in Networks :
    <>[](active = n /\ Monitoring)
      => <>[][posted' < posted => routed' \in ClustersFor(n)]_vars

\* c_types.h: "ENVOY_NET_WLAN includes WiFi and other local area wireless
\* networks.  ENVOY_NET_WWAN includes all mobile phone networks."
PreferenceNamesTheNetwork ==
  Quiet /\ Monitoring =>
    /\ active = "wifi"   => preferred_network_ = ENVOY_NET_WLAN
    /\ active = "mobile" => preferred_network_ = ENVOY_NET_WWAN
=============================================================================
