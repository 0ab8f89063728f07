----------------------------- MODULE NetworkProofs -----------------------------
(***************************************************************************)
(* Theorems about NetworkPreference, for every set of threads and networks *)
(* and any number of changes.                                              *)
(***************************************************************************)
EXTENDS NetworkPreference, TLAPS

\* What the proofs need of the types.
NetType ==
  /\ active \in Networks
  /\ loading \in [Threads -> {"no", "locking", "registering", "done"}]
  /\ instance \in Nat
  /\ seen \in [Handlers -> Networks \cup {"nothing"}]
  /\ pending \subseteq handlers
  /\ handlers \subseteq Handlers
  /\ platform \in {"android", "ios"}
  /\ platform = "android" => "reachability" \notin handlers
  /\ platform = "ios" => handlers \subseteq {"reachability"}
  /\ platform = "ios" => \A t \in Threads : loading[t] \in {"no", "done"}
  /\ \A h \in Handlers : seen[h] # "nothing" => h \in handlers
  /\ "nothing" \notin Networks

\* Every step keeps the types.
LEMMA NetTypeStep ==
  ASSUME NetType, [Next]_vars
  PROVE  NetType'
<1>. USE DEF NetType, Handlers
<1>1. ASSUME NEW t \in Threads, load(t)
      PROVE  NetType'
  BY <1>1 DEF load
<1>2. ASSUME NEW t \in Threads, Construct(t)
      PROVE  NetType'
  BY <1>2 DEF Construct, RegisterCallback
<1>3. ASSUME NEW t \in Threads, RegisterReceiver(t)
      PROVE  NetType'
  BY <1>3 DEF RegisterReceiver
<1>4. ASSUME NEW t \in Threads, startReachabilityIfNeeded(t)
      PROVE  NetType'
  <2>1. \/ handlers' = {"reachability"} /\ pending' = {"reachability"}
        \/ handlers' = handlers /\ pending' = pending
    BY <1>4 DEF startReachabilityIfNeeded
  <2>2. platform = "ios" /\ platform' = platform /\ active' = active /\ seen' = seen
    BY <1>4 DEF startReachabilityIfNeeded
  <2>3. loading' = [loading EXCEPT ![t] = "done"] /\ instance' \in Nat
    BY <1>4 DEF startReachabilityIfNeeded
  <2>4. handlers' \subseteq {"reachability"} /\ pending' \subseteq handlers'
    BY <2>1, <2>2
  <2>5. \A h \in Handlers : seen[h] # "nothing" => h \in handlers'
    BY <2>1, <2>2
  <2>. QED BY <2>2, <2>3, <2>4, <2>5
<1>5. ASSUME NEW h \in Handlers, handleNetworkChange(h)
      PROVE  NetType'
  BY <1>5 DEF handleNetworkChange, startVars
<1>6. ASSUME NEW h \in Handlers, setPreferredNetwork(h)
      PROVE  NetType'
  BY <1>6 DEF setPreferredNetwork, startVars
<1>7. CASE NetworkChanges
  BY <1>7 DEF NetworkChanges, startVars
<1>8. CASE CapabilitiesChange
  BY <1>8 DEF CapabilitiesChange, startVars
<1>9. CASE reachability_callback
  BY <1>9 DEF reachability_callback, startVars
<1>10. CASE send_headers \/ RouteStream
  BY <1>10 DEF send_headers, RouteStream, startVars
<1>11. CASE UNCHANGED vars
  BY <1>11 DEF vars, startVars
<1>. QED BY <1>1, <1>2, <1>3, <1>4, <1>5, <1>6, <1>7, <1>8, <1>9, <1>10, <1>11
       DEF Next, StartMonitor, Handle

\* The initial states have the types and satisfy both invariants.
LEMMA NetInit == Init => NetType /\ LoadInv /\ NetworkInv
<1>1. Init => NetType
  BY NetworkAssumption DEF Init, NetType, NetworkAssumption, Handlers
<1>2. Init => LoadInv
  BY DEF Init, LoadInv, OneMonitor
<1>3. Init => NetworkInv
  BY DEF Init, NetworkInv, QuietPreferenceIsCurrent, Monitoring, Handlers
<1>. QED BY <1>1, <1>2, <1>3

\* Every reachable state has the types.
LEMMA NetTypeCorrect == Spec => []NetType
BY NetInit, NetTypeStep, PTL DEF Spec

\* The rest of the types: the preference is one of three numbers, whichever
\* platform's switch set it, and a number has a cluster.
LEMMA RoutingTypeStep ==
  ASSUME NetType, TypeOK, [Next]_vars
  PROVE  /\ changes' \in 0 .. MaxChanges
         /\ preferred_network_' \in 0 .. 2
         /\ posted' \in 0 .. MaxPosted
         /\ routed' \in Configured \cup {"nothing"}
<1>. USE NetworkAssumption DEF NetworkAssumption, TypeOK
<1>1. ASSUME NEW t \in Threads, StartMonitor(t)
      PROVE  UNCHANGED <<changes, preferred_network_, posted, routed>>
  BY <1>1 DEF StartMonitor, load, Construct, RegisterReceiver,
     startReachabilityIfNeeded, streamVars
<1>2. ASSUME NEW h \in Handlers, Handle(h)
      PROVE  /\ UNCHANGED <<changes, posted, routed>>
             /\ preferred_network_' \in 0 .. 2
  <2>1. \A n : JavaNetwork(n) \in 0 .. 2
    BY DEF JavaNetwork, ENVOY_NET_GENERIC
  <2>. QED BY <1>2, <2>1 DEF Handle, handleNetworkChange, setPreferredNetwork,
         streamVars
<1>3. ASSUME NetworkChanges \/ CapabilitiesChange
      PROVE  /\ UNCHANGED <<preferred_network_, posted, routed>>
             /\ changes' \in 0 .. MaxChanges
  BY <1>3 DEF NetworkChanges, CapabilitiesChange, streamVars
<1>4. ASSUME reachability_callback
      PROVE  /\ UNCHANGED <<changes, posted, routed>>
             /\ preferred_network_' \in 0 .. 2
  BY <1>4 DEF reachability_callback, IosNetwork, ENVOY_NET_WWAN, ENVOY_NET_WLAN,
     streamVars
<1>5. ASSUME send_headers
      PROVE  /\ UNCHANGED <<changes, preferred_network_, routed>>
             /\ posted' \in 0 .. MaxPosted
  BY <1>5 DEF send_headers
<1>6. ASSUME RouteStream
      PROVE  /\ UNCHANGED <<changes, preferred_network_>>
             /\ posted' \in 0 .. MaxPosted
             /\ routed' \in Configured
  <2>1. \A b \in BOOLEAN : setDestinationCluster(b) \in Configured
    BY DEF setDestinationCluster, Configured, ENVOY_NET_WLAN, ENVOY_NET_WWAN
  <2>. QED BY <1>6, <2>1 DEF RouteStream
<1>7. CASE UNCHANGED vars
  BY <1>7 DEF vars, streamVars
<1>. QED BY <1>1, <1>2, <1>3, <1>4, <1>5, <1>6, <1>7 DEF Next

\* The platform never changes.
LEMMA PlatformIsFixed ==
  ASSUME [Next]_vars
  PROVE  platform' = platform
BY DEF Next, StartMonitor, load, Construct, RegisterReceiver,
   startReachabilityIfNeeded, Handle, handleNetworkChange, setPreferredNetwork,
   NetworkChanges, CapabilitiesChange, reachability_callback, send_headers,
   RouteStream, vars

\* Type correctness.  A stream is only ever routed to a cluster that the
\* configuration declares, although the two platforms number the networks
\* differently and setPreferredNetwork casts whatever number it is given.
THEOREM NetworkTypeCorrect == Spec => []TypeOK
<1>1. Init => TypeOK
  BY NetworkAssumption DEF Init, TypeOK, NetworkAssumption, Handlers
<1>2. NetType' /\ TypeOK /\ [Next]_vars /\ NetType => TypeOK'
  BY RoutingTypeStep, PlatformIsFixed DEF NetType, TypeOK
<1>. QED BY <1>1, <1>2, NetTypeCorrect, PTL DEF Spec

\* The constructor runs under the lock and only while instance is unset.
LEMMA LoadInvStep ==
  ASSUME NetType, LoadInv, [Next]_vars
  PROVE  LoadInv'
<1>. USE DEF NetType, LoadInv, OneMonitor
<1>1. ASSUME NEW t \in Threads, load(t)
      PROVE  LoadInv'
  BY <1>1 DEF load
<1>2. ASSUME NEW t \in Threads, Construct(t)
      PROVE  LoadInv'
  BY <1>2 DEF Construct, RegisterCallback, Locked
<1>3. ASSUME NEW t \in Threads, RegisterReceiver(t)
      PROVE  LoadInv'
  BY <1>3 DEF RegisterReceiver
<1>4. ASSUME NEW t \in Threads, startReachabilityIfNeeded(t)
      PROVE  LoadInv'
  BY <1>4 DEF startReachabilityIfNeeded
<1>5. ASSUME UNCHANGED startVars
      PROVE  LoadInv'
  BY <1>5 DEF startVars
<1>6. CASE \E h \in Handlers : Handle(h)
  BY <1>5, <1>6 DEF Handle, handleNetworkChange, setPreferredNetwork
<1>7. CASE NetworkChanges \/ CapabilitiesChange \/ reachability_callback
           \/ send_headers \/ RouteStream
  BY <1>5, <1>7 DEF NetworkChanges, CapabilitiesChange, reachability_callback,
     send_headers, RouteStream
<1>8. CASE UNCHANGED vars
  BY <1>5, <1>8 DEF vars
<1>. QED BY <1>1, <1>2, <1>3, <1>4, <1>6, <1>7, <1>8 DEF Next, StartMonitor

\* However many threads call load at once, one monitor is built.
THEOREM OneMonitorIsBuilt == Spec => []OneMonitor
<1>1. LoadInv => OneMonitor
  BY DEF LoadInv
<1>. QED BY <1>1, NetInit, NetTypeCorrect, LoadInvStep, PTL DEF Spec

\* A step that leaves the network, the handlers and the preference alone.
LEMMA NetworkInvUnchanged ==
  ASSUME NetworkInv,
         UNCHANGED <<platform, active, preferred_network_, handlers, pending, seen>>
  PROVE  NetworkInv'
BY DEF NetworkInv, QuietPreferenceIsCurrent, Quiet, Monitoring, PreferenceIs

\* Reading and setting are two steps, with changes and the other handler's
\* steps in between.
LEMMA NetworkInvStep ==
  ASSUME NetType, NetworkInv, [Next]_vars
  PROVE  NetworkInv'
<1>. USE DEF NetType, Handlers
<1>1. ASSUME NEW t \in Threads, load(t)
      PROVE  NetworkInv'
  BY <1>1, NetworkInvUnchanged DEF load
<1>2. ASSUME NEW t \in Threads, Construct(t)
      PROVE  NetworkInv'
  BY <1>2 DEF Construct, RegisterCallback, NetworkInv, QuietPreferenceIsCurrent,
     Quiet, Monitoring, PreferenceIs
<1>3. ASSUME NEW t \in Threads, RegisterReceiver(t)
      PROVE  NetworkInv'
  <2>1. ~Quiet'
    BY <1>3 DEF RegisterReceiver, Quiet
  <2>. QED BY <1>3, <2>1 DEF RegisterReceiver, NetworkInv, QuietPreferenceIsCurrent
<1>4. ASSUME NEW t \in Threads, startReachabilityIfNeeded(t)
      PROVE  NetworkInv'
  <2>1. CASE UNCHANGED <<handlers, pending>>
    BY <1>4, <2>1, NetworkInvUnchanged DEF startReachabilityIfNeeded
  <2>2. CASE pending' = {"reachability"}
    <3>1. ~Quiet'
      BY <2>2 DEF Quiet
    <3>. QED BY <1>4, <3>1 DEF startReachabilityIfNeeded, NetworkInv,
           QuietPreferenceIsCurrent
  <2>. QED BY <1>4, <2>1, <2>2 DEF startReachabilityIfNeeded
<1>5. ASSUME NEW h \in Handlers, handleNetworkChange(h)
      PROVE  NetworkInv'
  <2>1. seen'[h] # "nothing"
    BY <1>5 DEF handleNetworkChange
  <2>2. ~Quiet'
    BY <2>1 DEF Quiet
  <2>. QED BY <1>5, <2>2 DEF handleNetworkChange, NetworkInv, QuietPreferenceIsCurrent
<1>6. ASSUME NEW h \in Handlers, setPreferredNetwork(h)
      PROVE  NetworkInv'
  <2>1. platform = "android"
    BY <1>6 DEF setPreferredNetwork, NetworkInv
  <2>2. CASE seen[h] = active
    <3>1. (PreferenceIs(active))'
      BY <1>6, <2>1, <2>2 DEF setPreferredNetwork, PreferenceIs
    <3>. QED BY <1>6, <3>1 DEF setPreferredNetwork, NetworkInv, QuietPreferenceIsCurrent
  <2>3. CASE seen[h] # active
    <3>1. ~Quiet'
      BY <1>6, <2>3 DEF setPreferredNetwork, NetworkInv, Quiet
    <3>. QED BY <1>6, <3>1 DEF setPreferredNetwork, NetworkInv, QuietPreferenceIsCurrent
  <2>. QED BY <2>2, <2>3
<1>7. CASE NetworkChanges
  <2>1. Monitoring' => ~Quiet'
    BY <1>7 DEF NetworkChanges, Monitoring, Quiet
  <2>2. \A h \in Handlers : seen[h] # "nothing" => h \in handlers
    OBVIOUS
  <2>. QED BY <1>7, <2>1, <2>2 DEF NetworkChanges, NetworkInv, QuietPreferenceIsCurrent
<1>8. CASE CapabilitiesChange
  <2>1. ~Quiet'
    BY <1>8 DEF CapabilitiesChange, Quiet
  <2>. QED BY <1>8, <2>1 DEF CapabilitiesChange, NetworkInv, QuietPreferenceIsCurrent
<1>9. CASE reachability_callback
  <2>1. platform = "ios"
    BY <1>9 DEF reachability_callback
  <2>2. (PreferenceIs(active))'
    BY <1>9, <2>1 DEF reachability_callback, PreferenceIs
  <2>. QED BY <1>9, <2>1, <2>2 DEF reachability_callback, NetworkInv,
         QuietPreferenceIsCurrent
<1>10. CASE send_headers \/ RouteStream
  BY <1>10, NetworkInvUnchanged DEF send_headers, RouteStream
<1>11. CASE UNCHANGED vars
  BY <1>11, NetworkInvUnchanged DEF vars
<1>. QED BY <1>1, <1>2, <1>3, <1>4, <1>5, <1>6, <1>7, <1>8, <1>9, <1>10, <1>11
       DEF Next, StartMonitor, Handle

\* When every notification has been handled the preference is the active
\* network's, although two threads read and set it without a lock.
THEOREM PreferenceConverges == Spec => []QuietPreferenceIsCurrent
<1>1. NetworkInv => QuietPreferenceIsCurrent
  BY DEF NetworkInv
<1>. QED BY <1>1, NetInit, NetTypeCorrect, NetworkInvStep, PTL DEF Spec
=============================================================================
