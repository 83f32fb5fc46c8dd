----------------------- MODULE PluginControllerProofs -----------------------
(***************************************************************************)
(* For any plugins with paths of their own, any number of kubelet restarts *)
(* and of process restarts: the types of PluginController, and that no     *)
(* plugin makes another restart.                                           *)
(*                                                                         *)
(* The second follows from a budget.  A plugin may create one server for   *)
(* its process and one for each restart of the kubelet; it owes one while  *)
(* it is on its way to create one (Due), and the kubelet owes it one       *)
(* between its crash and the moment it empties the directory.  Only a      *)
(* removal of its own path gives a plugin a new debt, and apart from the   *)
(* kubelet only the plugin itself removes that, while it does not watch.   *)
(***************************************************************************)
EXTENDS PluginController, TLAPS

\* No two plugins share a socket path.
OwnPaths == \A p, q \in Plugins : PathOf[p] = PathOf[q] => p = q

\* A plugin that registers has created a server, and one that createDevicePlugins
\* has yet to start has done nothing.
Started ==
    /\ \A p \in Plugins : stage[p] = "register" => starts[p] > 0
    /\ \A p \in todo : stage[p] = "none"

\* The plugin will create a server without any further event.
Due(p)   == told[p] \/ stage[p] \in {"none", "cleanup", "listen", "term", "stop", "clear"}
Debt(p)  == (IF Due(p) THEN 1 ELSE 0) + (IF kubelet = "down" THEN 1 ELSE 0)
Budget   == \A p \in Plugins : starts[p] + Debt(p) <= 1 + restarts + crashes

USE PluginsAssumption, BoundsAssumption

-----------------------------------------------------------------------------
\* The initial state is well typed.
LEMMA TypeInit == Init => TypeOK /\ Started
  BY DEF Init, TypeOK, Started, Stage, StartStage, None, Servers

\* What Unlink leaves of the files, and who is told.
LEMMA UnlinkTypes ==
  ASSUME TypeOK, NEW removed, Unlink(removed)
  PROVE  /\ sock' \in [Paths -> SUBSET Servers]
         /\ \A s \in Paths : sock'[s] \subseteq sock[s]
         /\ told' \in [Plugins -> BOOLEAN]
         /\ \A p \in Plugins : told'[p] => watching[p]
  BY DEF TypeOK, Unlink

\* What a returning handler leaves of the handlers and of what the kubelet lists.
LEMMA HandlerTypes ==
  ASSUME TypeOK, NEW p \in Plugins, NEW n \in Nat, EndHandler(p, n)
  PROVE  /\ handlers' \in [Plugins -> SUBSET Nat]
         /\ ended' \in [Plugins -> BOOLEAN]
         /\ listed' \in [Paths -> SUBSET Servers]
         /\ \A s \in Paths : listed'[s] \subseteq listed[s]
  BY DEF TypeOK, EndHandler, CloseStream

\* Every step keeps the types.
LEMMA TypeNext == TypeOK /\ Started /\ [Next]_vars => TypeOK' /\ Started'
<1> SUFFICES ASSUME TypeOK, Started, [Next]_vars PROVE TypeOK' /\ Started'
  OBVIOUS
<1> USE DEF Stage, StartStage, Servers, Goto, This, mainVars, lwVars, kubeVars, envVars
<1>1. CASE StartNext
  BY <1>1 DEF TypeOK, Started, StartNext
<1>2. ASSUME NEW p \in Plugins, Plugin(p) PROVE TypeOK' /\ Started'
  <2>1. CASE Cleanup(p)
    <3>1. CASE serving[p]
      BY <2>1, <3>1 DEF TypeOK, Started, Cleanup
    <3>2. CASE ~serving[p]
      <4>1. Unlink({PathOf[p]}) /\ stage[p] = "cleanup" /\ ~watching[p]
        BY <2>1, <3>2 DEF TypeOK, Cleanup
      <4> QED BY <2>1, <3>2, <4>1, UnlinkTypes DEF TypeOK, Started, Cleanup
    <3> QED BY <3>1, <3>2
  <2>2. CASE Listen(p)
    <3>1. CASE sock[PathOf[p]] # {}
      BY <2>2, <3>1 DEF TypeOK, Started, Listen
    <3>2. CASE sock[PathOf[p]] = {}
      <4> DEFINE n == starts[p] + 1
      <4>1. /\ n \in Nat \ {0} /\ starts' \in [Plugins -> Nat]
            /\ starts'[p] = n /\ \A q \in Plugins : starts'[q] >= starts[q]
        BY <2>2, <3>2 DEF TypeOK, Listen
      <4>2. /\ sock' = [sock EXCEPT ![PathOf[p]] = {<<p, n>>}]
            /\ UNCHANGED <<pending, listed>>
        BY <2>2, <3>2 DEF Listen
      <4>3. sock' \in [Paths -> SUBSET Servers] /\ pending' \in [Paths -> SUBSET Servers]
            /\ listed' \in [Paths -> SUBSET Servers]
        BY <4>1, <4>2 DEF TypeOK
      <4>4. ASSUME NEW s \in Paths, NEW x \in sock'[s] \cup pending'[s] \cup listed'[s]
            PROVE  x[2] \in 1..starts'[x[1]] /\ PathOf[x[1]] = s
        <5>1. CASE x = <<p, n>> /\ s = PathOf[p]
          BY <5>1, <4>1
        <5>2. CASE x \in sock[s] \cup pending[s] \cup listed[s]
          <6>1. x \in Servers /\ x[2] \in 1..starts[x[1]] /\ PathOf[x[1]] = s
            BY <5>2 DEF TypeOK
          <6> QED BY <6>1, <4>1 DEF TypeOK
        <5> QED BY <4>2, <4>4, <5>1, <5>2 DEF TypeOK
      <4>5. /\ main' \in Plugins /\ todo' \in SUBSET Plugins
            /\ stage' \in [Plugins -> Stage]
            /\ serving' \in [Plugins -> BOOLEAN]
            /\ watching' \in [Plugins -> BOOLEAN]
            /\ \A q \in Plugins : watching'[q] <=> stage'[q] \in {"nodes", "loop", "send"}
            /\ told' \in [Plugins -> BOOLEAN] /\ \A q \in Plugins : told'[q] => watching'[q]
            /\ token' \in [Plugins -> BOOLEAN] /\ handlers' \in [Plugins -> SUBSET Nat]
            /\ ended' \in [Plugins -> BOOLEAN]
            /\ kubelet' \in {"up", "down", "wiped"}
            /\ restarts' \in 0..MaxRestarts /\ crashes' \in 0..MaxCrashes
        <5>1. /\ stage' = [stage EXCEPT ![p] = "register"]
              /\ serving' = [serving EXCEPT ![p] = TRUE]
              /\ ended' = [ended EXCEPT ![p] = FALSE]
              /\ UNCHANGED <<main, todo, watching, told, token, handlers, kubelet, restarts,
                             crashes>>
          BY <2>2, <3>2 DEF Listen
        <5>2. stage[p] = "listen"
          BY <2>2 DEF Listen
        <5> QED BY <5>1, <5>2 DEF TypeOK
      <4>6. Started'
        BY <2>2, <3>2, <4>1 DEF TypeOK, Started, Listen
      <4> QED BY <4>1, <4>3, <4>4, <4>5, <4>6 DEF TypeOK
    <3> QED BY <3>1, <3>2
  <2>3. CASE Register(p)
    BY <2>3 DEF TypeOK, Started, Register
  <2>4. CASE StartFails(p)
    BY <2>4 DEF TypeOK, Started, StartFails
  <2>5. CASE Watch(p)
    BY <2>5 DEF TypeOK, Started, Watch
  <2>6. CASE WatchNodes(p)
    BY <2>6 DEF TypeOK, Started, WatchNodes
  <2>7. CASE HealthFails(p)
    BY <2>7 DEF TypeOK, Started, HealthFails, CloseWatcher
  <2>8. CASE SocketRemoved(p)
    BY <2>8 DEF TypeOK, Started, SocketRemoved, CloseWatcher
  <2>9. CASE StopServer(p)
    <3>1. Unlink({PathOf[p]}) /\ stage[p] = "stop" /\ ~watching[p]
      BY <2>9 DEF TypeOK, StopServer
    <3> QED BY <2>9, <3>1, UnlinkTypes DEF TypeOK, Started, StopServer, CloseStream
  <2>10. CASE StopClear(p)
    <3>1. Unlink({PathOf[p]}) /\ stage[p] = "clear" /\ ~watching[p]
      BY <2>10 DEF TypeOK, StopClear
    <3> QED BY <2>10, <3>1, UnlinkTypes DEF TypeOK, Started, StopClear
  <2>11. CASE DeviceEvent(p)
    BY <2>11 DEF TypeOK, Started, DeviceEvent
  <2>12. CASE Deliver(p)
    BY <2>12 DEF TypeOK, Started, Deliver
  <2>13. CASE Signal(p)
    <3>1. CASE \E n \in handlers[p] : EndHandler(p, n) /\ token' = token
      BY <2>13, <3>1, HandlerTypes DEF TypeOK, Started, Signal
    <3>2. CASE UNCHANGED <<handlers, ended, listed>> /\ token' = [token EXCEPT ![p] = TRUE]
      BY <2>13, <3>2 DEF TypeOK, Started, Signal
    <3> QED BY <2>13, <3>1, <3>2 DEF Signal
  <2>14. CASE TakeToken(p)
    BY <2>14, HandlerTypes DEF TypeOK, Started, TakeToken
  <2> QED
    BY <1>2, <2>1, <2>2, <2>3, <2>4, <2>5, <2>6, <2>7, <2>8, <2>9, <2>10, <2>11, <2>12,
       <2>13, <2>14
    DEF Plugin, Goroutine, Start, healthCheck, Stop
<1>3. CASE KubeletWipe
  <2>1. Unlink(Paths)
    BY <1>3 DEF KubeletWipe
  <2> QED BY <1>3, <2>1, UnlinkTypes DEF TypeOK, Started, KubeletWipe
<1>4. CASE KubeletServe
  BY <1>4 DEF TypeOK, Started, KubeletServe
<1>5. ASSUME NEW s \in Paths, KubeletDial(s) PROVE TypeOK' /\ Started'
  <2>1. /\ Answering(s) = {} => listed' = listed
        /\ Answering(s) # {} => listed' = [listed EXCEPT ![s] = pending[s]]
    BY <1>5 DEF KubeletDial
  <2>2. handlers' \in [Plugins -> SUBSET Nat]
    BY <1>5 DEF TypeOK, KubeletDial
  <2> QED BY <1>5, <2>1, <2>2 DEF TypeOK, Started, KubeletDial
<1>6. CASE KubeletCrash
  BY <1>6 DEF TypeOK, Started, KubeletCrash, None
<1>7. CASE ProcessCrash
  BY <1>7 DEF TypeOK, Started, ProcessCrash, None
<1>8. CASE UNCHANGED vars
  BY <1>8 DEF TypeOK, Started, vars
<1> QED BY <1>1, <1>2, <1>3, <1>4, <1>5, <1>6, <1>7, <1>8 DEF Next, Kubelet

\* Every state of every behaviour is well typed, whatever the plugins, their paths and
\* the numbers of restarts: no step of createDevicePlugins, a plugin or the kubelet
\* leaves a value it should not, and a watcher is open only while it is read.
THEOREM Typed == Spec => []TypeOK
<1>1. TypeOK /\ Started /\ [Next]_vars => (TypeOK /\ Started)'
  BY TypeNext
<1> QED BY TypeInit, <1>1, PTL DEF Spec, Safety

-----------------------------------------------------------------------------
\* With paths of their own, the plugins that a plugin's Unlink tells of it are none:
\* the plugin itself does not watch at that time.
LEMMA UnlinkOwn ==
  ASSUME TypeOK, OwnPaths, NEW p \in Plugins, ~watching[p], Unlink({PathOf[p]})
  PROVE  told' = told
<1>1. ASSUME NEW q \in Plugins PROVE told'[q] = told[q]
  <2>1. ~(watching[q] /\ PathOf[q] \in {PathOf[p]} /\ sock[PathOf[q]] # {})
    BY DEF OwnPaths
  <2> QED BY <2>1 DEF Unlink, TypeOK
<1>2. told' = [q \in Plugins |-> told'[q]] /\ told = [q \in Plugins |-> told[q]]
  BY DEF TypeOK, Unlink
<1> QED BY <1>1, <1>2

\* Every step keeps the budget.
LEMMA BudgetNext ==
  OwnPaths /\ TypeOK /\ Started /\ Budget /\ [Next]_vars => Budget'
<1> SUFFICES ASSUME OwnPaths, TypeOK, Started, Budget, [Next]_vars PROVE Budget'
  OBVIOUS
<1> USE DEF Stage, StartStage, Goto, This, mainVars, lwVars, kubeVars, envVars, Budget, Debt, Due
<1>1. CASE StartNext
  BY <1>1 DEF TypeOK, Started, StartNext
<1>2. ASSUME NEW p \in Plugins, Plugin(p) PROVE Budget'
  <2>1. CASE Cleanup(p)
    <3>1. told' = told
      BY <2>1, UnlinkOwn DEF TypeOK, Cleanup
    <3> QED BY <2>1, <3>1 DEF TypeOK, Cleanup
  <2>2. CASE Listen(p)
    <3>1. ~told[p] /\ told' = told
      BY <2>2 DEF TypeOK, Listen
    <3>2. CASE sock[PathOf[p]] # {}
      BY <2>2, <3>1, <3>2 DEF TypeOK, Listen
    <3>3. CASE sock[PathOf[p]] = {}
      <4>1. starts' = [starts EXCEPT ![p] = @ + 1] /\ stage' = [stage EXCEPT ![p] = "register"]
        BY <2>2, <3>3 DEF Listen
      <4>2. UNCHANGED <<kubelet, restarts, crashes>>
        BY <2>2 DEF Listen
      <4>3. ASSUME NEW q \in Plugins PROVE starts'[q] + Debt(q)' <= 1 + restarts + crashes
        <5>1. CASE q = p
          <6>1. Due(p) /\ ~Due(p)'
            BY <2>2, <3>1, <4>1 DEF TypeOK, Listen
          <6> QED BY <5>1, <6>1, <4>1, <4>2 DEF TypeOK
        <5>2. CASE q # p
          BY <5>2, <3>1, <4>1, <4>2 DEF TypeOK
        <5> QED BY <5>1, <5>2
      <4> QED BY <4>2, <4>3
    <3> QED BY <3>2, <3>3
  <2>3. CASE Register(p)
    BY <2>3 DEF TypeOK, Register
  <2>4. CASE StartFails(p)
    BY <2>4 DEF TypeOK, StartFails
  <2>5. CASE Watch(p)
    BY <2>5 DEF TypeOK, Watch
  <2>6. CASE WatchNodes(p)
    BY <2>6 DEF TypeOK, WatchNodes
  <2>7. CASE HealthFails(p)
    BY <2>7 DEF TypeOK, HealthFails, CloseWatcher
  <2>8. CASE SocketRemoved(p)
    BY <2>8 DEF TypeOK, SocketRemoved, CloseWatcher
  <2>9. CASE StopServer(p)
    <3>1. told' = told
      BY <2>9, UnlinkOwn DEF TypeOK, StopServer
    <3> QED BY <2>9, <3>1 DEF TypeOK, StopServer
  <2>10. CASE StopClear(p)
    <3>1. told' = told
      BY <2>10, UnlinkOwn DEF TypeOK, StopClear
    <3> QED BY <2>10, <3>1 DEF TypeOK, StopClear
  <2>11. CASE DeviceEvent(p)
    BY <2>11 DEF TypeOK, DeviceEvent
  <2>12. CASE Deliver(p)
    BY <2>12 DEF TypeOK, Deliver
  <2>13. CASE Signal(p)
    BY <2>13 DEF TypeOK, Signal
  <2>14. CASE TakeToken(p)
    BY <2>14 DEF TypeOK, TakeToken
  <2> QED
    BY <1>2, <2>1, <2>2, <2>3, <2>4, <2>5, <2>6, <2>7, <2>8, <2>9, <2>10, <2>11, <2>12,
       <2>13, <2>14
    DEF Plugin, Goroutine, Start, healthCheck, Stop
<1>3. CASE KubeletWipe
  BY <1>3 DEF TypeOK, KubeletWipe
<1>4. CASE KubeletServe
  BY <1>4 DEF TypeOK, KubeletServe
<1>5. ASSUME NEW s \in Paths, KubeletDial(s) PROVE Budget'
  BY <1>5 DEF TypeOK, KubeletDial
<1>6. CASE KubeletCrash
  BY <1>6 DEF TypeOK, KubeletCrash
<1>7. CASE ProcessCrash
  BY <1>7 DEF TypeOK, ProcessCrash
<1>8. CASE UNCHANGED vars
  BY <1>8 DEF vars
<1> QED BY <1>1, <1>2, <1>3, <1>4, <1>5, <1>6, <1>7, <1>8 DEF Next, Kubelet

\* If no two plugins have one socket path, a plugin creates a server when the process
\* starts and after a restart of the kubelet only, although each plugin watches the
\* directory in which all the others create and remove their files.
THEOREM Undisturbed ==
  ASSUME OwnPaths
  PROVE  Spec => []NotDisturbed
<1>1. Init => Budget
  <2> SUFFICES ASSUME Init, NEW p \in Plugins
               PROVE  starts[p] + Debt(p) <= 1 + restarts + crashes
    BY DEF Budget
  <2>1. starts[p] = 0 /\ restarts = 0 /\ crashes = 0 /\ kubelet = "up"
    BY DEF Init
  <2> QED BY <2>1 DEF Debt
<1>2. TypeOK /\ Started /\ Budget /\ [Next]_vars => (TypeOK /\ Started /\ Budget)'
  BY TypeNext, BudgetNext
<1>3. TypeOK /\ Budget => NotDisturbed
  <2> SUFFICES ASSUME TypeOK, Budget, NEW p \in Plugins
               PROVE  starts[p] <= 1 + restarts + crashes
    BY DEF NotDisturbed
  <2>1. Debt(p) \in Nat
    BY DEF Debt
  <2>2. starts[p] \in Nat /\ restarts \in Nat /\ crashes \in Nat
    BY DEF TypeOK
  <2> QED BY <2>1, <2>2 DEF Budget
<1> QED BY TypeInit, <1>1, <1>2, <1>3, PTL DEF Spec, Safety
============================================================================
