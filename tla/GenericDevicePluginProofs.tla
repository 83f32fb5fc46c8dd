-------------------- MODULE GenericDevicePluginProofs --------------------
(***************************************************************************)
(* Proofs about GenericDevicePlugin, for every number of devices and every *)
(* value of the bounds: its type invariant, that the plugin is restarted   *)
(* for nothing but restarts of the kubelet, that neither restart nor Start *)
(* is ever refused, that the file at the socket's path is the current      *)
(* server's, that the stream the kubelet reads is the current server's,    *)
(* and that a device is unhealthy only if its node was removed; and, for   *)
(* Calm, that no token is left in a channel, that one handler at a time    *)
(* runs, and that the kubelet's list is the plugin's.                      *)
(***************************************************************************)
EXTENDS GenericDevicePlugin, FiniteSetTheorems, TLAPS

-----------------------------------------------------------------------------
(* The inductive invariant.                                                *)

\* The watcher reports exactly while its healthCheck reads it, or is about to.
WatcherInv ==
    /\ SocketPath \in watched <=> pc["hc"] \in {"adddev", "loop", "send"}
    /\ SocketPath \notin watched => watched = {} /\ events = <<>>

\* main is done with Start before there is a healthCheck; a server exists exactly
\* outside of Start and of the last step of Stop; once healthCheck has left its
\* loop the path is free until it listens again.
ServerInv ==
    /\ pc["main"] \in StartPC => pc["hc"] = "none"
    /\ pc["hc"] \in {"setup", "adddev", "loop", "send", "term", "stop", "clear"}
          => server # 0
    /\ \A t \in Threads : pc[t] \in {"cleanup", "listen"} => server = 0
    /\ \A t \in Threads : pc[t] = "register" => server # 0
    /\ \A t \in Threads : pc[t] = "listen" => sock = 0
    /\ server # 0 /\ sock # 0 => sock = server
    /\ pc["hc"] \in {"term", "stop", "clear", "cleanup", "listen"} => sock = 0
    /\ \A i \in 1..Len(events) : events[i].name = SocketPath => sock = 0

\* A server is owed for a path that is free and to a process that starts; a
\* kubelet that is down may yet free the path.
Owed == (IF sock = 0 \/ pc["main"] \in {"cleanup", "listen"} THEN 1 ELSE 0)
        + (IF kubelet = "down" THEN 1 ELSE 0)
BudgetInv == gen + Owed <= 1 + restarts + crashes

\* The stream is the current server's, and gone once that server is stopped.
StreamInv ==
    /\ StreamIsCurrent
    /\ pc["hc"] = "clear" => endpoint = 0

\* A removal that is reported, or on its way to a handler, has happened.
RemovalInv ==
    /\ UnhealthyIsJustified
    /\ \A i \in 1..Len(events) :
          events[i].name \in Devices /\ events[i].op = "Remove"
             => removals[events[i].name] > 0
    /\ pc["hc"] = "send" => msg.name \in Devices
    /\ pc["hc"] = "send" /\ msg.op = "Remove" => removals[msg.name] > 0

\* A handler has yet to come for the current server: it is not stopped and no
\* stream was opened to it.  A handler starts once per registration.
Expected == server = 0 \/ pc["hc"] \in {"stop", "clear"} \/ lw[server] = "none"
HandlerInv ==
    /\ IF Expected THEN Cardinality(Running) <= term ELSE Cardinality(Running) <= 1 + term
    /\ registered # 0 => lw[registered] = "none"
    /\ \A t \in Threads : pc[t] = "register" => lw[server] = "none" /\ registered # server
    /\ \A g \in Gens : g > gen => lw[g] = "none"

IInv == TypeOK /\ WatcherInv /\ ServerInv /\ BudgetInv /\ StreamInv /\ RemovalInv
        /\ HandlerInv

-----------------------------------------------------------------------------
\* An event has the name of a file that is watched and an operation.
LEMMA EventFields ==
    ASSUME NEW e \in Events
    PROVE  e.name \in Names /\ e.op \in {"Create", "Remove"}
BY DEF Events

\* A file name and an operation make an event.
LEMMA NewEvent ==
    ASSUME NEW n \in Names, NEW op \in {"Create", "Remove"}
    PROVE  [name |-> n, op |-> op] \in Events
BY DEF Events

\* The queue with one more report is a queue of events.
LEMMA ReportType ==
    ASSUME events \in Seq(Events), NEW n \in Names, NEW op \in {"Create", "Remove"}
    PROVE  Report(n, op) \in Seq(Events)
<1> DEFINE e == [name |-> n, op |-> op]
<1>1. e \in Events
  BY NewEvent
<1> HIDE DEF e
<1>2. Append(events, e) \in Seq(Events)
  BY <1>1
<1>3. QED
  BY <1>2 DEF Report, e

\* The queue after the socket file was removed is one, too.
LEMMA UnlinkType ==
    ASSUME events \in Seq(Events), SocketPath \in Names, Unlink
    PROVE  events' \in Seq(Events) /\ sock' = 0
BY ReportType DEF Unlink

\* The head of a queue is an event and what is left is a queue.
LEMMA QueueType ==
    ASSUME events \in Seq(Events), events # <<>>
    PROVE  Head(events) \in Events /\ Tail(events) \in Seq(Events)
OBVIOUS

\* Every step keeps the types.
LEMMA TypeInductive ==
    ASSUME TypeOK, [Next]_vars
    PROVE  TypeOK'
<1> USE NumDevicesAssumption, BoundsAssumption, MaxGenAssumption DEF TypeOK, Devices,
   Gens, Names, Threads, Health, StartPC, MainPC, HcPC, SocketPath, None, AllHealthy,
   NoMsg
<1>1. ASSUME NEW t \in Threads, StartCleanup(t) PROVE TypeOK'
  <2>1. CASE server # 0
    BY <1>1, <2>1 DEF StartCleanup, Cleanup, Goto, Failed, dpiVars, watchVars,
       kubeVars, envVars
  <2>2. CASE server = 0
    <3>1. events' \in Seq(Events) /\ sock' = 0
      BY <1>1, <2>2, UnlinkType DEF StartCleanup, Cleanup
    <3>2. QED
      BY <1>1, <2>2, <3>1 DEF StartCleanup, Cleanup, Goto, dpiVars, watchVars,
         kubeVars, envVars
  <2>3. QED
    BY <2>1, <2>2
<1>2. ASSUME NEW t \in Threads, Listen(t) PROVE TypeOK'
  <2>1. CASE sock # 0
    BY <1>2, <2>1 DEF Listen, Goto, Failed, dpiVars, watchVars, kubeVars, envVars
  <2>2. CASE sock = 0
    <3>1. events' \in Seq(Events)
      BY <1>2, <2>2, ReportType DEF Listen
    <3>2. QED
      BY <1>2, <2>2, <3>1 DEF Listen, Goto, dpiVars, watchVars, kubeVars, envVars
  <2>3. QED
    BY <2>1, <2>2
<1>3. ASSUME NEW t \in Threads, RegisterOK(t) PROVE TypeOK'
  BY <1>3 DEF RegisterOK, dpiVars, watchVars, kubeVars, envVars
<1>4. ASSUME NEW t \in Threads, RegisterFail(t) PROVE TypeOK'
  BY <1>4 DEF RegisterFail, Goto, Failed, dpiVars, watchVars, kubeVars, envVars
<1>5. ASSUME NEW t \in Threads, StartFault(t) PROVE TypeOK'
  BY <1>5 DEF StartFault, Goto, Failed, dpiVars, watchVars, kubeVars, envVars
<1>6. CASE Setup
  BY <1>6 DEF Setup, Goto, dpiVars, watchVars, kubeVars, envVars
<1>7. CASE AddDev
  <2>1. CASE next \in nodes
    <3>1. next' \in 1..(NumDevices + 1)
      BY <1>7, <2>1 DEF AddDev
    <3>2. watched' \in SUBSET Names
      BY <1>7, <2>1 DEF AddDev
    <3>3. QED
      BY <1>7, <2>1, <3>1, <3>2 DEF AddDev, Goto, dpiVars, watchVars, kubeVars, envVars
  <2>2. CASE next \notin nodes
    BY <1>7, <2>2 DEF AddDev, Goto, CloseWatcher, dpiVars, watchVars, kubeVars, envVars
  <2>3. QED
    BY <2>1, <2>2
<1>8. CASE SetupFault
  BY <1>8 DEF SetupFault, Goto, CloseWatcher, dpiVars, watchVars, kubeVars, envVars
<1>9. CASE DeviceEvent
  BY <1>9, QueueType DEF DeviceEvent, Goto, dpiVars, watchVars, kubeVars, envVars
<1>10. CASE SocketRemoved
  BY <1>10 DEF SocketRemoved, Restart, Goto, CloseWatcher, dpiVars, watchVars,
     kubeVars, envVars
<1>11. CASE StopTerm
  BY <1>11 DEF StopTerm, SignalTerm, Goto, Parked, CloseStream, dpiVars, watchVars,
     kubeVars, envVars
<1>12. CASE StopServer
  <2>1. events' \in Seq(Events) /\ sock' = 0
    BY <1>12, UnlinkType DEF StopServer
  <2>2. endpoint' \in 0..gen /\ view' \in [Devices -> Health \cup {"Absent"}]
    BY <1>12 DEF StopServer, CloseStream
  <2>3. QED
    BY <1>12, <2>1, <2>2 DEF StopServer, Goto, dpiVars, watchVars, kubeVars, envVars
<1>13. CASE StopClear
  BY <1>13, ReportType DEF StopClear, Cleanup, Goto, Unlink, dpiVars, watchVars,
     kubeVars, envVars
<1>14. ASSUME NEW g \in Gens, LWSend(g) PROVE TypeOK'
  BY <1>14 DEF LWSend, Sent, dpiVars, watchVars, kubeVars, envVars
<1>15. ASSUME NEW g \in Gens, LWReceive(g) PROVE TypeOK'
  BY <1>15 DEF LWReceive, Marked, Goto, Parked, dpiVars, watchVars, kubeVars, envVars
<1>16. ASSUME NEW g \in Gens, LWTakeTerm(g) PROVE TypeOK'
  BY <1>16 DEF LWTakeTerm, CloseStream, dpiVars, watchVars, kubeVars, envVars
<1>17. ASSUME NEW g \in Gens, LWPark(g) PROVE TypeOK'
  BY <1>17 DEF LWPark, Parked, dpiVars, watchVars, kubeVars, envVars
<1>18. CASE KubeletCrash
  BY <1>18 DEF KubeletCrash, Settled, dpiVars, watchVars, kubeVars, envVars
<1>19. CASE KubeletWipe
  BY <1>19, ReportType DEF KubeletWipe, Unlink, dpiVars, watchVars, kubeVars, envVars
<1>20. CASE KubeletServe
  BY <1>20 DEF KubeletServe, dpiVars, watchVars, kubeVars, envVars
<1>21. CASE KubeletDial
  BY <1>21 DEF KubeletDial, dpiVars, watchVars, kubeVars, envVars
<1>22. ASSUME NEW d \in Devices, NodeRemove(d) PROVE TypeOK'
  <2>1. events' \in Seq(Events)
    BY <1>22, ReportType DEF NodeRemove
  <2>2. /\ removals' \in [Devices -> 0..MaxRemovals]
        /\ nodes' \in SUBSET Devices
        /\ watched' \in SUBSET Names
    BY <1>22 DEF NodeRemove
  <2>3. QED
    BY <1>22, <2>1, <2>2 DEF NodeRemove, dpiVars, kubeVars
<1>23. ASSUME NEW d \in Devices, NodeCreate(d) PROVE TypeOK'
  BY <1>23, ReportType DEF NodeCreate, dpiVars, watchVars, kubeVars, envVars
<1>24. CASE ProcessCrash
  <2>1. msg' \in Events
    BY <1>24, NewEvent DEF ProcessCrash
  <2>2. lw' \in [Gens -> {"none", "send", "ready", "parked", "done"}]
    BY <1>24 DEF ProcessCrash, Alive
  <2>3. /\ pc' \in [Threads -> MainPC \cup HcPC]
        /\ pc'["main"] \in MainPC
        /\ pc'["hc"] \in HcPC
    BY <1>24 DEF ProcessCrash
  <2>4. health' \in [Devices -> Health] /\ view' \in [Devices -> Health \cup {"Absent"}]
    BY <1>24 DEF ProcessCrash
  <2>5. QED
    BY <1>24, <2>1, <2>2, <2>3, <2>4 DEF ProcessCrash, CloseWatcher
<1>25. CASE UNCHANGED vars
  BY <1>25 DEF vars, dpiVars, watchVars, kubeVars, envVars
<1>26. QED
  BY <1>1, <1>2, <1>3, <1>4, <1>5, <1>6, <1>7, <1>8, <1>9, <1>10, <1>11, <1>12, <1>13,
     <1>14, <1>15, <1>16, <1>17, <1>18, <1>19, <1>20, <1>21, <1>22, <1>23, <1>24, <1>25
     DEF Next, Start, Stop, healthCheck, ListAndWatch, Kubelet, Environment, Fault

\* Every step keeps the watcher open exactly while it is read.
LEMMA WatcherInductive ==
    ASSUME TypeOK, ServerInv, WatcherInv, [Next]_vars
    PROVE  WatcherInv'
<1> USE NumDevicesAssumption, BoundsAssumption, MaxGenAssumption DEF TypeOK, ServerInv,
   WatcherInv, Threads, Devices, Names, StartPC, MainPC, HcPC, SocketPath
<1>1. ASSUME NEW t \in Threads, StartCleanup(t) PROVE WatcherInv'
  BY <1>1 DEF StartCleanup, Cleanup, Goto, Failed, Unlink, Report, dpiVars, watchVars,
     kubeVars, envVars
<1>2. ASSUME NEW t \in Threads, Listen(t) PROVE WatcherInv'
  BY <1>2 DEF Listen, Goto, Failed, Report, dpiVars, watchVars, kubeVars, envVars
<1>3. ASSUME NEW t \in Threads, RegisterOK(t) PROVE WatcherInv'
  BY <1>3 DEF RegisterOK, dpiVars, watchVars, kubeVars, envVars
<1>4. ASSUME NEW t \in Threads, RegisterFail(t) PROVE WatcherInv'
  BY <1>4 DEF RegisterFail, Goto, Failed, dpiVars, watchVars, kubeVars, envVars
<1>5. ASSUME NEW t \in Threads, StartFault(t) PROVE WatcherInv'
  BY <1>5 DEF StartFault, Goto, Failed, dpiVars, watchVars, kubeVars, envVars
<1>6. CASE Setup
  BY <1>6 DEF Setup, Goto, dpiVars, watchVars, kubeVars, envVars
<1>7. CASE AddDev
  BY <1>7 DEF AddDev, Goto, CloseWatcher, dpiVars, watchVars, kubeVars, envVars
<1>8. CASE SetupFault
  BY <1>8 DEF SetupFault, Goto, CloseWatcher, dpiVars, watchVars, kubeVars, envVars
<1>9. CASE DeviceEvent
  BY <1>9 DEF DeviceEvent, Goto, dpiVars, watchVars, kubeVars, envVars
<1>10. CASE SocketRemoved
  BY <1>10 DEF SocketRemoved, Restart, Goto, CloseWatcher, dpiVars, watchVars,
     kubeVars, envVars
<1>11. CASE StopTerm
  BY <1>11 DEF StopTerm, SignalTerm, Goto, Parked, CloseStream, dpiVars, watchVars,
     kubeVars, envVars
<1>12. CASE StopServer
  BY <1>12 DEF StopServer, Goto, Unlink, Report, CloseStream, dpiVars, watchVars,
     kubeVars, envVars
<1>13. CASE StopClear
  BY <1>13 DEF StopClear, Cleanup, Goto, Unlink, Report, dpiVars, watchVars, kubeVars,
     envVars
<1>14. ASSUME NEW g \in Gens, LWSend(g) PROVE WatcherInv'
  BY <1>14 DEF LWSend, Sent, dpiVars, watchVars, kubeVars, envVars
<1>15. ASSUME NEW g \in Gens, LWReceive(g) PROVE WatcherInv'
  BY <1>15 DEF LWReceive, Marked, Goto, Parked, dpiVars, watchVars, kubeVars, envVars
<1>16. ASSUME NEW g \in Gens, LWTakeTerm(g) PROVE WatcherInv'
  BY <1>16 DEF LWTakeTerm, CloseStream, dpiVars, watchVars, kubeVars, envVars
<1>17. ASSUME NEW g \in Gens, LWPark(g) PROVE WatcherInv'
  BY <1>17 DEF LWPark, Parked, dpiVars, watchVars, kubeVars, envVars
<1>18. CASE KubeletCrash
  BY <1>18 DEF KubeletCrash, Settled, dpiVars, watchVars, kubeVars, envVars
<1>19. CASE KubeletWipe
  BY <1>19 DEF KubeletWipe, Unlink, Report, dpiVars, watchVars, kubeVars, envVars
<1>20. CASE KubeletServe
  BY <1>20 DEF KubeletServe, dpiVars, watchVars, kubeVars, envVars
<1>21. CASE KubeletDial
  BY <1>21 DEF KubeletDial, dpiVars, watchVars, kubeVars, envVars
<1>22. ASSUME NEW d \in Devices, NodeRemove(d) PROVE WatcherInv'
  BY <1>22 DEF NodeRemove, Report, dpiVars, watchVars, kubeVars, envVars
<1>23. ASSUME NEW d \in Devices, NodeCreate(d) PROVE WatcherInv'
  BY <1>23 DEF NodeCreate, Report, dpiVars, watchVars, kubeVars, envVars
<1>24. CASE ProcessCrash
  BY <1>24 DEF ProcessCrash, CloseWatcher, Alive, dpiVars, watchVars, kubeVars, envVars
<1>25. CASE UNCHANGED vars
  BY <1>25 DEF vars, dpiVars, watchVars, kubeVars, envVars
<1>26. QED
  BY <1>1, <1>2, <1>3, <1>4, <1>5, <1>6, <1>7, <1>8, <1>9, <1>10, <1>11, <1>12, <1>13,
     <1>14, <1>15, <1>16, <1>17, <1>18, <1>19, <1>20, <1>21, <1>22, <1>23, <1>24, <1>25
     DEF Next, Start, Stop, healthCheck, ListAndWatch, Kubelet, Environment, Fault

\* Every step keeps the server, its file and the threads in step.
LEMMA ServerInductive ==
    ASSUME TypeOK, WatcherInv, ServerInv, [Next]_vars
    PROVE  ServerInv'
<1> USE NumDevicesAssumption, BoundsAssumption, MaxGenAssumption DEF TypeOK, WatcherInv,
   ServerInv, Threads, Devices, Names, StartPC, MainPC, HcPC, SocketPath
<1>1. ASSUME NEW t \in Threads, StartCleanup(t) PROVE ServerInv'
  BY <1>1 DEF StartCleanup, Cleanup, Goto, Failed, Unlink, Report, dpiVars, watchVars,
     kubeVars, envVars
<1>2. ASSUME NEW t \in Threads, Listen(t) PROVE ServerInv'
  BY <1>2 DEF Listen, Goto, Failed, Report, dpiVars, watchVars, kubeVars, envVars
<1>3. ASSUME NEW t \in Threads, RegisterOK(t) PROVE ServerInv'
  BY <1>3 DEF RegisterOK, dpiVars, watchVars, kubeVars, envVars
<1>4. ASSUME NEW t \in Threads, RegisterFail(t) PROVE ServerInv'
  BY <1>4 DEF RegisterFail, Goto, Failed, dpiVars, watchVars, kubeVars, envVars
<1>5. ASSUME NEW t \in Threads, StartFault(t) PROVE ServerInv'
  BY <1>5 DEF StartFault, Goto, Failed, dpiVars, watchVars, kubeVars, envVars
<1>6. CASE Setup
  BY <1>6 DEF Setup, Goto, dpiVars, watchVars, kubeVars, envVars
<1>7. CASE AddDev
  BY <1>7 DEF AddDev, Goto, CloseWatcher, dpiVars, watchVars, kubeVars, envVars
<1>8. CASE SetupFault
  BY <1>8 DEF SetupFault, Goto, CloseWatcher, dpiVars, watchVars, kubeVars, envVars
<1>9. CASE DeviceEvent
  BY <1>9 DEF DeviceEvent, Goto, dpiVars, watchVars, kubeVars, envVars
<1>10. CASE SocketRemoved
  BY <1>10 DEF SocketRemoved, Restart, Goto, CloseWatcher, dpiVars, watchVars,
     kubeVars, envVars
<1>11. CASE StopTerm
  BY <1>11 DEF StopTerm, SignalTerm, Goto, Parked, CloseStream, dpiVars, watchVars,
     kubeVars, envVars
<1>12. CASE StopServer
  BY <1>12 DEF StopServer, Goto, Unlink, Report, CloseStream, dpiVars, watchVars,
     kubeVars, envVars
<1>13. CASE StopClear
  BY <1>13 DEF StopClear, Cleanup, Goto, Unlink, Report, dpiVars, watchVars, kubeVars,
     envVars
<1>14. ASSUME NEW g \in Gens, LWSend(g) PROVE ServerInv'
  BY <1>14 DEF LWSend, Sent, dpiVars, watchVars, kubeVars, envVars
<1>15. ASSUME NEW g \in Gens, LWReceive(g) PROVE ServerInv'
  BY <1>15 DEF LWReceive, Marked, Goto, Parked, dpiVars, watchVars, kubeVars, envVars
<1>16. ASSUME NEW g \in Gens, LWTakeTerm(g) PROVE ServerInv'
  BY <1>16 DEF LWTakeTerm, CloseStream, dpiVars, watchVars, kubeVars, envVars
<1>17. ASSUME NEW g \in Gens, LWPark(g) PROVE ServerInv'
  BY <1>17 DEF LWPark, Parked, dpiVars, watchVars, kubeVars, envVars
<1>18. CASE KubeletCrash
  BY <1>18 DEF KubeletCrash, Settled, dpiVars, watchVars, kubeVars, envVars
<1>19. CASE KubeletWipe
  BY <1>19 DEF KubeletWipe, Unlink, Report, dpiVars, watchVars, kubeVars, envVars
<1>20. CASE KubeletServe
  BY <1>20 DEF KubeletServe, dpiVars, watchVars, kubeVars, envVars
<1>21. CASE KubeletDial
  BY <1>21 DEF KubeletDial, dpiVars, watchVars, kubeVars, envVars
<1>22. ASSUME NEW d \in Devices, NodeRemove(d) PROVE ServerInv'
  BY <1>22 DEF NodeRemove, Report, dpiVars, watchVars, kubeVars, envVars
<1>23. ASSUME NEW d \in Devices, NodeCreate(d) PROVE ServerInv'
  BY <1>23 DEF NodeCreate, Report, dpiVars, watchVars, kubeVars, envVars
<1>24. CASE ProcessCrash
  BY <1>24 DEF ProcessCrash, CloseWatcher, Alive, dpiVars, watchVars, kubeVars, envVars
<1>25. CASE UNCHANGED vars
  BY <1>25 DEF vars, dpiVars, watchVars, kubeVars, envVars
<1>26. QED
  BY <1>1, <1>2, <1>3, <1>4, <1>5, <1>6, <1>7, <1>8, <1>9, <1>10, <1>11, <1>12, <1>13,
     <1>14, <1>15, <1>16, <1>17, <1>18, <1>19, <1>20, <1>21, <1>22, <1>23, <1>24, <1>25
     DEF Next, Start, Stop, healthCheck, ListAndWatch, Kubelet, Environment, Fault

\* Every step stays within the budget of servers.
LEMMA BudgetInductive ==
    ASSUME TypeOK, WatcherInv, ServerInv, BudgetInv, [Next]_vars
    PROVE  BudgetInv'
<1> USE NumDevicesAssumption, BoundsAssumption, MaxGenAssumption DEF TypeOK, WatcherInv,
   ServerInv, BudgetInv, Owed, Threads, StartPC, MainPC, HcPC, SocketPath
<1>1. ASSUME NEW t \in Threads, StartCleanup(t) PROVE BudgetInv'
  BY <1>1 DEF StartCleanup, Cleanup, Goto, Failed, Unlink, Report, dpiVars, watchVars,
     kubeVars, envVars
<1>2. ASSUME NEW t \in Threads, Listen(t) PROVE BudgetInv'
  BY <1>2 DEF Listen, Goto, Failed, Report, dpiVars, watchVars, kubeVars, envVars
<1>3. ASSUME NEW t \in Threads, RegisterOK(t) PROVE BudgetInv'
  BY <1>3 DEF RegisterOK, dpiVars, watchVars, kubeVars, envVars
<1>4. ASSUME NEW t \in Threads, RegisterFail(t) PROVE BudgetInv'
  BY <1>4 DEF RegisterFail, Goto, Failed, dpiVars, watchVars, kubeVars, envVars
<1>5. ASSUME NEW t \in Threads, StartFault(t) PROVE BudgetInv'
  BY <1>5 DEF StartFault, Goto, Failed, dpiVars, watchVars, kubeVars, envVars
<1>6. CASE Setup
  BY <1>6 DEF Setup, Goto, dpiVars, watchVars, kubeVars, envVars
<1>7. CASE AddDev
  BY <1>7 DEF AddDev, Goto, CloseWatcher, dpiVars, watchVars, kubeVars, envVars
<1>8. CASE SetupFault
  BY <1>8 DEF SetupFault, Goto, CloseWatcher, dpiVars, watchVars, kubeVars, envVars
<1>9. CASE DeviceEvent
  BY <1>9 DEF DeviceEvent, Goto, dpiVars, watchVars, kubeVars, envVars
<1>10. CASE SocketRemoved
  BY <1>10 DEF SocketRemoved, Restart, Goto, CloseWatcher, dpiVars, watchVars,
     kubeVars, envVars
<1>11. CASE StopTerm
  BY <1>11 DEF StopTerm, SignalTerm, Goto, Parked, CloseStream, dpiVars, watchVars,
     kubeVars, envVars
<1>12. CASE StopServer
  BY <1>12 DEF StopServer, Goto, Unlink, Report, CloseStream, dpiVars, watchVars,
     kubeVars, envVars
<1>13. CASE StopClear
  BY <1>13 DEF StopClear, Cleanup, Goto, Unlink, Report, dpiVars, watchVars, kubeVars,
     envVars
<1>14. ASSUME NEW g \in Gens, LWSend(g) PROVE BudgetInv'
  BY <1>14 DEF LWSend, Sent, dpiVars, watchVars, kubeVars, envVars
<1>15. ASSUME NEW g \in Gens, LWReceive(g) PROVE BudgetInv'
  BY <1>15 DEF LWReceive, Marked, Goto, Parked, dpiVars, watchVars, kubeVars, envVars
<1>16. ASSUME NEW g \in Gens, LWTakeTerm(g) PROVE BudgetInv'
  BY <1>16 DEF LWTakeTerm, CloseStream, dpiVars, watchVars, kubeVars, envVars
<1>17. ASSUME NEW g \in Gens, LWPark(g) PROVE BudgetInv'
  BY <1>17 DEF LWPark, Parked, dpiVars, watchVars, kubeVars, envVars
<1>18. CASE KubeletCrash
  BY <1>18 DEF KubeletCrash, Settled, dpiVars, watchVars, kubeVars, envVars
<1>19. CASE KubeletWipe
  BY <1>19 DEF KubeletWipe, Unlink, Report, dpiVars, watchVars, kubeVars, envVars
<1>20. CASE KubeletServe
  BY <1>20 DEF KubeletServe, dpiVars, watchVars, kubeVars, envVars
<1>21. CASE KubeletDial
  BY <1>21 DEF KubeletDial, dpiVars, watchVars, kubeVars, envVars
<1>22. ASSUME NEW d \in Devices, NodeRemove(d) PROVE BudgetInv'
  BY <1>22 DEF NodeRemove, Report, dpiVars, watchVars, kubeVars, envVars
<1>23. ASSUME NEW d \in Devices, NodeCreate(d) PROVE BudgetInv'
  BY <1>23 DEF NodeCreate, Report, dpiVars, watchVars, kubeVars, envVars
<1>24. CASE ProcessCrash
  BY <1>24 DEF ProcessCrash, CloseWatcher, Alive, dpiVars, watchVars, kubeVars, envVars
<1>25. CASE UNCHANGED vars
  BY <1>25 DEF vars, dpiVars, watchVars, kubeVars, envVars
<1>26. QED
  BY <1>1, <1>2, <1>3, <1>4, <1>5, <1>6, <1>7, <1>8, <1>9, <1>10, <1>11, <1>12, <1>13,
     <1>14, <1>15, <1>16, <1>17, <1>18, <1>19, <1>20, <1>21, <1>22, <1>23, <1>24, <1>25
     DEF Next, Start, Stop, healthCheck, ListAndWatch, Kubelet, Environment, Fault

\* Every step keeps the stream with the current server.
LEMMA StreamInductive ==
    ASSUME TypeOK, TypeOK', ServerInv, StreamInv, [Next]_vars
    PROVE  StreamInv'
<1> USE NumDevicesAssumption, BoundsAssumption, MaxGenAssumption DEF TypeOK, ServerInv,
   StreamInv, StreamIsCurrent, Alive, Gens, Threads, StartPC, MainPC, HcPC
<1>1. ASSUME NEW t \in Threads, StartCleanup(t) PROVE StreamInv'
  BY <1>1 DEF StartCleanup, Cleanup, Goto, Failed, Unlink, Report, dpiVars, watchVars,
     kubeVars, envVars
<1>2. ASSUME NEW t \in Threads, Listen(t) PROVE StreamInv'
  BY <1>2 DEF Listen, Goto, Failed, Report, dpiVars, watchVars, kubeVars, envVars
<1>3. ASSUME NEW t \in Threads, RegisterOK(t) PROVE StreamInv'
  BY <1>3 DEF RegisterOK, dpiVars, watchVars, kubeVars, envVars
<1>4. ASSUME NEW t \in Threads, RegisterFail(t) PROVE StreamInv'
  BY <1>4 DEF RegisterFail, Goto, Failed, dpiVars, watchVars, kubeVars, envVars
<1>5. ASSUME NEW t \in Threads, StartFault(t) PROVE StreamInv'
  BY <1>5 DEF StartFault, Goto, Failed, dpiVars, watchVars, kubeVars, envVars
<1>6. CASE Setup
  BY <1>6 DEF Setup, Goto, dpiVars, watchVars, kubeVars, envVars
<1>7. CASE AddDev
  BY <1>7 DEF AddDev, Goto, CloseWatcher, dpiVars, watchVars, kubeVars, envVars
<1>8. CASE SetupFault
  BY <1>8 DEF SetupFault, Goto, CloseWatcher, dpiVars, watchVars, kubeVars, envVars
<1>9. CASE DeviceEvent
  BY <1>9 DEF DeviceEvent, Goto, dpiVars, watchVars, kubeVars, envVars
<1>10. CASE SocketRemoved
  BY <1>10 DEF SocketRemoved, Restart, Goto, CloseWatcher, dpiVars, watchVars,
     kubeVars, envVars
<1>11. CASE StopTerm
  BY <1>11 DEF StopTerm, SignalTerm, Goto, Parked, CloseStream, dpiVars, watchVars,
     kubeVars, envVars
<1>12. CASE StopServer
  BY <1>12 DEF StopServer, Goto, Unlink, Report, CloseStream, dpiVars, watchVars,
     kubeVars, envVars
<1>13. CASE StopClear
  BY <1>13 DEF StopClear, Cleanup, Goto, Unlink, Report, dpiVars, watchVars, kubeVars,
     envVars
<1>14. ASSUME NEW g \in Gens, LWSend(g) PROVE StreamInv'
  BY <1>14 DEF LWSend, Sent, dpiVars, watchVars, kubeVars, envVars
<1>15. ASSUME NEW g \in Gens, LWReceive(g) PROVE StreamInv'
  BY <1>15 DEF LWReceive, Marked, Goto, Parked, dpiVars, watchVars, kubeVars, envVars
<1>16. ASSUME NEW g \in Gens, LWTakeTerm(g) PROVE StreamInv'
  BY <1>16 DEF LWTakeTerm, CloseStream, dpiVars, watchVars, kubeVars, envVars
<1>17. ASSUME NEW g \in Gens, LWPark(g) PROVE StreamInv'
  BY <1>17 DEF LWPark, Parked, dpiVars, watchVars, kubeVars, envVars
<1>18. CASE KubeletCrash
  BY <1>18 DEF KubeletCrash, Settled, dpiVars, watchVars, kubeVars, envVars
<1>19. CASE KubeletWipe
  BY <1>19 DEF KubeletWipe, Unlink, Report, dpiVars, watchVars, kubeVars, envVars
<1>20. CASE KubeletServe
  BY <1>20 DEF KubeletServe, dpiVars, watchVars, kubeVars, envVars
<1>21. CASE KubeletDial
  BY <1>21 DEF KubeletDial, dpiVars, watchVars, kubeVars, envVars
<1>22. ASSUME NEW d \in Devices, NodeRemove(d) PROVE StreamInv'
  BY <1>22 DEF NodeRemove, Report, dpiVars, watchVars, kubeVars, envVars
<1>23. ASSUME NEW d \in Devices, NodeCreate(d) PROVE StreamInv'
  BY <1>23 DEF NodeCreate, Report, dpiVars, watchVars, kubeVars, envVars
<1>24. CASE ProcessCrash
  BY <1>24 DEF ProcessCrash, CloseWatcher, Alive, dpiVars, watchVars, kubeVars, envVars
<1>25. CASE UNCHANGED vars
  BY <1>25 DEF vars, dpiVars, watchVars, kubeVars, envVars
<1>26. QED
  BY <1>1, <1>2, <1>3, <1>4, <1>5, <1>6, <1>7, <1>8, <1>9, <1>10, <1>11, <1>12, <1>13,
     <1>14, <1>15, <1>16, <1>17, <1>18, <1>19, <1>20, <1>21, <1>22, <1>23, <1>24, <1>25
     DEF Next, Start, Stop, healthCheck, ListAndWatch, Kubelet, Environment, Fault

\* Every step keeps removals and their reports in step.
LEMMA RemovalInductive ==
    ASSUME TypeOK, TypeOK', WatcherInv, ServerInv, RemovalInv, [Next]_vars
    PROVE  RemovalInv'
<1> USE NumDevicesAssumption, BoundsAssumption, MaxGenAssumption DEF TypeOK, WatcherInv,
   RemovalInv, UnhealthyIsJustified, Devices, Health, Threads, StartPC, MainPC, HcPC,
   SocketPath, Names, AllHealthy, NoMsg
<1>1. ASSUME NEW t \in Threads, StartCleanup(t) PROVE RemovalInv'
  <2>1. SocketPath \notin watched
    BY <1>1 DEF StartCleanup, Cleanup, ServerInv
  <2>2. events' = events
    BY <1>1, <2>1 DEF StartCleanup, Cleanup, Unlink, Report
  <2>3. QED
    BY <1>1, <2>2 DEF StartCleanup, Cleanup, Goto, Failed, dpiVars, watchVars,
       kubeVars, envVars
<1>2. ASSUME NEW t \in Threads, Listen(t) PROVE RemovalInv'
  <2>1. SocketPath \notin watched
    BY <1>2 DEF Listen, ServerInv
  <2>2. events' = events
    BY <1>2, <2>1 DEF Listen, Report
  <2>3. QED
    BY <1>2, <2>2 DEF Listen, Goto, Failed, dpiVars, watchVars, kubeVars, envVars
<1>3. ASSUME NEW t \in Threads, RegisterOK(t) PROVE RemovalInv'
  BY <1>3 DEF RegisterOK, dpiVars, watchVars, kubeVars, envVars
<1>4. ASSUME NEW t \in Threads, RegisterFail(t) PROVE RemovalInv'
  BY <1>4 DEF RegisterFail, Goto, Failed, dpiVars, watchVars, kubeVars, envVars
<1>5. ASSUME NEW t \in Threads, StartFault(t) PROVE RemovalInv'
  BY <1>5 DEF StartFault, Goto, Failed, dpiVars, watchVars, kubeVars, envVars
<1>6. CASE Setup
  BY <1>6 DEF Setup, Goto, dpiVars, watchVars, kubeVars, envVars
<1>7. CASE AddDev
  <2>1. UNCHANGED <<health, removals, msg>> /\ pc'["hc"] # "send"
    BY <1>7 DEF AddDev, Goto, dpiVars, envVars
  <2>2. events' = events \/ events' = <<>>
    BY <1>7 DEF AddDev, CloseWatcher
  <2>3. CASE events' = events
    BY <2>1, <2>3
  <2>4. CASE events' = <<>>
    BY <2>1, <2>4
  <2>5. QED
    BY <2>2, <2>3, <2>4
<1>8. CASE SetupFault
  BY <1>8 DEF SetupFault, Goto, CloseWatcher, dpiVars, watchVars, kubeVars, envVars
<1>9. CASE DeviceEvent
  BY <1>9 DEF DeviceEvent, Goto, dpiVars, watchVars, kubeVars, envVars
<1>10. CASE SocketRemoved
  BY <1>10 DEF SocketRemoved, Restart, Goto, CloseWatcher, dpiVars, watchVars,
     kubeVars, envVars
<1>11. CASE StopTerm
  BY <1>11 DEF StopTerm, SignalTerm, Goto, Parked, CloseStream, dpiVars, watchVars,
     kubeVars, envVars
<1>12. CASE StopServer
  BY <1>12 DEF StopServer, Goto, Unlink, Report, CloseStream, dpiVars, watchVars,
     kubeVars, envVars
<1>13. CASE StopClear
  BY <1>13 DEF StopClear, Cleanup, Goto, Unlink, Report, dpiVars, watchVars, kubeVars,
     envVars
<1>14. ASSUME NEW g \in Gens, LWSend(g) PROVE RemovalInv'
  BY <1>14 DEF LWSend, Sent, dpiVars, watchVars, kubeVars, envVars
<1>15. ASSUME NEW g \in Gens, LWReceive(g) PROVE RemovalInv'
  <2>1. UNCHANGED <<removals, msg, events>> /\ pc'["hc"] # "send"
    BY <1>15 DEF LWReceive, Marked, Goto, watchVars, envVars
  <2>2. ASSUME NEW d \in Devices, health'[d] = "Unhealthy" PROVE removals[d] > 0
    <3>1. CASE d = msg.name
      BY <1>15, <2>2, <3>1, EventFields DEF LWReceive, Marked
    <3>2. CASE d # msg.name
      BY <1>15, <2>2, <3>2 DEF LWReceive, Marked
    <3>3. QED
      BY <3>1, <3>2
  <2>3. QED
    BY <2>1, <2>2
<1>16. ASSUME NEW g \in Gens, LWTakeTerm(g) PROVE RemovalInv'
  BY <1>16 DEF LWTakeTerm, CloseStream, dpiVars, watchVars, kubeVars, envVars
<1>17. ASSUME NEW g \in Gens, LWPark(g) PROVE RemovalInv'
  BY <1>17 DEF LWPark, Parked, dpiVars, watchVars, kubeVars, envVars
<1>18. CASE KubeletCrash
  BY <1>18 DEF KubeletCrash, Settled, dpiVars, watchVars, kubeVars, envVars
<1>19. CASE KubeletWipe
  BY <1>19 DEF KubeletWipe, Unlink, Report, dpiVars, watchVars, kubeVars, envVars
<1>20. CASE KubeletServe
  BY <1>20 DEF KubeletServe, dpiVars, watchVars, kubeVars, envVars
<1>21. CASE KubeletDial
  BY <1>21 DEF KubeletDial, dpiVars, watchVars, kubeVars, envVars
<1>22. ASSUME NEW d \in Devices, NodeRemove(d) PROVE RemovalInv'
  BY <1>22 DEF NodeRemove, Report, dpiVars, watchVars, kubeVars, envVars
<1>23. ASSUME NEW d \in Devices, NodeCreate(d) PROVE RemovalInv'
  BY <1>23 DEF NodeCreate, Report, dpiVars, watchVars, kubeVars, envVars
<1>24. CASE ProcessCrash
  BY <1>24 DEF ProcessCrash, CloseWatcher, Alive, dpiVars, watchVars, kubeVars, envVars
<1>25. CASE UNCHANGED vars
  BY <1>25 DEF vars, dpiVars, watchVars, kubeVars, envVars
<1>26. QED
  BY <1>1, <1>2, <1>3, <1>4, <1>5, <1>6, <1>7, <1>8, <1>9, <1>10, <1>11, <1>12, <1>13,
     <1>14, <1>15, <1>16, <1>17, <1>18, <1>19, <1>20, <1>21, <1>22, <1>23, <1>24, <1>25
     DEF Next, Start, Stop, healthCheck, ListAndWatch, Kubelet, Environment, Fault

\* The handlers that run can be counted: there are no more than generations.
LEMMA RunningIsFinite == IsFiniteSet(Running) /\ Cardinality(Running) \in Nat
<1>1. IsFiniteSet(Gens)
  BY FS_Interval, MaxGenAssumption DEF Gens
<1>2. QED
  BY <1>1, FS_Subset, FS_CardinalityType DEF Running

\* The balance of handlers and tokens, as one bound for every state of Stop.
LEMMA HandlersBounded ==
    ASSUME TypeOK, HandlerInv
    PROVE  Cardinality(Running) <= 1 + term
BY RunningIsFinite DEF TypeOK, HandlerInv

\* A handler that returns leaves one less that runs.
LEMMA HandlerEnds ==
    ASSUME TypeOK, HandlerInv, NEW g \in Gens, Alive(g), lw' = [lw EXCEPT ![g] = "done"]
    PROVE  /\ Cardinality(Running') = Cardinality(Running) - 1
           /\ Cardinality(Running') <= term
<1>1. Running' = Running \ {g} /\ g \in Running
  BY DEF Running, Alive, TypeOK
<1>2. Cardinality(Running') = Cardinality(Running) - 1
  BY <1>1, RunningIsFinite, FS_RemoveElement
<1>3. term \in Int
  BY DEF TypeOK
<1>4. QED
  BY <1>2, <1>3, HandlersBounded, RunningIsFinite

\* A handler of a generation that had none is one more that runs.
LEMMA HandlerStarts ==
    ASSUME TypeOK, NEW g \in Gens, lw' = [lw EXCEPT ![g] = "send"],
           Cardinality(Running) <= term
    PROVE  Cardinality(Running') <= 1 + term
<1>1. Running' = Running \cup {g}
  BY DEF Running, Alive, TypeOK
<1>2. Cardinality(Running') = IF g \in Running THEN Cardinality(Running) ELSE Cardinality(Running) + 1
  BY <1>1, RunningIsFinite, FS_AddElement
<1>3. term \in Int
  BY DEF TypeOK
<1>4. QED
  BY <1>2, <1>3, RunningIsFinite

\* The handlers of a process that died do not run.
LEMMA NoHandlers == ASSUME Running' = {} PROVE Cardinality(Running') = 0
BY FS_EmptySet

\* Every step keeps the handlers and the tokens in balance.
LEMMA HandlerInductive ==
    ASSUME TypeOK, TypeOK', ServerInv, HandlerInv, [Next]_vars
    PROVE  HandlerInv'
<1> USE NumDevicesAssumption, BoundsAssumption, MaxGenAssumption DEF TypeOK, HandlerInv,
   Expected, Gens, Threads, StartPC, MainPC, HcPC
<1>1. ASSUME NEW t \in Threads, StartCleanup(t) PROVE HandlerInv'
  BY <1>1 DEF Running, Alive, StartCleanup, Cleanup, Goto, Failed, Unlink, Report,
     dpiVars, watchVars, kubeVars, envVars
<1>2. ASSUME NEW t \in Threads, Listen(t) PROVE HandlerInv'
  <2>1. Running' = Running
    BY <1>2 DEF Running, Alive, Listen
  <2>2. CASE sock # 0
    BY <1>2, <2>1, <2>2 DEF Listen, Goto, Failed, kubeVars, ServerInv
  <2>3. CASE sock = 0
    <3>1. server = 0 /\ server' = gen + 1 /\ gen' = gen + 1 /\ server' \in Gens
      BY <1>2, <2>3 DEF Listen, ServerInv, TypeOK
    <3>2. lw' = lw /\ lw[server'] = "none" /\ registered' = registered /\ term' = term
      BY <1>2, <3>1 DEF Listen, kubeVars, TypeOK
    <3>3. registered # server'
      BY <3>1 DEF TypeOK
    <3>4. \A u \in Threads : pc'[u] = "register" => lw'[server'] = "none" /\ registered' # server'
      BY <3>2, <3>3
    <3>5. Cardinality(Running) <= term
      BY <3>1
    <3>6. \A g \in Gens : g > gen' => lw'[g] = "none"
      BY <3>1, <3>2 DEF TypeOK
    <3>7. QED
      BY <2>1, <3>2, <3>4, <3>5, <3>6
  <2>4. QED
    BY <2>2, <2>3
<1>3. ASSUME NEW t \in Threads, RegisterOK(t) PROVE HandlerInv'
  BY <1>3 DEF Running, Alive, RegisterOK, dpiVars, watchVars, kubeVars, envVars
<1>4. ASSUME NEW t \in Threads, RegisterFail(t) PROVE HandlerInv'
  BY <1>4 DEF Running, Alive, RegisterFail, Goto, Failed, dpiVars, watchVars, kubeVars,
     envVars
<1>5. ASSUME NEW t \in Threads, StartFault(t) PROVE HandlerInv'
  BY <1>5 DEF Running, Alive, StartFault, Goto, Failed, dpiVars, watchVars, kubeVars,
     envVars
<1>6. CASE Setup
  BY <1>6 DEF Running, Alive, Setup, Goto, dpiVars, watchVars, kubeVars, envVars
<1>7. CASE AddDev
  BY <1>7 DEF Running, Alive, AddDev, Goto, CloseWatcher, dpiVars, watchVars, kubeVars,
     envVars
<1>8. CASE SetupFault
  BY <1>8 DEF Running, Alive, SetupFault, Goto, CloseWatcher, dpiVars, watchVars,
     kubeVars,
     envVars
<1>9. CASE DeviceEvent
  BY <1>9 DEF Running, Alive, DeviceEvent, Goto, dpiVars, watchVars, kubeVars, envVars
<1>10. CASE SocketRemoved
  BY <1>10 DEF Running, Alive, SocketRemoved, Restart, Goto, CloseWatcher, dpiVars,
     watchVars, kubeVars, envVars
<1>11. CASE StopTerm
  <2>1. Expected' /\ pc'["main"] = pc["main"] /\ pc'["hc"] = "stop"
    BY <1>11 DEF StopTerm, SignalTerm, Goto, TypeOK
  <2>2. pc["main"] # "register"
    BY <1>11 DEF StopTerm, SignalTerm, ServerInv
  <2>3. CASE Parked = {}
    <3>1. term = 0 /\ term' = 1 /\ lw' = lw
      BY <1>11, <2>3 DEF StopTerm, SignalTerm
    <3>2. Running' = Running
      BY <3>1 DEF Running, Alive
    <3>3. QED
      BY <1>11, <2>1, <2>2, <3>1, <3>2, RunningIsFinite DEF StopTerm, SignalTerm
  <2>4. CASE Parked # {}
    <3>1. PICK g \in Parked : lw' = [lw EXCEPT ![g] = "done"]
      BY <1>11, <2>4 DEF StopTerm, SignalTerm
    <3>2. g \in Gens /\ Alive(g) /\ term' = term
      BY <1>11, <2>4 DEF StopTerm, SignalTerm, Parked, Alive
    <3>3. Cardinality(Running') <= term
      BY <3>1, <3>2, HandlerEnds
    <3>4. \A h \in Gens : lw[h] = "none" => lw'[h] = "none"
      BY <3>1, <3>2 DEF Parked, TypeOK
    <3>5. Cardinality(Running') <= term'
      BY <3>2, <3>3
    <3>6. registered' = registered /\ gen' = gen
      BY <1>11 DEF StopTerm, SignalTerm
    <3>7. QED
      BY <2>1, <2>2, <3>4, <3>5, <3>6 DEF TypeOK
  <2>5. QED
    BY <2>3, <2>4
<1>12. CASE StopServer
  <2>1. Running' = Running
    BY <1>12 DEF Running, Alive, StopServer
  <2>2. Expected' /\ Expected
    BY <1>12 DEF StopServer, Goto, TypeOK
  <2>3. QED
    BY <1>12, <2>1, <2>2 DEF StopServer, Goto, dpiVars
<1>13. CASE StopClear
  <2>1. Running' = Running
    BY <1>13 DEF Running, Alive, StopClear, Cleanup
  <2>2. Expected' /\ Expected
    BY <1>13 DEF StopClear, Cleanup
  <2>3. \A t \in Threads : pc'[t] # "register"
    BY <1>13 DEF StopClear, Cleanup, Goto, ServerInv
  <2>4. QED
    BY <1>13, <2>1, <2>2, <2>3 DEF StopClear, Cleanup, kubeVars
<1>14. ASSUME NEW g \in Gens, LWSend(g) PROVE HandlerInv'
  <2>1. Running' = Running
    BY <1>14 DEF Running, Alive, LWSend, Sent
  <2>2. QED
    BY <1>14, <2>1 DEF LWSend, Sent, dpiVars, watchVars, kubeVars, envVars
<1>15. ASSUME NEW g \in Gens, LWReceive(g) PROVE HandlerInv'
  <2>1. Running' = Running
    BY <1>15 DEF Running, Alive, LWReceive, Marked, Goto, Parked
  <2>2. QED
    BY <1>15, <2>1 DEF LWReceive, Marked, Goto, Parked, dpiVars, watchVars, kubeVars,
       envVars
<1>16. ASSUME NEW g \in Gens, LWTakeTerm(g) PROVE HandlerInv'
  <2>1. Cardinality(Running') = Cardinality(Running) - 1
    BY <1>16, HandlerEnds DEF LWTakeTerm, Alive
  <2>2. \A h \in Gens : lw[h] = "none" <=> lw'[h] = "none"
    BY <1>16 DEF LWTakeTerm, TypeOK
  <2>3. term = 1 /\ term' = 0 /\ UNCHANGED <<pc, gen, server, registered>>
    BY <1>16 DEF LWTakeTerm
  <2>4. Expected' <=> Expected
    BY <2>2, <2>3 DEF TypeOK
  <2>5. IF Expected' THEN Cardinality(Running') <= term'
                     ELSE Cardinality(Running') <= 1 + term'
    BY <2>1, <2>3, <2>4, RunningIsFinite
  <2>6. registered' # 0 => lw'[registered'] = "none"
    BY <2>2, <2>3 DEF TypeOK
  <2>7. \A t \in Threads : pc'[t] = "register" => lw'[server'] = "none" /\ registered' # server'
    BY <2>2, <2>3 DEF TypeOK, ServerInv
  <2>8. \A h \in Gens : h > gen' => lw'[h] = "none"
    BY <2>2, <2>3
  <2>9. QED
    BY <2>5, <2>6, <2>7, <2>8
<1>17. ASSUME NEW g \in Gens, LWPark(g) PROVE HandlerInv'
  <2>1. Running' = Running
    BY <1>17 DEF Running, Alive, LWPark, Parked
  <2>2. QED
    BY <1>17, <2>1 DEF LWPark, Parked, dpiVars, watchVars, kubeVars, envVars
<1>18. CASE KubeletCrash
  <2>1. Running' = Running
    BY <1>18 DEF Running, Alive, KubeletCrash
  <2>2. QED
    BY <1>18, <2>1 DEF KubeletCrash, dpiVars, ServerInv
<1>19. CASE KubeletWipe
  BY <1>19 DEF Running, Alive, KubeletWipe, Unlink, Report, dpiVars, watchVars, kubeVars,
     envVars
<1>20. CASE KubeletServe
  BY <1>20 DEF Running, Alive, KubeletServe, dpiVars, watchVars, kubeVars, envVars
<1>21. CASE KubeletDial
  <2>1. CASE sock = registered /\ server = registered
    <3>1. registered \in Gens /\ registered = server /\ sock # 0 /\ server # 0
      BY <1>21, <2>1 DEF KubeletDial, TypeOK
    <3>2. lw' = [lw EXCEPT ![registered] = "send"] /\ registered' = 0
          /\ UNCHANGED <<pc, gen, server, term>>
      BY <1>21, <2>1 DEF KubeletDial, dpiVars
    <3>3. Cardinality(Running) <= term
      BY <3>1
    <3>4. Cardinality(Running') <= 1 + term
      BY <3>1, <3>2, <3>3, HandlerStarts
    <3>5. ~Expected'
      BY <3>1, <3>2 DEF ServerInv, TypeOK
    <3>6. \A t \in Threads : pc[t] # "register"
      BY <3>1
    <3>7. \A g \in Gens : g > gen => lw'[g] = "none"
      BY <3>1, <3>2 DEF TypeOK
    <3>8. Cardinality(Running') <= 1 + term'
      BY <3>2, <3>4
    <3>9. QED
      BY <3>2, <3>5, <3>6, <3>7, <3>8
  <2>2. CASE ~(sock = registered /\ server = registered)
    <3>1. Running' = Running
      BY <1>21, <2>2 DEF KubeletDial, Running, Alive
    <3>2. QED
      BY <1>21, <2>2, <3>1 DEF KubeletDial, dpiVars, ServerInv, TypeOK
  <2>3. QED
    BY <2>1, <2>2
<1>22. ASSUME NEW d \in Devices, NodeRemove(d) PROVE HandlerInv'
  BY <1>22 DEF Running, Alive, NodeRemove, Report, dpiVars, watchVars, kubeVars,
     envVars
<1>23. ASSUME NEW d \in Devices, NodeCreate(d) PROVE HandlerInv'
  BY <1>23 DEF Running, Alive, NodeCreate, Report, dpiVars, watchVars, kubeVars, envVars
<1>24. CASE ProcessCrash
  <2>1. Running' = {}
    BY <1>24 DEF Running, Alive, ProcessCrash
  <2>2. Expected' /\ Cardinality(Running') <= term'
    BY <1>24, <2>1, NoHandlers DEF ProcessCrash
  <2>3. \A t \in Threads : pc'[t] # "register"
    BY <1>24 DEF ProcessCrash
  <2>4. \A g \in Gens : lw[g] = "none" => lw'[g] = "none"
    BY <1>24 DEF ProcessCrash, Alive
  <2>5. QED
    BY <1>24, <2>2, <2>3, <2>4 DEF ProcessCrash, TypeOK
<1>25. CASE UNCHANGED vars
  BY <1>25 DEF Running, Alive, vars, dpiVars, watchVars, kubeVars, envVars
<1>26. QED
  BY <1>1, <1>2, <1>3, <1>4, <1>5, <1>6, <1>7, <1>8, <1>9, <1>10, <1>11, <1>12, <1>13,
     <1>14, <1>15, <1>16, <1>17, <1>18, <1>19, <1>20, <1>21, <1>22, <1>23, <1>24, <1>25
     DEF Next, Start, Stop, healthCheck, ListAndWatch, Kubelet, Environment, Fault

-----------------------------------------------------------------------------
\* The inductive invariant holds at the start.
LEMMA InvariantInit == Init => IInv
<1> SUFFICES ASSUME Init PROVE IInv
  OBVIOUS
<1> USE NumDevicesAssumption, BoundsAssumption, MaxGenAssumption
    DEF Init, Devices, Gens, Threads, StartPC, MainPC, HcPC, SocketPath, Names
<1>1. TypeOK
  <2>1. NoMsg \in Events
    BY NewEvent DEF NoMsg
  <2>2. QED
    BY <2>1 DEF TypeOK, AllHealthy, Health, None
<1>2. WatcherInv /\ ServerInv
  BY DEF WatcherInv, ServerInv
<1>3. BudgetInv
  BY DEF BudgetInv, Owed
<1>4. StreamInv /\ RemovalInv
  BY DEF StreamInv, StreamIsCurrent, RemovalInv, UnhealthyIsJustified, AllHealthy
<1>5. HandlerInv
  <2>1. Running = {}
    BY DEF Running, Alive
  <2>2. QED
    BY <2>1, FS_EmptySet DEF HandlerInv, Expected
<1>6. QED
  BY <1>1, <1>2, <1>3, <1>4, <1>5 DEF IInv

\* Every step keeps it.
LEMMA InvariantStep == IInv /\ [Next]_vars => IInv'
BY TypeInductive, WatcherInductive, ServerInductive, BudgetInductive,
   StreamInductive, RemovalInductive, HandlerInductive DEF IInv

\* Every reachable state satisfies the inductive invariant.
THEOREM Invariance == Spec => []IInv
BY InvariantInit, InvariantStep, PTL DEF Spec

\* Every variable keeps its type: in particular no more than MaxGen servers are
\* created although only Listen looks at that bound.
THEOREM TypeCorrect == Spec => []TypeOK
<1>1. IInv => TypeOK
  BY DEF IInv
<1>2. QED
  BY <1>1, Invariance, PTL

\* healthCheck (389-397) restarts the plugin only for a removal of its socket that
\* a restart of the kubelet caused, whatever Stop and Start themselves remove.
THEOREM RestartsAreJustified == Spec => []NoSpuriousRestart
<1>1. IInv => NoSpuriousRestart
  BY BoundsAssumption DEF IInv, TypeOK, BudgetInv, Owed, NoSpuriousRestart
<1>2. QED
  BY <1>1, Invariance, PTL

\* The guards at lines 113 and 172 never refuse a Start or a restart.
THEOREM NothingIsRefused == Spec => []RestartNeverRefused
<1>1. IInv => RestartNeverRefused
  BY DEF IInv, ServerInv, RestartNeverRefused
<1>2. QED
  BY <1>1, Invariance, PTL

\* The socket file is the current server's, and Start finds the path free (119-124).
THEOREM OwnPath == Spec => []PathIsOwn
<1>1. IInv => PathIsOwn
  BY DEF IInv, ServerInv, PathIsOwn
<1>2. QED
  BY <1>1, Invariance, PTL

\* The kubelet never reads a stream of a server that Stop (155-167) has stopped.
THEOREM CurrentStream == Spec => []StreamIsCurrent
<1>1. IInv => StreamIsCurrent
  BY DEF IInv, StreamInv
<1>2. QED
  BY <1>1, Invariance, PTL

\* Tokens (161) and handlers (206-234) balance in every interleaving of restarts.
THEOREM HandlersBalance == Spec => []HandlerBalance
<1>1. IInv => HandlerBalance
  BY HandlersBounded DEF IInv, HandlerBalance
<1>2. QED
  BY <1>1, Invariance, PTL

\* ListAndWatch (212-218) marks unhealthy only a device whose node was removed.
THEOREM JustifiedUnhealthy == Spec => []UnhealthyIsJustified
<1>1. IInv => UnhealthyIsJustified
  BY DEF IInv, RemovalInv
<1>2. QED
  BY <1>1, Invariance, PTL

-----------------------------------------------------------------------------
(* Calm: the disturbances wait until a restart is over.                    *)

\* The removal of the socket file is reported and restart has not sent its token yet.
SocketGone == pc["hc"] = "term" \/ \E i \in 1..Len(events) : events[i].name = SocketPath

\* From the end of a kubelet to the token of Stop the one old handler waits in its
\* select, and no device event is under way that would wake it: Stop hands it its
\* token directly, and none is ever left in the channel.
CalmInv ==
    /\ term = 0
    /\ kubelet = "down" => pc["hc"] = "loop" /\ events = <<>>
    /\ SocketGone => pc["hc"] \in {"loop", "term"}
                     /\ \A i \in 1..Len(events) : events[i].name = SocketPath
    /\ kubelet = "down" \/ SocketGone => Parked # {} /\ endpoint = 0 /\ registered = 0
    /\ watched \subseteq {SocketPath} \cup nodes
    /\ ViewCatchesUp

\* Without a token there is one handler at most.
LEMMA OneHandler ==
    ASSUME TypeOK, HandlerInv, term = 0, NEW g \in Running
    PROVE  Running = {g}
<1>1. IsFiniteSet(Running) /\ Cardinality(Running) \in Nat /\ Cardinality(Running) <= 1
  BY RunningIsFinite, HandlersBounded
<1>2. /\ IsFiniteSet(Running \ {g}) /\ Cardinality(Running \ {g}) \in Nat
      /\ Cardinality(Running \ {g}) = Cardinality(Running) - 1
  BY <1>1, FS_RemoveElement, FS_Subset, FS_CardinalityType
<1>3. Cardinality(Running \ {g}) = 0
  BY <1>1, <1>2
<1>4. Running \ {g} = {}
  BY <1>2, <1>3, FS_EmptySet
<1>5. QED
  BY <1>4

\* Every step keeps it, if the disturbances wait.
LEMMA CalmInductive ==
    ASSUME Calm, IInv, CalmInv, [Next]_vars
    PROVE  CalmInv'
<1> USE MaxGenAssumption DEF IInv, TypeOK, WatcherInv, ServerInv, StreamInv, StreamIsCurrent,
   CalmInv, SocketGone, ViewCatchesUp, Parked, Alive, Gens, Threads, Devices, Names, StartPC,
   MainPC, HcPC, SocketPath
<1>1. ASSUME NEW t \in Threads, StartCleanup(t) PROVE CalmInv'
  BY <1>1 DEF StartCleanup, Cleanup, Goto, Failed, Unlink, Report, dpiVars, kubeVars
<1>2. ASSUME NEW t \in Threads, Listen(t) PROVE CalmInv'
  BY <1>2 DEF Listen, Goto, Failed, Report, kubeVars
<1>3. ASSUME NEW t \in Threads, RegisterOK(t) PROVE CalmInv'
  BY <1>3 DEF RegisterOK, dpiVars, watchVars
<1>4. ASSUME NEW t \in Threads, RegisterFail(t) PROVE CalmInv'
  BY <1>4 DEF RegisterFail, Goto, Failed, dpiVars, watchVars, kubeVars
<1>5. ASSUME NEW t \in Threads, StartFault(t) PROVE CalmInv'
  BY <1>5 DEF StartFault, Goto, Failed, dpiVars, watchVars, kubeVars
<1>6. CASE Setup
  BY <1>6 DEF Setup, Goto, dpiVars, kubeVars
<1>7. CASE AddDev
  <2>1. watched' \subseteq {SocketPath} \cup nodes' /\ (events' = events \/ events' = <<>>)
    BY <1>7 DEF AddDev, CloseWatcher
  <2>2. ~SocketGone /\ ~SocketGone' /\ kubelet' # "down"
    BY <1>7, <2>1 DEF AddDev, Goto, kubeVars
  <2>3. QED
    BY <1>7, <2>1, <2>2 DEF AddDev, Goto, dpiVars, kubeVars
<1>8. CASE SetupFault
  BY <1>8 DEF SetupFault, Goto, CloseWatcher, dpiVars, kubeVars
<1>9. CASE DeviceEvent
  <2>1. ~SocketGone /\ kubelet # "down"
    <3>1. events # <<>> /\ events[1].name \in Devices /\ Len(events) >= 1
      BY <1>9 DEF DeviceEvent
    <3>2. QED
      BY <3>1, NumDevicesAssumption
  <2>2. \A i \in 1..Len(events') : events'[i] = events[i + 1] /\ i + 1 \in 1..Len(events)
    BY <1>9 DEF DeviceEvent
  <2>3. ~SocketGone'
    BY <1>9, <2>1, <2>2 DEF DeviceEvent, Goto
  <2>4. QED
    BY <1>9, <2>1, <2>3 DEF DeviceEvent, Goto, dpiVars, kubeVars
<1>10. CASE SocketRemoved
  BY <1>10 DEF SocketRemoved, Restart, Goto, CloseWatcher, dpiVars, kubeVars
<1>11. CASE StopTerm
  BY <1>11 DEF StopTerm, SignalTerm, Goto, CloseStream, watchVars
<1>12. CASE StopServer
  BY <1>12 DEF StopServer, Goto, Unlink, Report, CloseStream, dpiVars
<1>13. CASE StopClear
  BY <1>13 DEF StopClear, Cleanup, Goto, Unlink, Report, kubeVars
<1>14. ASSUME NEW g \in Gens, LWSend(g) PROVE CalmInv'
  <2>1. Alive(g) /\ (endpoint # 0 => endpoint = g)
    BY <1>14, OneHandler DEF LWSend, Running
  <2>2. QED
    BY <1>14, <2>1 DEF LWSend, Sent, dpiVars, watchVars
<1>15. ASSUME NEW g \in Gens, LWReceive(g) PROVE CalmInv'
  <2>1. Alive(g) /\ (endpoint # 0 => endpoint = g)
    BY <1>15, OneHandler DEF LWReceive, Running
  <2>2. pc["hc"] = "send" /\ pc'["hc"] = "loop" /\ pc'["main"] = pc["main"] /\ ~SocketGone
        /\ lw' = [lw EXCEPT ![g] = "send"]
        /\ UNCHANGED <<gen, server, term, watchVars, sock, nodes, kubeVars, envVars>>
    BY <1>15 DEF LWReceive, Goto
  <2>3. QED
    BY <2>1, <2>2 DEF watchVars, kubeVars
<1>16. ASSUME NEW g \in Gens, LWTakeTerm(g) PROVE CalmInv'
  BY <1>16 DEF LWTakeTerm
<1>17. ASSUME NEW g \in Gens, LWPark(g) PROVE CalmInv'
  BY <1>17 DEF LWPark, dpiVars, watchVars, kubeVars
<1>18. CASE KubeletCrash
  BY <1>18 DEF KubeletCrash, Settled, dpiVars, watchVars
<1>19. CASE KubeletWipe
  BY <1>19 DEF KubeletWipe, Unlink, Report, dpiVars
<1>20. CASE KubeletServe
  BY <1>20 DEF KubeletServe, dpiVars, watchVars
<1>21. CASE KubeletDial
  BY <1>21 DEF KubeletDial, dpiVars, watchVars
<1>22. ASSUME NEW d \in Devices, NodeRemove(d) PROVE CalmInv'
  BY <1>22 DEF NodeRemove, Attended, Report, dpiVars, kubeVars
<1>23. ASSUME NEW d \in Devices, NodeCreate(d) PROVE CalmInv'
  BY <1>23 DEF NodeCreate, Report, dpiVars, watchVars, kubeVars
<1>24. CASE ProcessCrash
  BY <1>24 DEF ProcessCrash, CloseWatcher
<1>25. CASE UNCHANGED vars
  BY <1>25 DEF vars, dpiVars, watchVars, kubeVars, envVars
<1>26. QED
  BY <1>1, <1>2, <1>3, <1>4, <1>5, <1>6, <1>7, <1>8, <1>9, <1>10, <1>11, <1>12, <1>13,
     <1>14, <1>15, <1>16, <1>17, <1>18, <1>19, <1>20, <1>21, <1>22, <1>23, <1>24, <1>25
     DEF Next, Start, Stop, healthCheck, ListAndWatch, Kubelet, Environment, Fault

\* It holds in every state.
LEMMA CalmInvariance == ASSUME Calm PROVE Spec => []CalmInv
<1>1. Init => CalmInv
  BY DEF Init, CalmInv, SocketGone, ViewCatchesUp, Threads, SocketPath
<1>2. IInv /\ CalmInv /\ [Next]_vars => CalmInv'
  BY CalmInductive
<1>3. QED
  BY <1>1, <1>2, Invariance, PTL DEF Spec

\* The kubelet's list is that of ListAndWatch (204-234), or the handler is about to send it,
\* also with system calls that fail and a kubelet that stays away.
THEOREM ViewIsCurrent == ASSUME Calm PROVE Spec => []ViewCatchesUp
<1>1. CalmInv => ViewCatchesUp
  BY DEF CalmInv
<1>2. QED
  BY <1>1, CalmInvariance, PTL

\* No handler writes a device's Health (216, 224) while another one sends it (219, 227).
THEOREM OneHandlerWrites == ASSUME Calm PROVE Spec => []OneWriter
<1>1. IInv /\ CalmInv => OneWriter
  BY OneHandler DEF IInv, CalmInv, OneWriter, Running, Alive
<1>2. QED
  BY <1>1, CalmInvariance, Invariance, PTL

\* The token of Stop (161) never ends a stream of the server that follows.
THEOREM NoTokenIsLeft == ASSUME Calm PROVE Spec => TermEndsOldStreams
<1> DEFINE A == \A g \in Gens :
         lw[g] # "done" /\ lw'[g] = "done" /\ crashes' = crashes
            => g # server \/ pc["hc"] \in {"term", "stop", "clear"}
<1>1. IInv /\ CalmInv /\ [Next]_vars => [A]_vars
  <2> SUFFICES ASSUME IInv, CalmInv, Next, NEW g \in Gens, lw[g] # "done", lw'[g] = "done",
                      crashes' = crashes
               PROVE  pc["hc"] = "term"
    BY DEF IInv, TypeOK, vars
  <2>1. CASE StopTerm
    BY <2>1 DEF StopTerm
  <2>2. CASE \E h \in Gens : ListAndWatch(h)
    BY <2>2 DEF ListAndWatch, LWSend, LWReceive, LWTakeTerm, LWPark, CalmInv, IInv, TypeOK
  <2>3. CASE KubeletDial
    BY <2>3 DEF KubeletDial, IInv, TypeOK
  <2>4. crashes' = crashes => ~ProcessCrash
    BY DEF ProcessCrash, IInv, TypeOK
  <2>5. CASE UNCHANGED lw
    BY <2>5
  <2>6. QED
    BY <2>1, <2>2, <2>3, <2>4, <2>5 DEF Next, Start, StartCleanup, Listen, RegisterOK,
       RegisterFail, StartFault, healthCheck, Setup, AddDev, DeviceEvent, SocketRemoved, Stop,
       StopServer, StopClear, Kubelet, KubeletWipe, KubeletServe, Environment, KubeletCrash,
       Fault, SetupFault, NodeRemove, NodeCreate
<1>2. QED
  BY <1>1, CalmInvariance, Invariance, PTL DEF Spec, TermEndsOldStreams
============================================================================
