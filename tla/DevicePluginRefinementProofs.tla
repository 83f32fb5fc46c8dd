-------------------- MODULE DevicePluginRefinementProofs --------------------
(***************************************************************************)
(* For any number of devices, restarts and failures, the detailed plugin   *)
(* is the plugin of PluginController.                                      *)
(*                                                                         *)
(* The first part relates the two states: what stage the program counters  *)
(* make (StageValue), how an update of a variable is an update of the      *)
(* mapped function (OneValue, ServingStep, StageStep, HandlerReturns), and *)
(* what a step does to the question whether a removal of the socket is     *)
(* queued (ToldUnlink, ToldTail).  Then there is a lemma for each action, and the *)
(* theorem puts them together under the inductive invariant.               *)
(***************************************************************************)
EXTENDS GenericDevicePluginProofs, DevicePluginRefinement

\* A server is the latest that was created.
ServerIsLatest == server # 0 => server = gen

\* Only Listen sets dpi.server (111-129), to the server it has just created.
LEMMA LatestInductive ==
    ASSUME IInv, ServerIsLatest, [Next]_vars
    PROVE  ServerIsLatest'
<1>1. CASE UNCHANGED vars
  BY <1>1 DEF vars, dpiVars, ServerIsLatest
<1>2. ASSUME NEW t \in Threads, Listen(t) PROVE ServerIsLatest'
  BY <1>2 DEF Listen, ServerIsLatest
<1>3. ASSUME NEW t \in Threads, Start(t), ~Listen(t) PROVE ServerIsLatest'
  BY <1>3 DEF Start, StartCleanup, Cleanup, RegisterOK, RegisterFail, dpiVars,
     ServerIsLatest
<1>4. CASE healthCheck
  BY <1>4 DEF healthCheck, Setup, AddDev, DeviceEvent, SocketRemoved, Restart, Stop,
     StopTerm, SignalTerm, StopServer, StopClear, Cleanup, dpiVars, ServerIsLatest
<1>5. ASSUME NEW g \in Gens, ListAndWatch(g) PROVE ServerIsLatest'
  BY <1>5 DEF ListAndWatch, LWSend, Sent, LWReceive, Marked, LWTakeTerm, LWPark,
     dpiVars, ServerIsLatest
<1>6. CASE Kubelet
  BY <1>6 DEF Kubelet, KubeletWipe, KubeletServe, KubeletDial, dpiVars, ServerIsLatest
<1>7. CASE Environment
  BY <1>7 DEF Environment, KubeletCrash, ProcessCrash, Fault, SetupFault, StartFault,
     NodeRemove,
     NodeCreate, dpiVars, ServerIsLatest
<1>8. QED
  BY <1>1, <1>2, <1>3, <1>4, <1>5, <1>6, <1>7 DEF Next

-----------------------------------------------------------------------------
\* The removal of the socket is in the queue; the mapping of told.
Told == \E i \in 1..Len(events) : events[i] = [name |-> SocketPath, op |-> "Remove"]

\* A value for the one plugin and for the one path, and what an update makes of it.
LEMMA OneValue ==
    ASSUME NEW x, NEW y
    PROVE  /\ One(x)[Self] = x
           /\ [One(x) EXCEPT ![Self] = y] = One(y)
BY DEF One

\* The newest server's handler has returned; the mapping of ended.
Ended == gen # 0 /\ lw[gen] = "done"

\* The detailed plugin starts as the controller does.
LEMMA RefinementInit == Init => Controller!Init
<1> SUFFICES ASSUME Init PROVE Controller!Init
  OBVIOUS
<1>1. StageOf = "cleanup"
  BY DEF Init, StageOf, StartPC, Threads
<1>2. ~Told /\ SocketPath \notin watched /\ gen = 0 /\ server = 0
  BY DEF Init, Told
<1>3. (server # 0) = FALSE /\ (SocketPath \in watched) = FALSE /\ Told = FALSE
  BY <1>2
<1>4. One(StageOf) = [p \in {Self} |-> IF p = Self THEN "cleanup" ELSE "none"]
  BY <1>1 DEF One
<1>5. /\ One(server # 0) = [p \in {Self} |-> FALSE]
      /\ One(SocketPath \in watched) = [p \in {Self} |-> FALSE]
      /\ One(Told) = [p \in {Self} |-> FALSE]
  BY <1>3, Zenon DEF One
<1>6. One(gen) = [p \in {Self} |-> 0]
  BY <1>2 DEF One
<1>7. Gen(sock) = Controller!None /\ Gen(registered) = Controller!None /\ Gen(endpoint) = Controller!None
  BY DEF Gen, Init, Controller!None
<1>8. One(term = 1) = [p \in {Self} |-> FALSE] /\ One(Ended) = [p \in {Self} |-> FALSE]
  <2>1. (term = 1) = FALSE /\ Ended = FALSE
    BY <1>2 DEF Init, Ended
  <2>2. QED
    BY <2>1, Zenon DEF One
<1>9. One(Running) = [p \in {Self} |-> {}]
  BY DEF Init, Running, Alive, One
<1>10. QED
  BY <1>4, <1>5, <1>6, <1>7, <1>8, <1>9 DEF Init, Controller!Init, Told, Ended

\* The stage while main is in Start, and after that.
StageInMain == pc["main"] \in StartPC => StageOf = pc["main"]
StageInHc ==
    pc["main"] \notin StartPC =>
        /\ pc["hc"] = "none" => StageOf = "dead"
        /\ pc["hc"] = "setup" => StageOf = "watch"
        /\ pc["hc"] = "adddev" => StageOf = "nodes"
        /\ pc["hc"] \in StartPC \cup {"loop", "send", "term", "stop", "clear", "dead"}
              => StageOf = pc["hc"]

\* The stage of every state is one of these.
LEMMA StageValue == StageInMain /\ StageInHc
BY DEF StageInMain, StageInHc, StageOf, StartPC

\* So is that of the state after a step.
LEMMA StageValueNext == StageInMain' /\ StageInHc'
BY StageValue, PTL

\* main and hc are never both in Start: the one that is has the stage.
LEMMA StageInStart ==
    ASSUME TypeOK, ServerInv, NEW t \in Threads, pc[t] \in StartPC
    PROVE  StageOf = pc[t]
BY StageValue DEF StageInMain, StageInHc, TypeOK, ServerInv, StartPC, MainPC, Threads

\* A step within Start, or out of it with an error.
LEMMA StageAfterStart ==
    ASSUME TypeOK, ServerInv, NEW t \in Threads, pc[t] \in StartPC
    PROVE  /\ \A l \in StartPC : Goto(t, l) => StageOf' = l
           /\ Goto(t, Failed(t)) => StageOf' = "dead"
BY StageValueNext
   DEF StageInMain, StageInHc, TypeOK, ServerInv, StartPC, MainPC, HcPC, Threads, Goto,
      Failed

\* Once there is a healthCheck the stage is its own.
LEMMA StageOfHc ==
    ASSUME TypeOK, ServerInv, pc["hc"] # "none"
    PROVE  /\ pc["main"] \notin StartPC
           /\ \A l \in HcPC : Goto("hc", l) =>
                 pc' = [pc EXCEPT !["hc"] = l] /\ pc'["hc"] = l /\ pc'["main"] \notin StartPC
BY DEF TypeOK, ServerInv, StartPC, MainPC, HcPC, Threads, Goto

\* Where no goroutine moves the stage is what it was.
LEMMA SameStage == pc' = pc => StageOf' = StageOf
BY DEF StageOf

-----------------------------------------------------------------------------
(* The controller's state and its operators, for one plugin and one path. *)

\* The mappings of watching and serving.
Watching == SocketPath \in watched
Serving  == server # 0

\* Where nothing that the controller sees changes, it stutters.
LEMMA Stutter ==
    ASSUME StageOf' = StageOf, gen' = gen, Serving' = Serving, Watching' = Watching,
           Told' = Told, sock' = sock, UNCHANGED Controller!lwVars,
           UNCHANGED <<kubelet, registered, endpoint, restarts, crashes>>
    PROVE  UNCHANGED Controller!vars
BY DEF Controller!vars, Controller!mainVars, Controller!kubeVars, Controller!envVars,
       One, Gen, Told, Serving, Watching

\* A step of the stage.
LEMMA StageStep == ASSUME NEW l, StageOf' = l PROVE Controller!Goto(Self, l)
BY DEF Controller!Goto, One

\* One boolean of the plugin becomes another.
LEMMA ServingStep ==
    /\ Serving' => One(server # 0)' = [One(server # 0) EXCEPT ![Self] = TRUE]
    /\ ~Serving' => One(server # 0)' = [One(server # 0) EXCEPT ![Self] = FALSE]
    /\ One(server # 0)[Self] <=> Serving
<1>1. Serving' => (server # 0)' = TRUE
  BY DEF Serving
<1>2. ~Serving' => (server # 0)' = FALSE
  BY DEF Serving
<1>3. QED
  BY <1>1, <1>2 DEF One, Serving

\* What no handler and no signal touches.
LEMMA SameHandlers ==
    ASSUME term' = term, lw' = lw, gen' = gen
    PROVE  UNCHANGED Controller!lwVars
BY DEF Controller!lwVars, One, Running, Alive

\* A handler that moves on without returning is the same to the controller.
LEMMA StillRunning ==
    ASSUME TypeOK, NEW g \in Gens, NEW l \in {"send", "ready", "parked"}, Alive(g),
           lw' = [lw EXCEPT ![g] = l], term' = term, gen' = gen
    PROVE  UNCHANGED Controller!lwVars
<1>1. Running' = Running
  BY DEF TypeOK, Running, Alive
<1>2. Ended' <=> Ended
  BY MaxGenAssumption DEF Ended, TypeOK, Gens, Alive
<1>3. One(Ended)' = One(Ended)
  BY <1>2 DEF One, Ended
<1>4. QED
  BY <1>1, <1>3 DEF Controller!lwVars, One, Ended

\* A handler returns in both, and its stream ends.
LEMMA HandlerReturns ==
    ASSUME TypeOK, NEW g \in Gens, Alive(g), lw' = [lw EXCEPT ![g] = "done"],
           CloseStream(g), gen' = gen
    PROVE  g \in One(Running)[Self] /\ Controller!EndHandler(Self, g)
<1>1. g \in One(Running)[Self]
  BY DEF One, Running
<1>2. Running' = Running \ {g}
  BY DEF TypeOK, Running, Alive
<1>3. One(Running)' = [One(Running) EXCEPT ![Self] = @ \ {g}]
  BY <1>2 DEF One
<1>4. Ended' <=> Ended \/ g = gen
  BY MaxGenAssumption DEF Ended, TypeOK, Gens
<1>5. One(Ended)' = [One(Ended) EXCEPT ![Self] = @ \/ g = One(gen)[Self]]
  BY <1>4 DEF One, Ended
<1>6. Gen(endpoint)' = [Gen(endpoint) EXCEPT ![One(SocketPath)[Self]] = @ \ {<<Self, g>>}]
  BY DEF CloseStream, Gen, One, Gens
<1>7. QED
  BY <1>1, <1>3, <1>5, <1>6 DEF Controller!EndHandler, Controller!CloseStream, Ended

\* The removal of the socket file is told to a healthCheck that watches.
LEMMA ToldUnlink ==
    ASSUME TypeOK, Unlink
    PROVE  Told' <=> Told \/ (Watching /\ sock # 0)
<1> DEFINE e == [name |-> SocketPath, op |-> "Remove"]
<1>1. e \in Events
  BY NewEvent DEF Names
<1>2. events \in Seq(Events)
  BY DEF TypeOK
<1>3. CASE sock # 0 /\ Watching
  <2>1. events' = Append(events, e)
    BY <1>3 DEF Unlink, Report, Watching
  <2>2. Len(events') = Len(events) + 1 /\ events'[Len(events) + 1] = e /\ Len(events) \in Nat
    BY <2>1, <1>1, <1>2
  <2>3. QED
    BY <1>3, <2>2 DEF Told
<1>4. CASE ~(sock # 0 /\ Watching)
  BY <1>4 DEF Unlink, Report, Watching, Told
<1>5. QED
  BY <1>3, <1>4

\* So the removal is the same step for the controller.
LEMMA UnlinkStep ==
    ASSUME TypeOK, Unlink
    PROVE  Controller!Unlink({SocketPath})
<1>1. Gen(sock)' = [s \in {SocketPath} |-> IF s \in {SocketPath} THEN {} ELSE Gen(sock)[s]]
  BY DEF Unlink, Gen
<1>2. Gen(sock)[SocketPath] # {} <=> sock # 0
  BY DEF Gen
<1>3. One(SocketPath \in watched)[Self] <=> Watching
  BY DEF One, Watching
<1>4. One(Told)[Self] <=> Told
  BY DEF One
<1>5. Told' = (One(Told)[Self] \/ (One(SocketPath \in watched)[Self]
                  /\ SocketPath \in {SocketPath} /\ Gen(sock)[SocketPath] # {}))
  BY <1>2, <1>3, <1>4, ToldUnlink DEF Told
<1>6. One(Told)' = [p \in {Self} |-> One(Told)[p] \/ (One(SocketPath \in watched)[p]
                  /\ One(SocketPath)[p] \in {SocketPath} /\ Gen(sock)[One(SocketPath)[p]] # {})]
  BY <1>5, OneValue DEF One
<1>7. QED
  BY <1>1, <1>6 DEF Controller!Unlink, Told

\* In Start and in Stop nobody watches, and the queue is empty.
LEMMA Unwatched ==
    ASSUME TypeOK, ServerInv, WatcherInv, pc["hc"] \notin {"adddev", "loop", "send"}
    PROVE  ~Watching /\ watched = {} /\ events = <<>> /\ ~Told
BY DEF WatcherInv, Watching, Told

\* A thread in Start leaves no healthCheck in its loop.
LEMMA StartUnwatched ==
    ASSUME TypeOK, ServerInv, WatcherInv, NEW t \in Threads, pc[t] \in StartPC
    PROVE  ~Watching /\ watched = {} /\ events = <<>> /\ ~Told
BY Unwatched DEF ServerInv, StartPC, Threads

-----------------------------------------------------------------------------
(* Each action of the detailed plugin.                                     *)

\* StartCleanup is Cleanup: ServerInv has no server at that place.
LEMMA CleanupRefines ==
    ASSUME IInv, NEW t \in Threads, StartCleanup(t)
    PROVE  Controller!Cleanup(Self)
<1> USE DEF IInv
<1>1. pc[t] \in StartPC /\ server = 0 /\ Goto(t, "listen") /\ Unlink
  BY DEF StartCleanup, Cleanup, ServerInv, StartPC
<1>2. One(StageOf)[Self] = "cleanup"
  BY <1>1, StageInStart, OneValue DEF StartCleanup, Cleanup
<1>3. Controller!Goto(Self, "listen")
  BY <1>1, StageAfterStart, StageStep DEF StartPC
<1>4. Controller!Unlink({One(SocketPath)[Self]})
  BY <1>1, UnlinkStep, OneValue
<1>5. ~One(server # 0)[Self]
  BY <1>1, ServingStep DEF Serving
<1>6. UNCHANGED <<One(gen), One(server # 0), One(SocketPath \in watched),
                  kubelet, Gen(registered), Gen(endpoint), restarts, crashes>>
  BY DEF StartCleanup, Cleanup, dpiVars, kubeVars, envVars, One, Gen
<1>7. UNCHANGED Controller!lwVars
  BY SameHandlers DEF StartCleanup, dpiVars
<1>8. QED
  BY <1>2, <1>3, <1>4, <1>5, <1>6, <1>7
     DEF Controller!Cleanup, Controller!mainVars, Controller!kubeVars, Controller!envVars

\* Listen is Listen: the path is free.
LEMMA ListenRefines ==
    ASSUME IInv, NEW t \in Threads, Listen(t)
    PROVE  Controller!Listen(Self)
<1>1. pc[t] \in StartPC /\ sock = 0 /\ Goto(t, "register")
  BY DEF IInv, Listen, ServerInv, StartPC
<1>2. sock' = gen + 1 /\ server' = gen + 1 /\ gen' = gen + 1 /\ gen \in Nat
  BY <1>1 DEF IInv, Listen, TypeOK
<1>3. events' = events
  BY <1>1, StartUnwatched DEF IInv, Listen, Report, Watching
<1>4. One(StageOf)[Self] = "listen" /\ One(SocketPath)[Self] = SocketPath
  BY <1>1, StageInStart, OneValue DEF IInv, Listen
<1>5. Controller!Goto(Self, "register")
  BY <1>1, StageAfterStart, StageStep DEF IInv, StartPC
<1>6. Gen(sock)[SocketPath] = {}
  BY <1>1 DEF Gen
<1>7. One(gen)' = [One(gen) EXCEPT ![Self] = @ + 1]
  BY <1>2 DEF One
<1>8. Gen(sock)' = [Gen(sock) EXCEPT ![SocketPath] = {<<Self, One(gen)[Self] + 1>>}]
  BY <1>2 DEF One, Gen
<1>9. One(server # 0)' = [One(server # 0) EXCEPT ![Self] = TRUE]
  BY <1>2, ServingStep DEF Serving
<1>10. UNCHANGED <<One(SocketPath \in watched), One(Told), Gen(registered), Gen(endpoint),
                   kubelet, restarts, crashes>>
  BY <1>3 DEF Listen, kubeVars, envVars, One, Gen, Told
<1>11. One(Ended)' = [One(Ended) EXCEPT ![Self] = FALSE]
  <2>1. gen + 1 \in Gens /\ gen + 1 > gen
    BY MaxGenAssumption DEF IInv, TypeOK, Listen, Gens
  <2>2. lw' = lw /\ lw[gen + 1] = "none"
    BY <2>1 DEF IInv, HandlerInv, Listen
  <2>3. Ended' = FALSE
    BY <1>2, <2>2 DEF Ended
  <2>4. QED
    BY <2>3 DEF One, Ended
<1>12. UNCHANGED <<One(term = 1), One(Running)>>
  BY DEF Listen, One, Running, Alive
<1>13. QED
  BY <1>4, <1>5, <1>6, <1>7, <1>8, <1>9, <1>10, <1>11, <1>12
     DEF Controller!Listen, Controller!mainVars, Controller!kubeVars,
        Controller!envVars, Told, Ended

\* RegisterOK is Register: hc is at its setup next, whoever registered.
LEMMA RegisterRefines ==
    ASSUME IInv, ServerIsLatest, NEW t \in Threads, RegisterOK(t)
    PROVE  Controller!Register(Self)
<1>1. pc[t] \in StartPC /\ server # 0 /\ server = gen
  BY DEF IInv, RegisterOK, ServerInv, StartPC, ServerIsLatest
<1>2. One(StageOf)[Self] = "register"
  BY <1>1, StageInStart, OneValue DEF IInv, RegisterOK
<1>3. pc'["main"] = "wait" /\ pc'["hc"] = "setup"
  BY DEF RegisterOK, IInv, TypeOK, Threads
<1>4. Controller!Goto(Self, "watch")
  BY <1>3, StageValueNext, StageStep DEF StageInHc, StartPC
<1>5. Gen(registered)' = [Gen(registered) EXCEPT ![One(SocketPath)[Self]] = {Controller!This(Self)}]
  BY <1>1 DEF RegisterOK, Gen, One, Controller!This
<1>6. UNCHANGED <<One(gen), One(server # 0), One(SocketPath \in watched), One(Told),
                  Gen(sock), kubelet, Gen(endpoint), restarts, crashes>>
  BY DEF RegisterOK, dpiVars, watchVars, envVars, One, Gen, Told
<1>7. kubelet = "up"
  BY DEF RegisterOK
<1>8. UNCHANGED Controller!lwVars
  BY SameHandlers DEF RegisterOK, dpiVars
<1>9. QED
  BY <1>2, <1>4, <1>5, <1>6, <1>7, <1>8
     DEF Controller!Register, Controller!mainVars, Controller!envVars, Told

\* RegisterFail and StartFault are StartFails.
LEMMA StartFailsRefines ==
    ASSUME IInv, NEW t \in Threads, RegisterFail(t) \/ StartFault(t)
    PROVE  Controller!StartFails(Self)
<1>1. pc[t] \in StartPC /\ Goto(t, Failed(t))
  BY DEF RegisterFail, StartFault, StartPC
<1>2. One(StageOf)[Self] = pc[t]
  BY <1>1, StageInStart, OneValue DEF IInv
<1>3. Controller!Goto(Self, "dead")
  BY <1>1, StageAfterStart, StageStep DEF IInv
<1>4. UNCHANGED Controller!lwVars
  BY SameHandlers DEF RegisterFail, StartFault, dpiVars
<1>5. UNCHANGED <<One(gen), One(server # 0), One(SocketPath \in watched), One(Told),
                  Gen(sock), kubelet, Gen(registered), Gen(endpoint), restarts, crashes>>
  <2>1. UNCHANGED <<gen, server, watched, events, sock, kubelet, registered, endpoint,
                    restarts, crashes>>
    BY DEF RegisterFail, StartFault, dpiVars, watchVars, kubeVars, envVars
  <2>2. QED
    BY <2>1 DEF One, Gen, Told
<1>6. QED
  BY <1>1, <1>2, <1>3, <1>4, <1>5
     DEF Controller!StartFails, Controller!StartStage, Controller!mainVars,
        Controller!kubeVars, Controller!envVars, Told, StartPC

-----------------------------------------------------------------------------
(* healthCheck and Stop.                                                   *)

\* Setup is Watch.
LEMMA WatchRefines ==
    ASSUME IInv, Setup
    PROVE  Controller!Watch(Self)
<1>1. /\ pc["hc"] = "setup" /\ pc'["hc"] = "adddev"
      /\ pc["main"] \notin StartPC /\ pc'["main"] \notin StartPC
  BY StageOfHc DEF IInv, Setup, HcPC
<1>2. One(StageOf)[Self] = "watch"
  BY <1>1, StageValue, OneValue DEF StageInHc
<1>3. Controller!Goto(Self, "nodes")
  BY <1>1, StageValueNext, StageStep DEF StageInHc
<1>4. (SocketPath \in watched)' = TRUE
  BY DEF Setup
<1>5. One(SocketPath \in watched)' = [One(SocketPath \in watched) EXCEPT ![Self] = TRUE]
  BY <1>4 DEF One
<1>6. UNCHANGED <<One(gen), One(server # 0), One(Told),
                  Gen(sock), kubelet, Gen(registered), Gen(endpoint), restarts, crashes>>
  <2>1. UNCHANGED <<gen, server, events, sock, kubelet, registered, endpoint, restarts,
     crashes>>
    BY DEF Setup, dpiVars, kubeVars, envVars
  <2>2. QED
    BY <2>1 DEF One, Gen, Told
<1>7. UNCHANGED Controller!lwVars
  BY SameHandlers DEF Setup, dpiVars
<1>8. QED
  BY <1>2, <1>3, <1>5, <1>6, <1>7
     DEF Controller!Watch, Controller!mainVars, Controller!kubeVars,
        Controller!envVars, Told

\* A watcher that is closed reports nothing.
LEMMA CloseStep ==
    ASSUME CloseWatcher
    PROVE  Controller!CloseWatcher(Self)
<1>1. (SocketPath \in watched)' = FALSE /\ Told' = FALSE
  BY DEF CloseWatcher, Told
<1>2. QED
  BY <1>1 DEF Controller!CloseWatcher, One, Told

\* AddDev is WatchNodes after the last device, HealthFails at a missing node, and
\* between two devices nothing that others see.
LEMMA AddDevRefines ==
    ASSUME IInv, AddDev
    PROVE  Controller!WatchNodes(Self) \/ Controller!HealthFails(Self) \/ UNCHANGED Controller!vars
<1>1. /\ pc["hc"] = "adddev" /\ next \in Devices
      /\ pc["main"] \notin StartPC
      /\ \A l \in HcPC : Goto("hc", l) => pc'["hc"] = l /\ pc'["main"] \notin StartPC
  BY StageOfHc DEF IInv, AddDev
<1>2. StageOf = "nodes" /\ One(StageOf)[Self] = "nodes"
  BY <1>1, StageValue, OneValue DEF StageInHc
<1>3. /\ UNCHANGED <<gen, server, sock, kubelet, registered, endpoint, restarts, crashes>>
      /\ UNCHANGED Controller!lwVars
  BY SameHandlers DEF AddDev, dpiVars, kubeVars, envVars
<1>4. CASE next \in nodes
  <2>1. Watching' = Watching /\ Told' = Told
    <3>1. next # SocketPath /\ watched' = watched \cup {next} /\ events' = events
      BY <1>1, <1>4 DEF AddDev, Devices, SocketPath
    <3>2. QED
      BY <3>1 DEF Watching, Told
  <2>2. CASE next = NumDevices
    <3>1. pc'["hc"] = "loop" /\ pc'["main"] \notin StartPC
      BY <1>1, <1>4, <2>2 DEF AddDev, HcPC
    <3>2. Controller!Goto(Self, "loop")
      BY <3>1, StageValueNext, StageStep DEF StageInHc
    <3>3. UNCHANGED <<One(gen), One(server # 0), One(SocketPath \in watched), One(Told),
                      Gen(sock), kubelet, Gen(registered), Gen(endpoint), restarts,
                         crashes>>
      BY <1>3, <2>1 DEF One, Gen, Told, Watching
    <3>4. QED
      BY <1>2, <1>3, <3>2, <3>3 DEF Controller!WatchNodes, Controller!mainVars,
         Controller!kubeVars,
                              Controller!envVars, Told
  <2>3. CASE next # NumDevices
    <3>1. pc'["hc"] = "adddev" /\ pc'["main"] \notin StartPC
      BY <1>1, <1>4, <2>3 DEF AddDev, HcPC
    <3>2. StageOf' = StageOf
      BY <3>1, <1>2, StageValueNext DEF StageInHc
    <3>3. QED
      BY <3>2, <1>3, <2>1, Stutter DEF Serving
  <2>4. QED
    BY <2>2, <2>3
<1>5. CASE next \notin nodes
  <2>1. pc'["hc"] = "dead" /\ pc'["main"] \notin StartPC
    BY <1>1, <1>5 DEF AddDev, HcPC
  <2>2. Controller!Goto(Self, "dead")
    BY <2>1, StageValueNext, StageStep DEF StageInHc
  <2>3. Controller!CloseWatcher(Self)
    BY <1>5, CloseStep DEF AddDev
  <2>4. UNCHANGED <<One(gen), One(server # 0),
                    Gen(sock), kubelet, Gen(registered), Gen(endpoint), restarts,
                       crashes>>
    BY <1>3 DEF One, Gen
  <2>5. QED
    BY <1>2, <1>3, <2>2, <2>3, <2>4 DEF Controller!HealthFails, Controller!mainVars,
                                  Controller!kubeVars, Controller!envVars
<1>6. QED
  BY <1>4, <1>5

\* SetupFault is HealthFails.
LEMMA HealthFailsRefines ==
    ASSUME IInv, SetupFault
    PROVE  Controller!HealthFails(Self)
<1>1. /\ pc["hc"] \in {"setup", "adddev"} /\ pc'["hc"] = "dead"
      /\ pc["main"] \notin StartPC /\ pc'["main"] \notin StartPC
  BY StageOfHc DEF IInv, SetupFault, HcPC
<1>2. One(StageOf)[Self] \in {"watch", "nodes"}
  BY <1>1, StageValue, OneValue DEF StageInHc
<1>3. Controller!Goto(Self, "dead")
  BY <1>1, StageValueNext, StageStep DEF StageInHc
<1>4. Controller!CloseWatcher(Self)
  BY CloseStep DEF SetupFault
<1>5. UNCHANGED <<One(gen), One(server # 0),
                  Gen(sock), kubelet, Gen(registered), Gen(endpoint), restarts, crashes>>
  BY DEF SetupFault, dpiVars, kubeVars, One, Gen
<1>6. UNCHANGED Controller!lwVars
  BY SameHandlers DEF SetupFault, dpiVars
<1>7. QED
  BY <1>2, <1>3, <1>4, <1>5, <1>6 DEF Controller!HealthFails, Controller!mainVars,
                                Controller!kubeVars, Controller!envVars

\* The event of a device leaves the queue, and what it says of the socket does not.
LEMMA ToldTail ==
    ASSUME TypeOK, events # <<>>, Head(events).name # SocketPath, events' = Tail(events)
    PROVE  Told' = Told
<1> DEFINE e == [name |-> SocketPath, op |-> "Remove"]
<1>1. events \in Seq(Events)
  BY DEF TypeOK
<1>2. /\ Len(events') = Len(events) - 1 /\ Len(events) \in Nat \ {0}
      /\ \A i \in 1..Len(events') : events'[i] = events[i + 1]
      /\ Head(events) = events[1]
  BY <1>1
<1>3. events[1] # e
  BY <1>2
<1>4. ASSUME NEW i \in 1..Len(events), events[i] = e
      PROVE  i - 1 \in 1..Len(events') /\ events'[i - 1] = e
  BY <1>2, <1>3, <1>4
<1>5. ASSUME NEW i \in 1..Len(events'), events'[i] = e
      PROVE  i + 1 \in 1..Len(events) /\ events[i + 1] = e
  BY <1>2, <1>5
<1>6. QED
  BY <1>4, <1>5 DEF Told

\* DeviceEvent is DeviceEvent.
LEMMA DeviceEventRefines ==
    ASSUME IInv, DeviceEvent
    PROVE  Controller!DeviceEvent(Self)
<1>1. /\ pc["hc"] = "loop" /\ pc'["hc"] = "send"
      /\ pc["main"] \notin StartPC /\ pc'["main"] \notin StartPC
  BY StageOfHc DEF IInv, DeviceEvent, HcPC
<1>2. One(StageOf)[Self] = "loop"
  BY <1>1, StageValue, OneValue DEF StageInHc
<1>3. Controller!Goto(Self, "send")
  BY <1>1, StageValueNext, StageStep DEF StageInHc
<1>4. Told' = Told
  BY ToldTail DEF DeviceEvent, IInv, Devices, SocketPath
<1>5. UNCHANGED <<One(gen), One(server # 0), One(SocketPath \in watched), One(Told),
                  Gen(sock), kubelet, Gen(registered), Gen(endpoint), restarts, crashes>>
  BY <1>4 DEF DeviceEvent, dpiVars, kubeVars, envVars, One, Gen, Told
<1>6. UNCHANGED Controller!lwVars
  BY SameHandlers DEF DeviceEvent, dpiVars
<1>7. QED
  BY <1>2, <1>3, <1>5, <1>6 DEF Controller!DeviceEvent, Controller!mainVars,
     Controller!kubeVars, Controller!envVars, Told

\* SocketRemoved is SocketRemoved: there is a server, so it goes on to stop it.
LEMMA SocketRemovedRefines ==
    ASSUME IInv, SocketRemoved
    PROVE  Controller!SocketRemoved(Self)
<1>1. server # 0 /\ pc["hc"] = "loop"
  BY DEF IInv, ServerInv, SocketRemoved, Restart
<1>2. /\ pc["main"] \notin StartPC /\ pc'["main"] \notin StartPC /\ pc'["hc"] = "term"
  BY <1>1, StageOfHc DEF IInv, SocketRemoved, Restart, HcPC
<1>3. One(StageOf)[Self] = "loop"
  BY <1>1, <1>2, StageValue, OneValue DEF StageInHc
<1>4. Controller!Goto(Self, "term")
  BY <1>2, StageValueNext, StageStep DEF StageInHc
<1>5. Controller!CloseWatcher(Self)
  BY CloseStep DEF SocketRemoved, Restart
<1>6. One(Told)[Self]
  <2>1. events \in Seq(Events) /\ events # <<>>
    BY DEF SocketRemoved, Restart, IInv, TypeOK
  <2>2. 1 \in 1..Len(events) /\ events[1] = Head(events)
    BY <2>1
  <2>3. Told
    BY <2>2 DEF SocketRemoved, Restart, Told
  <2>4. QED
    BY <2>3 DEF One
<1>7. One(server # 0)[Self]
  BY <1>1, ServingStep DEF Serving
<1>8. UNCHANGED <<One(gen), One(server # 0),
                  Gen(sock), kubelet, Gen(registered), Gen(endpoint), restarts, crashes>>
  BY DEF SocketRemoved, Restart, dpiVars, kubeVars, envVars, One, Gen
<1>9. UNCHANGED Controller!lwVars
  BY SameHandlers DEF SocketRemoved, dpiVars
<1>10. QED
  BY <1>3, <1>4, <1>5, <1>6, <1>7, <1>8, <1>9 DEF Controller!SocketRemoved,
     Controller!mainVars, Controller!kubeVars, Controller!envVars, Told

\* StopTerm is Signal: to a handler that waits, or into the channel.
LEMMA StopTermRefines ==
    ASSUME IInv, StopTerm
    PROVE  Controller!Signal(Self)
<1>1. /\ pc["hc"] = "term" /\ pc'["hc"] = "stop"
      /\ pc["main"] \notin StartPC /\ pc'["main"] \notin StartPC
  BY StageOfHc DEF IInv, StopTerm, SignalTerm, HcPC
<1>2. One(StageOf)[Self] = "term"
  BY <1>1, StageValue, OneValue DEF StageInHc
<1>3. Controller!Goto(Self, "stop")
  BY <1>1, StageValueNext, StageStep DEF StageInHc
<1>4. UNCHANGED <<One(gen), One(server # 0), One(SocketPath \in watched), One(Told),
                  Gen(sock), kubelet, Gen(registered), restarts, crashes>>
  BY DEF StopTerm, SignalTerm, watchVars, envVars, One, Gen, Told
<1>5. CASE \E g \in Parked : lw' = [lw EXCEPT ![g] = "done"] /\ CloseStream(g) /\ term' = term
  <2>1. PICK g \in Parked :
              lw' = [lw EXCEPT ![g] = "done"] /\ CloseStream(g) /\ term' = term
    BY <1>5
  <2>2. g \in Gens /\ Alive(g) /\ gen' = gen /\ TypeOK
    BY DEF Parked, Alive, StopTerm, SignalTerm, IInv
  <2>3. g \in One(Running)[Self] /\ Controller!EndHandler(Self, g)
    BY <2>1, <2>2, HandlerReturns
  <2>4. One(term = 1)' = One(term = 1)
    BY <2>1 DEF One
  <2>5. QED
    BY <1>2, <1>3, <1>4, <2>3, <2>4
       DEF Controller!Signal, Controller!mainVars, Controller!envVars, Told
<1>6. CASE term = 0 /\ term' = 1 /\ UNCHANGED <<lw, endpoint, view>>
  <2>1. ~One(term = 1)[Self]
    <3>1. (term = 1) = FALSE
      BY <1>6
    <3>2. QED
      BY <3>1, OneValue
  <2>2. One(term = 1)' = [One(term = 1) EXCEPT ![Self] = TRUE]
    BY <1>6 DEF One
  <2>3. UNCHANGED <<One(Running), One(Ended), Gen(endpoint)>>
    BY <1>6 DEF StopTerm, SignalTerm, One, Running, Alive, Ended, Gen
  <2>4. QED
    BY <1>2, <1>3, <1>4, <2>1, <2>2, <2>3
       DEF Controller!Signal, Controller!mainVars, Controller!envVars, Told, Ended
<1>7. QED
  BY <1>5, <1>6 DEF StopTerm, SignalTerm

\* StopServer is StopServer.
LEMMA StopServerRefines ==
    ASSUME IInv, ServerIsLatest, StopServer
    PROVE  Controller!StopServer(Self)
<1>1. /\ pc["hc"] = "stop" /\ pc'["hc"] = "clear"
      /\ pc["main"] \notin StartPC /\ pc'["main"] \notin StartPC
  BY StageOfHc DEF IInv, StopServer, HcPC
<1>2. One(StageOf)[Self] = "stop"
  BY <1>1, StageValue, OneValue DEF StageInHc
<1>3. Controller!Goto(Self, "clear")
  BY <1>1, StageValueNext, StageStep DEF StageInHc
<1>4. Controller!Unlink({One(SocketPath)[Self]})
  BY UnlinkStep, OneValue DEF IInv, StopServer
<1>5. Controller!CloseStream(Self, One(gen)[Self])
  <2>1. server # 0 /\ server = gen /\ (endpoint # 0 => endpoint = gen) /\ endpoint' = 0
    BY <1>1 DEF StopServer, CloseStream, IInv, ServerInv, StreamInv, StreamIsCurrent,
                ServerIsLatest
  <2>2. One(gen)[Self] = gen /\ One(SocketPath)[Self] = SocketPath
    BY OneValue
  <2>3. Gen(endpoint)' = [Gen(endpoint) EXCEPT ![SocketPath] = @ \ {<<Self, gen>>}]
    BY <2>1 DEF Gen
  <2>4. QED
    BY <2>2, <2>3 DEF Controller!CloseStream
<1>6. UNCHANGED <<One(gen), One(server # 0), One(SocketPath \in watched),
                  kubelet, Gen(registered), restarts, crashes>>
  BY DEF StopServer, dpiVars, envVars, One, Gen
<1>7. UNCHANGED Controller!lwVars
  BY SameHandlers DEF StopServer, dpiVars
<1>8. QED
  BY <1>2, <1>3, <1>4, <1>5, <1>6, <1>7
     DEF Controller!StopServer, Controller!mainVars, Controller!envVars

\* StopClear is StopClear.
LEMMA StopClearRefines ==
    ASSUME IInv, StopClear
    PROVE  Controller!StopClear(Self)
<1>1. /\ pc["hc"] = "clear" /\ pc'["hc"] = "cleanup"
      /\ pc["main"] \notin StartPC /\ pc'["main"] \notin StartPC
  BY StageOfHc DEF IInv, StopClear, Cleanup, HcPC, StartPC
<1>2. One(StageOf)[Self] = "clear"
  BY <1>1, StageValue, OneValue DEF StageInHc
<1>3. Controller!Goto(Self, "cleanup")
  BY <1>1, StageValueNext, StageStep DEF StageInHc, StartPC
<1>4. Controller!Unlink({One(SocketPath)[Self]})
  BY UnlinkStep, OneValue DEF IInv, StopClear, Cleanup
<1>5. One(server # 0)' = [One(server # 0) EXCEPT ![Self] = FALSE]
  BY ServingStep DEF StopClear, Cleanup, Serving
<1>6. UNCHANGED <<One(gen), One(SocketPath \in watched),
                  kubelet, Gen(registered), Gen(endpoint), restarts, crashes>>
  BY DEF StopClear, Cleanup, kubeVars, envVars, One, Gen
<1>7. UNCHANGED Controller!lwVars
  BY SameHandlers DEF StopClear
<1>8. QED
  BY <1>2, <1>3, <1>4, <1>5, <1>6, <1>7
     DEF Controller!StopClear, Controller!mainVars, Controller!kubeVars,
        Controller!envVars

-----------------------------------------------------------------------------
(* ListAndWatch and the environment.                                       *)

\* LWReceive is Deliver, to whatever handler.
LEMMA DeliverRefines ==
    ASSUME IInv, NEW g \in Gens, LWReceive(g)
    PROVE  Controller!Deliver(Self)
<1>1. /\ pc["hc"] = "send" /\ pc'["hc"] = "loop"
      /\ pc["main"] \notin StartPC /\ pc'["main"] \notin StartPC
  BY StageOfHc DEF IInv, LWReceive, Marked, HcPC
<1>2. One(StageOf)[Self] = "send"
  BY <1>1, StageValue, OneValue DEF StageInHc
<1>3. Controller!Goto(Self, "loop")
  BY <1>1, StageValueNext, StageStep DEF StageInHc
<1>4. Alive(g)
  BY DEF LWReceive, Marked, Alive
<1>5. One(Running)[Self] # {}
  BY <1>4 DEF One, Running
<1>6. UNCHANGED Controller!lwVars
  BY <1>4, StillRunning DEF IInv, LWReceive, Marked
<1>7. UNCHANGED <<One(gen), One(server # 0), One(SocketPath \in watched), One(Told),
                  Gen(sock), kubelet, Gen(registered), Gen(endpoint), restarts, crashes>>
  BY DEF LWReceive, Marked, watchVars, kubeVars, envVars, One, Gen, Told
<1>8. QED
  BY <1>2, <1>3, <1>5, <1>6, <1>7 DEF Controller!Deliver, Controller!mainVars,
     Controller!kubeVars, Controller!envVars, Told

\* LWTakeTerm is TakeToken.
LEMMA TakeTokenRefines ==
    ASSUME IInv, NEW g \in Gens, LWTakeTerm(g)
    PROVE  Controller!TakeToken(Self)
<1>1. term = 1 /\ term' = 0 /\ gen' = gen /\ Alive(g) /\ TypeOK
      /\ lw' = [lw EXCEPT ![g] = "done"] /\ CloseStream(g)
  BY DEF LWTakeTerm, Alive, IInv
<1>2. g \in One(Running)[Self] /\ Controller!EndHandler(Self, g)
  BY <1>1, HandlerReturns
<1>3. One(term = 1)[Self]
  BY <1>1 DEF One
<1>4. One(term = 1)' = [One(term = 1) EXCEPT ![Self] = FALSE]
  <2>1. (term = 1)' = FALSE
    BY <1>1
  <2>2. QED
    BY <2>1 DEF One
<1>5. UNCHANGED <<One(StageOf), One(gen), One(server # 0), One(SocketPath \in watched),
                  One(Told), Gen(sock), kubelet, Gen(registered), restarts, crashes>>
  BY SameStage DEF LWTakeTerm, watchVars, envVars, One, Gen, Told
<1>6. QED
  BY <1>2, <1>3, <1>4, <1>5 DEF Controller!TakeToken, Controller!mainVars,
     Controller!envVars, Told

\* What else a handler does stays inside.
LEMMA ListAndWatchRefines ==
    ASSUME IInv, NEW g \in Gens, ListAndWatch(g)
    PROVE  \/ Controller!Deliver(Self) \/ Controller!TakeToken(Self)
           \/ UNCHANGED Controller!vars
<1>1. CASE LWSend(g) \/ LWPark(g)
  <2>1. UNCHANGED Controller!lwVars
    BY <1>1, StillRunning DEF IInv, LWSend, LWPark, Alive, dpiVars
  <2>2. QED
    BY <1>1, <2>1, SameStage, Stutter
       DEF LWSend, Sent, LWPark, dpiVars, watchVars, kubeVars, envVars, Serving,
          Watching, Told
<1>2. QED
  BY <1>1, DeliverRefines, TakeTokenRefines DEF ListAndWatch

\* The kubelet goes down in both.
LEMMA KubeletCrashRefines ==
    ASSUME KubeletCrash
    PROVE  Controller!KubeletCrash
<1>1. registered' = 0 /\ endpoint' = 0
  BY DEF KubeletCrash
<1>2. Gen(registered)' = Controller!None /\ Gen(endpoint)' = Controller!None
  BY <1>1 DEF Gen, Controller!None
<1>3. UNCHANGED <<One(StageOf), One(gen), One(server # 0), One(SocketPath \in watched),
                  One(Told), Gen(sock), crashes>>
  BY SameStage DEF KubeletCrash, dpiVars, watchVars, One, Gen, Told
<1>4. UNCHANGED Controller!lwVars
  BY SameHandlers DEF KubeletCrash, dpiVars
<1>5. QED
  BY <1>2, <1>3, <1>4 DEF KubeletCrash, Controller!KubeletCrash, Controller!mainVars, Told

\* It empties the directory, of which the plugin's path is all there is.
LEMMA KubeletWipeRefines ==
    ASSUME IInv, KubeletWipe
    PROVE  Controller!KubeletWipe
<1>1. Controller!Unlink({SocketPath})
  BY UnlinkStep DEF IInv, KubeletWipe
<1>2. UNCHANGED <<One(StageOf), One(gen), One(server # 0), One(SocketPath \in watched),
                  Gen(registered), Gen(endpoint), restarts, crashes>>
  BY SameStage DEF KubeletWipe, dpiVars, envVars, One, Gen
<1>3. UNCHANGED Controller!lwVars
  BY SameHandlers DEF KubeletWipe, dpiVars
<1>4. QED
  BY <1>1, <1>2, <1>3
     DEF KubeletWipe, Controller!KubeletWipe, Controller!mainVars, Controller!envVars

\* It serves.
LEMMA KubeletServeRefines ==
    ASSUME KubeletServe
    PROVE  Controller!KubeletServe
<1>1. UNCHANGED <<One(StageOf), One(gen), One(server # 0), One(SocketPath \in watched),
                  One(Told), Gen(sock), Gen(registered), Gen(endpoint), restarts,
                     crashes>>
  BY SameStage DEF KubeletServe, dpiVars, watchVars, envVars, One, Gen, Told
<1>2. UNCHANGED Controller!lwVars
  BY SameHandlers DEF KubeletServe, dpiVars
<1>3. QED
  BY <1>1, <1>2 DEF KubeletServe, Controller!KubeletServe, Controller!mainVars,
              Controller!envVars, Told

\* It dials the server that has registered: it is there in both or in neither.
LEMMA KubeletDialRefines ==
    ASSUME IInv, ServerIsLatest, KubeletDial
    PROVE  Controller!KubeletDial(SocketPath)
<1>1. registered # 0 /\ registered' = 0 /\ kubelet = "up"
  BY DEF KubeletDial
<1>2. Gen(registered)[SocketPath] = {<<Self, registered>>} /\ {<<Self, registered>>} # {}
  BY <1>1 DEF Gen
<1>3. Gen(registered)' = [Gen(registered) EXCEPT ![SocketPath] = {}]
  BY <1>1 DEF Gen
<1>4. Controller!This(Self) = <<Self, gen>>
  BY OneValue DEF Controller!This
<1>5. Gen(sock)[SocketPath] = Gen(registered)[SocketPath] <=> sock = registered
  <2>1. Gen(sock)[SocketPath] = IF sock = 0 THEN {} ELSE {<<Self, sock>>}
    BY DEF Gen
  <2>2. ASSUME {<<Self, sock>>} = {<<Self, registered>>} PROVE sock = registered
    <3>1. <<Self, sock>> \in {<<Self, registered>>}
      BY <2>2, Zenon
    <3>2. QED
      BY <3>1
  <2>3. QED
    BY <1>1, <1>2, <2>1, <2>2
<1>6. Controller!This(Self) \in Gen(registered)[SocketPath] /\ One(server # 0)[Self]
         <=> server = registered
  <2>1. One(server # 0)[Self] <=> server # 0
    BY ServingStep DEF Serving
  <2>2. <<Self, gen>> \in {<<Self, registered>>} <=> gen = registered
    OBVIOUS
  <2>3. server # 0 /\ gen = registered <=> server = registered
    <3>1. CASE server # 0
      BY <3>1 DEF ServerIsLatest
    <3>2. CASE server = 0
      BY <3>2, <1>1
    <3>3. QED
      BY <3>1, <3>2
  <2>4. QED
    BY <1>2, <1>4, <2>1, <2>2, <2>3
<1>7. endpoint' = IF sock = registered /\ server = registered THEN registered ELSE endpoint
  BY DEF KubeletDial
<1>8. Gen(endpoint)' = IF sock = registered /\ server = registered
                       THEN [Gen(endpoint) EXCEPT ![SocketPath] = {<<Self, registered>>}]
                       ELSE Gen(endpoint)
  BY <1>1, <1>7 DEF Gen
<1>9. Controller!Answering(SocketPath) = IF sock = registered /\ server = registered
                                         THEN {Self} ELSE {}
  BY <1>5, <1>6 DEF Controller!Answering
<1>10. One(Running)' = [p \in {Self} |-> One(Running)[p] \cup
           (IF p \in Controller!Answering(SocketPath) THEN {One(gen)[p]} ELSE {})]
  <2>1. CASE sock = registered /\ server = registered
    <3>1. registered = gen /\ registered \in Gens
      BY <1>1, <2>1, MaxGenAssumption DEF IInv, TypeOK, Gens, ServerIsLatest
    <3>2. Running' = Running \cup {gen}
      BY <2>1, <3>1 DEF KubeletDial, IInv, TypeOK, Running, Alive
    <3>3. QED
      BY <1>9, <2>1, <3>2 DEF One
  <2>2. CASE ~(sock = registered /\ server = registered)
    <3>1. Running' = Running
      BY <2>2 DEF KubeletDial, Running, Alive
    <3>2. QED
      BY <1>9, <2>2, <3>1 DEF One
  <2>3. QED
    BY <2>1, <2>2
<1>11. UNCHANGED <<One(term = 1), One(Ended)>>
  <2>1. gen' = gen /\ term' = term
    BY DEF KubeletDial, dpiVars
  <2>2. Ended' <=> Ended
    <3>1. CASE sock = registered /\ server = registered
      <4>1. registered = gen /\ registered \in Gens /\ lw[gen] = "none"
        BY <1>1, <3>1, MaxGenAssumption DEF IInv, TypeOK, Gens, ServerIsLatest, HandlerInv
      <4>2. QED
        BY <2>1, <3>1, <4>1 DEF KubeletDial, IInv, TypeOK, Ended
    <3>2. CASE ~(sock = registered /\ server = registered)
      BY <2>1, <3>2 DEF KubeletDial, Ended
    <3>3. QED
      BY <3>1, <3>2
  <2>3. QED
    BY <2>1, <2>2 DEF One, Ended
<1>12. UNCHANGED <<One(StageOf), One(gen), One(server # 0), One(SocketPath \in watched),
                  One(Told), Gen(sock), kubelet, restarts, crashes>>
  BY SameStage DEF KubeletDial, dpiVars, watchVars, envVars, One, Gen, Told
<1>13. Gen(endpoint)' = IF Controller!Answering(SocketPath) = {} THEN Gen(endpoint)
                        ELSE [Gen(endpoint) EXCEPT ![SocketPath] = Gen(registered)[SocketPath]]
  BY <1>2, <1>8, <1>9
<1>14. QED
  BY <1>1, <1>2, <1>3, <1>10, <1>11, <1>12, <1>13
     DEF Controller!KubeletDial, Controller!mainVars, Controller!envVars, Told, Ended

\* A node comes or goes: the queue grows by an event that says nothing of the socket.
LEMMA NodeRefines ==
    ASSUME IInv, NEW d \in Devices, NodeRemove(d) \/ NodeCreate(d)
    PROVE  UNCHANGED Controller!vars
<1>1. d # SocketPath
  BY DEF Devices, SocketPath
<1>2. Watching' = Watching
  BY <1>1 DEF NodeRemove, NodeCreate, Watching
<1>3. PICK op \in {"Create", "Remove"} : events' = Report(d, op)
  BY DEF NodeRemove, NodeCreate
<1>4. Told' = Told
  <2> DEFINE e == [name |-> d, op |-> op]
  <2>1. CASE d \in watched
    <3>1. e \in Events /\ e.name = d
      BY NewEvent DEF Names
    <3>2. events \in Seq(Events) /\ events' = Append(events, e)
      BY <1>3, <2>1 DEF Report, IInv, TypeOK
    <3> HIDE DEF e
    <3>3. /\ Len(events) \in Nat /\ Len(events') = Len(events) + 1
          /\ events'[Len(events) + 1] = e
          /\ \A i \in 1..Len(events) : events'[i] = events[i]
      BY <3>1, <3>2
    <3>4. e # [name |-> SocketPath, op |-> "Remove"]
      BY <1>1, <3>1
    <3>5. QED
      BY <3>3, <3>4 DEF Told
  <2>2. CASE d \notin watched
    BY <1>3, <2>2 DEF Report, Told
  <2>3. QED
    BY <2>1, <2>2
<1>5. /\ pc' = pc /\ gen' = gen /\ server' = server /\ sock' = sock
      /\ UNCHANGED <<kubelet, registered, endpoint, restarts, crashes>>
  BY DEF NodeRemove, NodeCreate, dpiVars, kubeVars, envVars
<1>6. UNCHANGED Controller!lwVars
  BY SameHandlers DEF NodeRemove, NodeCreate, dpiVars
<1>7. QED
  BY <1>2, <1>4, <1>5, <1>6, SameStage, Stutter DEF Serving

\* The process is started anew in both.
LEMMA ProcessCrashRefines ==
    ASSUME IInv, ProcessCrash
    PROVE  Controller!ProcessCrash
<1>1. pc'["main"] = "cleanup" /\ pc'["main"] \in StartPC
  BY DEF ProcessCrash, Threads, StartPC
<1>2. StageOf' = "cleanup"
  BY <1>1, StageValueNext DEF StageInMain
<1>3. One(StageOf)' = [q \in {Self} |-> IF q = Self THEN "cleanup" ELSE "none"]
  BY <1>2 DEF One
<1>4. (server # 0)' = FALSE /\ (SocketPath \in watched)' = FALSE /\ Told' = FALSE
  BY DEF ProcessCrash, CloseWatcher, Told
<1>5. /\ One(server # 0)' = [p \in {Self} |-> FALSE]
      /\ One(SocketPath \in watched)' = [p \in {Self} |-> FALSE]
      /\ One(Told)' = [p \in {Self} |-> FALSE]
  BY <1>4 DEF One
<1>6. Gen(endpoint)' = Controller!None
  BY DEF ProcessCrash, Gen, Controller!None
<1>7. UNCHANGED <<One(gen), Gen(sock), kubelet, Gen(registered), restarts>>
  BY DEF ProcessCrash, One, Gen
<1>8. crashes < MaxCrashes /\ crashes' = crashes + 1
  BY DEF ProcessCrash
<1>9. Self' = Self /\ {}' = {Self} \ {Self}
  OBVIOUS
<1>10. One(term = 1)' = [p \in {Self} |-> FALSE]
  <2>1. (term = 1)' = FALSE
    BY DEF ProcessCrash
  <2>2. QED
    BY <2>1 DEF One
<1>11. One(Running)' = [p \in {Self} |-> {}]
  BY DEF ProcessCrash, One, Running, Alive
<1>12. One(Ended)' = [p \in {Self} |-> One(Ended)[p] \/ One(gen)[p] \in One(Running)[p]]
  <2>1. Ended' <=> Ended \/ gen \in Running
    BY MaxGenAssumption DEF ProcessCrash, Ended, Running, Alive, IInv, TypeOK, Gens
  <2>2. QED
    BY <2>1 DEF One, Ended
<1>13. QED
  BY <1>3, <1>5, <1>6, <1>7, <1>8, <1>9, <1>10, <1>11, <1>12
     DEF Controller!ProcessCrash, Told, Ended

-----------------------------------------------------------------------------
\* Every step of the detailed plugin is one of the controller's plugin, or none.
LEMMA RefinementStep ==
    ASSUME IInv, ServerIsLatest, [Next]_vars
    PROVE  [Controller!Next]_(Controller!vars)
<1> DEFINE Step == Controller!Next \/ UNCHANGED Controller!vars
<1>1. CASE UNCHANGED vars
  BY <1>1, SameStage, SameHandlers, Stutter
     DEF vars, dpiVars, watchVars, kubeVars, envVars, Serving, Watching, Told
<1>2. ASSUME NEW t \in Threads, Start(t) PROVE Controller!Start(Self)
  BY <1>2, CleanupRefines, ListenRefines, RegisterRefines, StartFailsRefines
     DEF Start, Controller!Start
<1>3. CASE healthCheck
  BY <1>3, WatchRefines, AddDevRefines, DeviceEventRefines, SocketRemovedRefines,
     StopTermRefines, StopServerRefines, StopClearRefines
     DEF healthCheck, Stop, Controller!Next, Controller!Plugin,
         Controller!Goroutine, Controller!healthCheck, Controller!Stop
<1>4. ASSUME NEW g \in Gens, ListAndWatch(g) PROVE Step
  BY <1>4, ListAndWatchRefines DEF Controller!Next, Controller!Plugin,
     Controller!Goroutine, Controller!healthCheck
<1>5. CASE Kubelet
  BY <1>5, KubeletWipeRefines, KubeletServeRefines, KubeletDialRefines
     DEF Kubelet, Controller!Next, Controller!Kubelet
<1>6. CASE Fault
  BY <1>6, HealthFailsRefines, StartFailsRefines
     DEF Fault, Controller!Next, Controller!Plugin,
        Controller!Goroutine, Controller!healthCheck, Controller!Start
<1>7. CASE KubeletCrash \/ ProcessCrash
  BY <1>7, KubeletCrashRefines, ProcessCrashRefines DEF Controller!Next
<1>8. ASSUME NEW d \in Devices, NodeRemove(d) \/ NodeCreate(d) PROVE Step
  BY <1>8, NodeRefines
<1>9. QED
  BY <1>1, <1>2, <1>3, <1>4, <1>5, <1>6, <1>7, <1>8
     DEF Next, Environment, Controller!Next, Controller!Plugin, Controller!Goroutine

\* For any number of devices, of kubelet and process restarts, of removals and of
\* failing calls: Start, Stop, restart, healthCheck and ListAndWatch together are the
\* plugin that createDevicePlugins and the other plugins are modelled against.
THEOREM PluginRefines == Spec => ImplementsController
<1>1. Init => ServerIsLatest
  BY DEF Init, ServerIsLatest
<1>2. IInv /\ ServerIsLatest /\ [Next]_vars => ServerIsLatest'
  BY LatestInductive
<1>3. IInv /\ ServerIsLatest /\ [Next]_vars => [Controller!Next]_(Controller!vars)
  BY RefinementStep
<1>4. QED
  BY <1>1, <1>2, <1>3, RefinementInit, Invariance, PTL
     DEF Spec, ImplementsController, Controller!Safety
=============================================================================
