------------------------ MODULE GenericDevicePlugin ------------------------
(***************************************************************************)
(* One device plugin of pkg/device_plugin/generic_device_plugin.go: its    *)
(* gRPC server on a unix socket, its registration with the kubelet, the    *)
(* ListAndWatch handlers that stream the device list, and the healthCheck  *)
(* goroutine that watches the device nodes and the socket file.            *)
(*                                                                         *)
(* Threads: "main" is the goroutine of createDevicePlugins that calls      *)
(* Start; "hc" is the one healthCheck goroutine that is alive (a restart   *)
(* is run by the old one, which returns once Start has spawned the next).  *)
(* Every server that Start creates has a generation; the ListAndWatch      *)
(* handlers are named by the generation of the server they run in.         *)
(*                                                                         *)
(* The channel dpi.stop is left out: no code outside the tests sends on    *)
(* it or closes it.                                                        *)
(***************************************************************************)
EXTENDS Integers, Sequences, FiniteSets

CONSTANTS
    NumDevices,   \* the length of dpi.devs
    MaxGen,       \* bound: servers ever created
    MaxRestarts,  \* bound: kubelet restarts
    MaxCrashes,   \* bound: restarts of the plugin's own process
    MaxRemovals,  \* bound: removals of each device node
    MaxFaults,    \* bound: system calls of Start and healthCheck that fail
    SlowKubelet,  \* may the kubelet be away for longer than connectionTimeout?
    Calm          \* do disturbances keep off a restart that is under way?

ASSUME NumDevicesAssumption == NumDevices \in Nat \ {0}
ASSUME BoundsAssumption ==
    /\ MaxRestarts \in Nat
    /\ MaxCrashes \in Nat
    /\ MaxRemovals \in Nat
    /\ MaxFaults \in Nat
ASSUME SwitchesAssumption == SlowKubelet \in BOOLEAN /\ Calm \in BOOLEAN
\* Room for every server that NoSpuriousRestart allows: the bound never bites.
ASSUME MaxGenAssumption == MaxGen \in Nat /\ MaxGen >= 1 + MaxRestarts + MaxCrashes

Devices    == 1..NumDevices
Gens       == 1..MaxGen
SocketPath == 0                    \* the event name of the plugin's socket file
Names      == {SocketPath} \cup Devices
Threads    == {"main", "hc"}
Health     == {"Healthy", "Unhealthy"}
Events     == [name : Names, op : {"Create", "Remove"}]
StartPC    == {"cleanup", "listen", "register"}
MainPC     == StartPC \cup {"wait"}
HcPC       == StartPC \cup {"none", "setup", "adddev", "loop", "send",
                            "term", "stop", "clear", "dead"}

VARIABLES
    pc,          \* where each thread is
    gen,         \* the number of servers created so far
    server,      \* dpi.server: a generation, or 0 for nil
    term,        \* the tokens in dpi.term, a channel of capacity 1
    health,      \* dpi.devs[i].Health
    lw,          \* the ListAndWatch handler of each generation
    watched,     \* the files whose changes healthCheck's watcher reports
    events,      \* what its Events channel will deliver
    next,        \* the index of the next device to watch
    msg,         \* the event whose device healthCheck is sending
    sock,        \* the socket file: the generation bound to it, or 0 if absent
    nodes,       \* the devices whose node exists
    kubelet,     \* "up"; "down"; "wiped": started and the directory emptied
    registered,  \* the registration the kubelet has yet to dial, or 0
    endpoint,    \* the generation whose stream the kubelet reads, or 0
    view,        \* the device list the kubelet holds for the resource
    restarts, crashes, removals, faults   \* what the environment has done

dpiVars   == <<gen, server, term, health>>
watchVars == <<watched, events, next, msg>>
kubeVars  == <<kubelet, registered, endpoint, view>>
envVars   == <<restarts, crashes, removals, faults>>
vars == <<pc, dpiVars, lw, watchVars, sock, nodes, kubeVars, envVars>>

None       == [d \in Devices |-> "Absent"]
AllHealthy == [d \in Devices |-> "Healthy"]
NoMsg      == [name |-> SocketPath, op |-> "Create"]

Alive(g) == lw[g] \in {"send", "ready", "parked"}
Running  == {g \in Gens : Alive(g)}
Parked   == {g \in Gens : lw[g] = "parked"}

\* What the watcher's queue becomes when the file of name n is created or removed.
Report(n, op) ==
    IF n \in watched THEN Append(events, [name |-> n, op |-> op]) ELSE events

\* The file at the socket's path, if any, is removed.
Unlink ==
    /\ sock' = 0
    /\ events' = IF sock = 0 THEN events ELSE Report(SocketPath, "Remove")

\* MUTANT: nothing is removed.
Cleanup_Nothing == UNCHANGED <<sock, events>>

\* cleanup, of Start and Stop.
Cleanup == Unlink

\* MUTANT: one watcher serves every healthCheck of the plugin.
CloseWatcher_Shared == UNCHANGED <<watched, events>>

\* healthCheck stops reading its watcher for good: it has returned (and closed
\* it) or it is busy with restart, after which it returns.
CloseWatcher == watched' = {} /\ events' = <<>>

\* MUTANT: an error of Start ends the goroutine of its caller, main's, too.
Failed_Ends(t) == "dead"

\* Where an error of Start leaves its caller: healthCheck returns it,
\* createDevicePlugins logs it and goes on to wait on its stop channel.
Failed(t) == IF t = "main" THEN "wait" ELSE "dead"

Goto(t, l) == pc' = [pc EXCEPT ![t] = l]

\* The stream of generation g breaks; the kubelet withdraws the device list.
CloseStream(g) ==
    /\ endpoint' = IF endpoint = g THEN 0 ELSE endpoint
    /\ view' = IF endpoint = g THEN None ELSE view

-----------------------------------------------------------------------------
(* Start.  cleanup, net.Listen and Register are separate steps: the        *)
(* kubelet may empty the directory between any two of them.                *)

\* Start refuses if there is a server; else it removes a file left at the path.
StartCleanup(t) ==
    /\ pc[t] = "cleanup"
    /\ IF server # 0
       THEN Goto(t, Failed(t)) /\ UNCHANGED <<sock, events>>
       ELSE Goto(t, "listen") /\ Cleanup
    /\ UNCHANGED <<dpiVars, lw, watched, next, msg, nodes, kubeVars, envVars>>

\* net.Listen and NewServer.  An existing file would be "address in use".
Listen(t) ==
    /\ pc[t] = "listen"
    /\ gen < MaxGen
    /\ IF sock # 0
       THEN Goto(t, Failed(t)) /\ UNCHANGED <<gen, server, sock, events>>
       ELSE /\ gen' = gen + 1
            /\ server' = gen + 1
            /\ sock' = gen + 1
            /\ events' = Report(SocketPath, "Create")
            /\ Goto(t, "register")
    /\ UNCHANGED <<term, health, lw, watched, next, msg, nodes,
                   kubeVars, envVars>>

\* The kubelet answers; Start spawns the healthCheck goroutine and returns.  The
\* healthCheck that called restart then returns as well.
RegisterOK(t) ==
    /\ pc[t] = "register"
    /\ kubelet = "up"
    /\ registered' = server
    /\ pc' = [pc EXCEPT !["main"] = "wait", !["hc"] = "setup"]
    /\ UNCHANGED <<dpiVars, lw, watchVars, sock, nodes, kubelet, endpoint, view, envVars>>

\* Register fails: the kubelet does not answer within connectionTimeout, or it
\* cannot dial the socket it is told of.  The server is left running.
RegisterFail(t) ==
    /\ pc[t] = "register"
    /\ IF kubelet = "up" THEN sock # server ELSE SlowKubelet
    /\ Goto(t, Failed(t))
    /\ UNCHANGED <<dpiVars, lw, watchVars, sock, nodes, kubeVars, envVars>>

\* cleanup or net.Listen fails for a reason of its own, or the kubelet answers and
\* refuses the registration: the server, if there is one, is left running.
StartFault(t) ==
    /\ pc[t] \in StartPC
    /\ pc[t] = "register" => kubelet = "up"
    /\ faults < MaxFaults
    /\ faults' = faults + 1
    /\ Goto(t, Failed(t))
    /\ UNCHANGED <<dpiVars, lw, watchVars, sock, nodes, kubeVars,
                   restarts, crashes, removals>>

-----------------------------------------------------------------------------
(* healthCheck.                                                            *)

\* The watcher is created and the directory of the socket added to it.
Setup ==
    /\ pc["hc"] = "setup"
    /\ watched' = {SocketPath}
    /\ next' = 1
    /\ Goto("hc", "adddev")
    /\ UNCHANGED <<dpiVars, lw, events, msg, sock, nodes, kubeVars, envVars>>

\* One round of the loop over dpi.devs; a node that is missing ends healthCheck.
AddDev ==
    /\ pc["hc"] = "adddev"
    /\ next \in Devices
    /\ IF next \in nodes
       THEN /\ watched' = watched \cup {next}
            /\ next' = next + 1
            /\ Goto("hc", IF next = NumDevices THEN "loop" ELSE "adddev")
            /\ events' = events
       ELSE /\ CloseWatcher
            /\ next' = next
            /\ Goto("hc", "dead")
    /\ UNCHANGED <<dpiVars, lw, msg, sock, nodes, kubeVars, envVars>>

\* supportsIOMMUFD, NewWatcher, Add or Stat fails for a reason of its own.
SetupFault ==
    /\ pc["hc"] \in {"setup", "adddev"}
    /\ faults < MaxFaults
    /\ faults' = faults + 1
    /\ Goto("hc", "dead")
    /\ CloseWatcher
    /\ UNCHANGED <<dpiVars, lw, next, msg, sock, nodes, kubeVars,
                   restarts, crashes, removals>>

\* The event of a device: healthCheck goes to send its ID on an unbuffered channel.
DeviceEvent ==
    /\ pc["hc"] = "loop"
    /\ events # <<>>
    /\ Head(events).name \in Devices
    /\ msg' = Head(events)
    /\ events' = Tail(events)
    /\ Goto("hc", "send")
    /\ UNCHANGED <<dpiVars, lw, watched, next, sock, nodes, kubeVars, envVars>>

\* MUTANT: healthCheck ends where it should restart the plugin.
Restart_Never == "dead"

\* restart refuses if there is no server, else it goes on to Stop.
Restart == IF server = 0 THEN "dead" ELSE "term"

\* The removal of the socket file: healthCheck runs restart.
SocketRemoved ==
    /\ pc["hc"] = "loop"
    /\ events # <<>>
    /\ Head(events) = [name |-> SocketPath, op |-> "Remove"]
    /\ CloseWatcher
    /\ Goto("hc", Restart)
    /\ UNCHANGED <<dpiVars, lw, next, msg, sock, nodes, kubeVars, envVars>>

-----------------------------------------------------------------------------
(* Stop.                                                                   *)

\* MUTANT: Stop does not wait until a full channel takes its token.
SignalTerm_Dropped == UNCHANGED <<term, lw, endpoint, view>>

\* MUTANT: Stop leaves a token behind for the handler it has woken.
SignalTerm_Twice ==
    /\ IF Parked = {} THEN UNCHANGED <<lw, endpoint, view>>
       ELSE \E g \in Parked : lw' = [lw EXCEPT ![g] = "done"] /\ CloseStream(g)
    /\ term' = 1

\* dpi.term <- true: to a handler that waits, else into the buffer, else block.
SignalTerm ==
    \/ \E g \in Parked :
          /\ lw' = [lw EXCEPT ![g] = "done"]
          /\ CloseStream(g)
          /\ term' = term
    \/ /\ Parked = {}
       /\ term = 0
       /\ term' = 1
       /\ UNCHANGED <<lw, endpoint, view>>

StopTerm ==
    /\ pc["hc"] = "term"
    /\ Goto("hc", "stop")
    /\ SignalTerm
    /\ UNCHANGED <<gen, server, health, watchVars, sock, nodes,
                   kubelet, registered, envVars>>

\* server.Stop: the listener unlinks the path, whatever is there, and the
\* connections are closed; the handlers are not waited for.
StopServer ==
    /\ pc["hc"] = "stop"
    /\ Unlink
    /\ CloseStream(server)
    /\ Goto("hc", "clear")
    /\ UNCHANGED <<dpiVars, lw, watched, next, msg, nodes,
                   kubelet, registered, envVars>>

\* MUTANT: dpi.server is not reset.
StopClear_KeepServer ==
    /\ pc["hc"] = "clear"
    /\ Cleanup
    /\ Goto("hc", "cleanup")
    /\ UNCHANGED <<dpiVars, lw, watched, next, msg, nodes, kubeVars, envVars>>

\* dpi.server = nil, and cleanup, whose error restart ignores.
StopClear ==
    /\ pc["hc"] = "clear"
    /\ server' = 0
    /\ Cleanup
    /\ Goto("hc", "cleanup")
    /\ UNCHANGED <<gen, term, health, lw, watched, next, msg, nodes,
                   kubeVars, envVars>>

-----------------------------------------------------------------------------
(* ListAndWatch.  A handler never looks at the context of its stream and   *)
(* ignores the errors of Send: it outlives the stream.                     *)

\* MUTANT: what is sent is a copy made when the plugin was created.
Sent_Copy(g) == IF endpoint = g THEN AllHealthy ELSE view

\* What Send leaves the kubelet with: the list, if it still reads this stream.
Sent(g) == IF endpoint = g THEN health ELSE view

LWSend(g) ==
    /\ lw[g] = "send"
    /\ lw' = [lw EXCEPT ![g] = "ready"]
    /\ view' = Sent(g)
    /\ UNCHANGED <<pc, dpiVars, watchVars, sock, nodes, kubelet, registered,
                   endpoint, envVars>>

\* MUTANT: every device is marked, not the one whose ID was sent.
Marked_All ==
    [d \in Devices |-> IF msg.op = "Create" THEN "Healthy" ELSE "Unhealthy"]

\* MUTANT: the channels healthy and unhealthy are mixed up.
Marked_Swapped ==
    [health EXCEPT ![msg.name] = IF msg.op = "Remove" THEN "Healthy" ELSE "Unhealthy"]

\* The device whose ID was sent is marked.
Marked ==
    [health EXCEPT ![msg.name] = IF msg.op = "Create" THEN "Healthy" ELSE "Unhealthy"]

\* MUTANT: the select has no case for the channel unhealthy.
LWReceive_HealthyOnly(g) ==
    /\ pc["hc"] = "send"
    /\ msg.op = "Create"
    /\ lw[g] = "parked" \/ (lw[g] = "ready" /\ Parked = {})
    /\ health' = Marked
    /\ lw' = [lw EXCEPT ![g] = "send"]
    /\ Goto("hc", "loop")
    /\ UNCHANGED <<gen, server, term, watchVars, sock, nodes, kubeVars, envVars>>

\* The select finds a device ID sent by healthCheck: one that waits has precedence.
LWReceive(g) ==
    /\ pc["hc"] = "send"
    /\ lw[g] = "parked" \/ (lw[g] = "ready" /\ Parked = {})
    /\ health' = Marked
    /\ lw' = [lw EXCEPT ![g] = "send"]
    /\ Goto("hc", "loop")
    /\ UNCHANGED <<gen, server, term, watchVars, sock, nodes, kubeVars, envVars>>

\* The select finds a token in term: the handler returns and its stream ends.
LWTakeTerm(g) ==
    /\ lw[g] = "ready"
    /\ term = 1
    /\ term' = 0
    /\ lw' = [lw EXCEPT ![g] = "done"]
    /\ CloseStream(g)
    /\ UNCHANGED <<pc, gen, server, health, watchVars, sock, nodes,
                   kubelet, registered, envVars>>

\* The select finds nothing and waits.
LWPark(g) ==
    /\ lw[g] = "ready"
    /\ term = 0
    /\ pc["hc"] = "send" => Parked # {}
    /\ lw' = [lw EXCEPT ![g] = "parked"]
    /\ UNCHANGED <<pc, dpiVars, watchVars, sock, nodes, kubeVars, envVars>>

-----------------------------------------------------------------------------
(* The environment: the kubelet, the device nodes, the plugin's process.   *)

\* Everything the last crash or removal set off is over.
Settled ==
    /\ kubelet = "up"
    /\ endpoint # 0
    /\ lw[endpoint] = "parked"
    /\ events = <<>>
    /\ pc["hc"] = "loop"

\* healthCheck is in its loop and the kubelet reads the plugin's stream.
Attended == kubelet = "up" /\ endpoint # 0 /\ pc["hc"] \in {"loop", "send"}

\* The kubelet goes down: it forgets its registrations and its streams break.
KubeletCrash ==
    /\ kubelet = "up"
    /\ restarts < MaxRestarts
    /\ Calm => Settled
    /\ restarts' = restarts + 1
    /\ kubelet' = "down"
    /\ registered' = 0
    /\ endpoint' = 0
    /\ view' = None
    /\ UNCHANGED <<pc, dpiVars, lw, watchVars, sock, nodes, crashes, removals, faults>>

\* The kubelet starts: it empties the directory of the plugins' sockets, ...
KubeletWipe ==
    /\ kubelet = "down"
    /\ kubelet' = "wiped"
    /\ Unlink
    /\ UNCHANGED <<pc, dpiVars, lw, watched, next, msg, nodes,
                   registered, endpoint, view, envVars>>

\* ... and answers registrations.
KubeletServe ==
    /\ kubelet = "wiped"
    /\ kubelet' = "up"
    /\ UNCHANGED <<pc, dpiVars, lw, watchVars, sock, nodes, registered,
                   endpoint, view, envVars>>

\* The kubelet dials the server that registered and calls ListAndWatch, or finds
\* that it is gone and drops the registration.
KubeletDial ==
    /\ kubelet = "up"
    /\ registered # 0
    /\ registered' = 0
    /\ IF sock = registered /\ server = registered
       THEN /\ endpoint' = registered
            /\ lw' = [lw EXCEPT ![registered] = "send"]
       ELSE UNCHANGED <<endpoint, lw>>
    /\ UNCHANGED <<pc, dpiVars, watchVars, sock, nodes, kubelet, view, envVars>>

\* A node is unlinked: inotify reports it and drops its watch of the file.
NodeRemove(d) ==
    /\ d \in nodes
    /\ removals[d] < MaxRemovals
    /\ Calm => Attended
    /\ removals' = [removals EXCEPT ![d] = @ + 1]
    /\ nodes' = nodes \ {d}
    /\ events' = Report(d, "Remove")
    /\ watched' = watched \ {d}
    /\ UNCHANGED <<pc, dpiVars, lw, next, msg, sock, kubeVars,
                   restarts, crashes, faults>>

\* A node is created: only a watch of its path would report it.
NodeCreate(d) ==
    /\ d \notin nodes
    /\ nodes' = nodes \cup {d}
    /\ events' = Report(d, "Create")
    /\ UNCHANGED <<pc, dpiVars, lw, watched, next, msg, sock, kubeVars, envVars>>

\* The process dies and is started anew: only the files and the kubelet remain.
ProcessCrash ==
    /\ crashes < MaxCrashes
    /\ Calm => kubelet = "up"
    /\ crashes' = crashes + 1
    /\ pc' = [t \in Threads |-> IF t = "main" THEN "cleanup" ELSE "none"]
    /\ server' = 0
    /\ term' = 0
    /\ health' = AllHealthy
    /\ lw' = [g \in Gens |-> IF Alive(g) THEN "done" ELSE lw[g]]
    /\ CloseWatcher
    /\ next' = 1
    /\ msg' = NoMsg
    /\ endpoint' = 0
    /\ view' = None
    /\ UNCHANGED <<gen, sock, nodes, kubelet, registered, restarts, removals, faults>>

-----------------------------------------------------------------------------
Init ==
    /\ pc = [t \in Threads |-> IF t = "main" THEN "cleanup" ELSE "none"]
    /\ gen = 0
    /\ server = 0
    /\ term = 0
    /\ health = AllHealthy
    /\ lw = [g \in Gens |-> "none"]
    /\ watched = {}
    /\ events = <<>>
    /\ next = 1
    /\ msg = NoMsg
    /\ sock = 0
    /\ nodes = Devices
    /\ kubelet = "up"
    /\ registered = 0
    /\ endpoint = 0
    /\ view = None
    /\ restarts = 0
    /\ crashes = 0
    /\ removals = [d \in Devices |-> 0]
    /\ faults = 0

Start(t)     == StartCleanup(t) \/ Listen(t) \/ RegisterOK(t) \/ RegisterFail(t)
Stop         == StopTerm \/ StopServer \/ StopClear
healthCheck  == Setup \/ AddDev \/ DeviceEvent \/ SocketRemoved \/ Stop
ListAndWatch(g) == LWSend(g) \/ LWReceive(g) \/ LWTakeTerm(g) \/ LWPark(g)
Kubelet      == KubeletWipe \/ KubeletServe \/ KubeletDial
Fault        == SetupFault \/ \E t \in Threads : StartFault(t)
Environment  == \/ KubeletCrash \/ ProcessCrash \/ Fault
                \/ \E d \in Devices : NodeRemove(d) \/ NodeCreate(d)

Next ==
    \/ \E t \in Threads : Start(t)
    \/ healthCheck
    \/ \E g \in Gens : ListAndWatch(g)
    \/ Kubelet
    \/ Environment

\* The goroutines are scheduled and the kubelet comes back; nothing else is owed.
Fairness ==
    /\ \A t \in Threads : WF_vars(Start(t))
    /\ WF_vars(healthCheck)
    /\ \A g \in Gens : WF_vars(ListAndWatch(g))
    /\ WF_vars(Kubelet)

Spec == Init /\ [][Next]_vars /\ Fairness

-----------------------------------------------------------------------------
(* What must hold.                                                         *)

\* Every variable has its type.
TypeOK ==
    /\ pc \in [Threads -> MainPC \cup HcPC]
    /\ pc["main"] \in MainPC
    /\ pc["hc"] \in HcPC
    /\ gen \in 0..MaxGen
    /\ server \in 0..gen
    /\ term \in 0..1
    /\ health \in [Devices -> Health]
    /\ lw \in [Gens -> {"none", "send", "ready", "parked", "done"}]
    /\ watched \in SUBSET Names
    /\ events \in Seq(Events)
    /\ next \in 1..(NumDevices + 1)
    /\ msg \in Events
    /\ sock \in 0..gen
    /\ nodes \in SUBSET Devices
    /\ kubelet \in {"up", "down", "wiped"}
    /\ registered \in 0..gen
    /\ endpoint \in 0..gen
    /\ view \in [Devices -> Health \cup {"Absent"}]
    /\ restarts \in 0..MaxRestarts
    /\ crashes \in 0..MaxCrashes
    /\ removals \in [Devices -> 0..MaxRemovals]
    /\ faults \in 0..MaxFaults

\* A server is created at the start of the process and after a restart of the
\* kubelet, and for nothing else: the removals that Stop, Start and the listener
\* themselves cause never make healthCheck restart the plugin once more.
NoSpuriousRestart == gen <= 1 + restarts + crashes

\* While the plugin has a server, the file at its path is that server's; and when
\* Start listens the path is free, whatever an earlier process left there: no Stop
\* of an older server removes a newer one's file.
PathIsOwn ==
    /\ server # 0 /\ sock # 0 => sock = server
    /\ \A t \in Threads : pc[t] = "listen" => sock = 0

\* restart is refused without a server and Start with one: neither ever happens.
RestartNeverRefused ==
    /\ pc["hc"] \in {"setup", "adddev", "loop", "send", "term"} => server # 0
    /\ \A t \in Threads : pc[t] \in {"cleanup", "listen"} => server = 0

\* The stream the kubelet reads is served by the current server, and by a handler
\* that has not returned: a restart leaves no stream of the old server behind.
StreamIsCurrent == endpoint # 0 => endpoint = server /\ Alive(endpoint)

\* Stop sends one token for each server it stops, so the handlers that are alive
\* and the token that waits balance: an old handler survives only while the token
\* meant for it is still in the channel, or was taken by a newer one.
HandlerBalance == Cardinality(Running) <= 1 + term

\* A device is marked unhealthy only if its own node was removed.
UnhealthyIsJustified == \A d \in Devices : health[d] = "Unhealthy" => removals[d] > 0

\* ListAndWatch, "update that list according to the health status" (line 205):
\* the kubelet's list is the plugin's, or the handler of its stream is about to
\* send.  Only when a restart finds the old handler waiting: see the README.
ViewCatchesUp == endpoint # 0 /\ view # health => lw[endpoint] = "send"

\* "Send terminate signal to ListAndWatch()" (line 160): the signal ends a handler
\* of the server that is being stopped, never one of the server that follows.
TermEndsOldStreams ==
    [][\A g \in Gens :
         lw[g] # "done" /\ lw'[g] = "done" /\ crashes' = crashes
            => g # server \/ pc["hc"] \in {"term", "stop", "clear"}]_vars

\* While a handler is about to send dpi.devs, no other handler runs: none writes
\* the Health of a device (lines 216, 224) that another one is sending (219, 227),
\* with nothing to order the two.  Only when a restart finds the old handler waiting.
OneWriter == \A g \in Gens : lw[g] = "send" => Running = {g}

\* A removed node that healthCheck watches becomes unhealthy in the list of the
\* kubelet, unless the process dies first: no event and no send is lost on the way,
\* also when several nodes go at once.
WatchedRemovalReported ==
    \A d \in Devices, n \in 0..MaxCrashes :
        (/\ endpoint # 0
         /\ pc["hc"] = "loop"
         /\ \E i \in 1..Len(events) : events[i] = [name |-> d, op |-> "Remove"]
         /\ crashes = n)
            ~> ((endpoint # 0 /\ view[d] = "Unhealthy") \/ crashes > n)

\* When the kubelet has served its last restart, the plugin ends up registered
\* with it, its stream open and its list the plugin's.
Recovery == <>[](endpoint # 0 /\ view = health)

-----------------------------------------------------------------------------
(* What comments of the code say of it, and it does not do.                *)

\* "Health in this case is if the device path actually exists" (line 379): a
\* node that is back for good makes its device healthy again.
RecreatedDeviceRecovers == \A d \in Devices : []<>(d \in nodes => health[d] = "Healthy")

\* "Trigger restart of the DP servers" (391): a healthCheck in its loop
\* that is told of the removal of the socket goes on to create a new server.
ReportedRemovalRestarts ==
    \A n \in Gens :
        (/\ gen = n
         /\ pc["hc"] = "loop"
         /\ \E i \in 1..Len(events) : events[i].name = SocketPath) ~> (gen > n)
============================================================================
