-------------------------- MODULE PluginController --------------------------
(***************************************************************************)
(* createDevicePlugins of pkg/device_plugin/device_plugin.go and the       *)
(* plugins it starts, as they meet: in the directory of sockets that each  *)
(* of them watches and the kubelet empties, and in what the kubelet lists. *)
(*                                                                         *)
(* A plugin is what GenericDevicePlugin promises of it: the module         *)
(* DevicePluginRefinement shows that the detailed plugin is one of these.  *)
(* Its devices and their health are left out; its sends on channels are    *)
(* not, since each of them may wait for ever for a handler.                *)
(*                                                                         *)
(* A server is <<p, n>>, the n-th of plugin p; where there may be one      *)
(* there is a set of servers with at most one element.                     *)
(***************************************************************************)
EXTENDS Integers

CONSTANTS
    Plugins,       \* one for each key of deviceMap
    Paths,         \* socket paths
    PathOf,        \* the path of each plugin; it also stands for the resource's name
    MaxRestarts,   \* bound: kubelet restarts
    MaxCrashes     \* bound: restarts of the process

ASSUME PluginsAssumption == Plugins # {} /\ PathOf \in [Plugins -> Paths]
ASSUME BoundsAssumption == MaxRestarts \in Nat /\ MaxCrashes \in Nat

StartStage == {"cleanup", "listen", "register"}
Stage      == StartStage \cup {"none", "watch", "nodes", "loop", "send",
                               "term", "stop", "clear", "dead"}
Servers    == Plugins \X Nat

VARIABLES
    main,       \* the plugin createDevicePlugins has started last
    todo,       \* those it has yet to start
    stage,      \* where Start or healthCheck of each plugin is
    starts,     \* the servers each plugin has created
    serving,    \* dpi.server # nil
    watching,   \* does its healthCheck watch the directory?
    told,       \* was the removal of its path reported since?
    token,      \* is there a token in its channel dpi.term, which holds one?
    handlers,   \* its servers whose ListAndWatch handler runs
    ended,      \* has the handler of its newest server returned?
    sock,       \* the server bound to the file at each path
    kubelet,    \* "up"; "down"; "wiped": started and the directory emptied
    pending,    \* the registration for each path the kubelet has yet to dial
    listed,     \* the server whose stream the kubelet reads for each path
    restarts, crashes

mainVars == <<main, todo>>
lwVars   == <<token, handlers, ended>>
kubeVars == <<kubelet, pending, listed>>
envVars  == <<restarts, crashes>>
vars == <<mainVars, stage, starts, serving, watching, told, lwVars, sock, kubeVars, envVars>>

None      == [s \in Paths |-> {}]
This(p)   == <<p, starts[p]>>
Goto(p, l) == stage' = [stage EXCEPT ![p] = l]

\* The files at some paths, if any, are removed: every plugin that watches the
\* directory gets the events of all of them, and heeds that of its own path.
Unlink(removed) ==
    /\ sock' = [s \in Paths |-> IF s \in removed THEN {} ELSE sock[s]]
    /\ told' = [p \in Plugins |->
                   told[p] \/ (watching[p] /\ PathOf[p] \in removed /\ sock[PathOf[p]] # {})]

\* The stream of a plugin's n-th server ends.
CloseStream(p, n) ==
    listed' = [listed EXCEPT ![PathOf[p]] = @ \ {<<p, n>>}]

\* Its handler returns.
EndHandler(p, n) ==
    /\ handlers' = [handlers EXCEPT ![p] = @ \ {n}]
    /\ ended' = [ended EXCEPT ![p] = @ \/ n = starts[p]]
    /\ CloseStream(p, n)

-----------------------------------------------------------------------------
(* createDevicePlugins.                                                    *)

\* MUTANT: the first plugin that cannot be started is the last.
StartNext_UnlessFailed ==
    /\ stage[main] \notin StartStage \cup {"dead"}
    /\ \E p \in todo :
          /\ main' = p
          /\ todo' = todo \ {p}
          /\ Goto(p, "cleanup")
    /\ UNCHANGED <<starts, serving, watching, told, lwVars, sock, kubeVars, envVars>>

\* Start of one plugin has returned, with an error or not: on to the next, in the
\* order of a map.
StartNext ==
    /\ stage[main] \notin StartStage
    /\ \E p \in todo :
          /\ main' = p
          /\ todo' = todo \ {p}
          /\ Goto(p, "cleanup")
    /\ UNCHANGED <<starts, serving, watching, told, lwVars, sock, kubeVars, envVars>>

-----------------------------------------------------------------------------
(* Start, of the main goroutine or of a restart.                           *)

\* A file left at the path is removed; a plugin with a server is refused.
Cleanup(p) ==
    /\ stage[p] = "cleanup"
    /\ IF serving[p] THEN Goto(p, "dead") /\ UNCHANGED <<sock, told>>
                     ELSE Goto(p, "listen") /\ Unlink({PathOf[p]})
    /\ UNCHANGED <<mainVars, starts, serving, watching, lwVars, kubeVars, envVars>>

\* net.Listen, which needs the path free, and the new server.
Listen(p) ==
    /\ stage[p] = "listen"
    /\ IF sock[PathOf[p]] # {}
       THEN Goto(p, "dead") /\ UNCHANGED <<starts, serving, ended, sock>>
       ELSE /\ starts' = [starts EXCEPT ![p] = @ + 1]
            /\ serving' = [serving EXCEPT ![p] = TRUE]
            /\ ended' = [ended EXCEPT ![p] = FALSE]
            /\ sock' = [sock EXCEPT ![PathOf[p]] = {<<p, starts[p] + 1>>}]
            /\ Goto(p, "register")
    /\ UNCHANGED <<mainVars, watching, told, token, handlers, kubeVars, envVars>>

\* Register: the kubelet is told the resource's name and the path.
Register(p) ==
    /\ stage[p] = "register"
    /\ kubelet = "up"
    /\ pending' = [pending EXCEPT ![PathOf[p]] = {This(p)}]
    /\ Goto(p, "watch")
    /\ UNCHANGED <<mainVars, starts, serving, watching, told, lwVars, sock, kubelet, listed,
                   envVars>>

\* A system call of cleanup or net.Listen fails, no kubelet answers in time, or it
\* refuses the registration: Start returns the error, and that is all.
StartFails(p) ==
    /\ stage[p] \in StartStage
    /\ Goto(p, "dead")
    /\ UNCHANGED <<mainVars, starts, serving, watching, told, lwVars, sock, kubeVars, envVars>>

-----------------------------------------------------------------------------
(* healthCheck and Stop.                                                   *)

\* The directory is watched from here on.
Watch(p) ==
    /\ stage[p] = "watch"
    /\ watching' = [watching EXCEPT ![p] = TRUE]
    /\ Goto(p, "nodes")
    /\ UNCHANGED <<mainVars, starts, serving, told, lwVars, sock, kubeVars, envVars>>

\* The watcher is closed.
CloseWatcher(p) ==
    /\ watching' = [watching EXCEPT ![p] = FALSE]
    /\ told' = [told EXCEPT ![p] = FALSE]

\* The device nodes are watched as well.
WatchNodes(p) ==
    /\ stage[p] = "nodes"
    /\ Goto(p, "loop")
    /\ UNCHANGED <<mainVars, starts, serving, watching, told, lwVars, sock, kubeVars, envVars>>

\* A node is missing, or a system call fails: healthCheck ends, the server does not.
HealthFails(p) ==
    /\ stage[p] \in {"watch", "nodes"}
    /\ CloseWatcher(p)
    /\ Goto(p, "dead")
    /\ UNCHANGED <<mainVars, starts, serving, lwVars, sock, kubeVars, envVars>>

\* The event of a device: its ID has to be handed over to a handler, ...
DeviceEvent(p) ==
    /\ stage[p] = "loop"
    /\ Goto(p, "send")
    /\ UNCHANGED <<mainVars, starts, serving, watching, told, lwVars, sock, kubeVars, envVars>>

\* ... and whatever handler there is receives it; without one healthCheck waits.
Deliver(p) ==
    /\ stage[p] = "send"
    /\ handlers[p] # {}
    /\ Goto(p, "loop")
    /\ UNCHANGED <<mainVars, starts, serving, watching, told, lwVars, sock, kubeVars, envVars>>

\* MUTANT: a returning healthCheck does not close its watcher.
SocketRemoved_KeepWatcher(p) ==
    /\ stage[p] = "loop"
    /\ told[p]
    /\ Goto(p, IF serving[p] THEN "term" ELSE "dead")
    /\ UNCHANGED <<mainVars, starts, serving, watching, told, lwVars, sock, kubeVars, envVars>>

\* MUTANT: the removal of any socket restarts the plugin.
SocketRemoved_Any(p) ==
    /\ stage[p] = "loop"
    /\ \E s \in Paths : sock[s] = {}
    /\ CloseWatcher(p)
    /\ Goto(p, IF serving[p] THEN "term" ELSE "dead")
    /\ UNCHANGED <<mainVars, starts, serving, lwVars, sock, kubeVars, envVars>>

\* The event of the socket's removal: restart.
SocketRemoved(p) ==
    /\ stage[p] = "loop"
    /\ told[p]
    /\ CloseWatcher(p)
    /\ Goto(p, IF serving[p] THEN "term" ELSE "dead")
    /\ UNCHANGED <<mainVars, starts, serving, lwVars, sock, kubeVars, envVars>>

\* dpi.term <- true: to a handler that waits in its select, else into the channel;
\* with a token in it and no handler to take that, Stop waits.
Signal(p) ==
    /\ stage[p] = "term"
    /\ \/ \E n \in handlers[p] : EndHandler(p, n) /\ token' = token
       \/ /\ ~token[p]
          /\ token' = [token EXCEPT ![p] = TRUE]
          /\ UNCHANGED <<handlers, ended, listed>>
    /\ Goto(p, "stop")
    /\ UNCHANGED <<mainVars, starts, serving, watching, told, sock, kubelet, pending, envVars>>

\* A handler takes the token that waits, be it meant for that handler or not.
TakeToken(p) ==
    /\ token[p]
    /\ token' = [token EXCEPT ![p] = FALSE]
    /\ \E n \in handlers[p] : EndHandler(p, n)
    /\ UNCHANGED <<mainVars, stage, starts, serving, watching, told, sock, kubelet, pending,
                   envVars>>

\* server.Stop: the listener removes the file at the path, the streams end.
StopServer(p) ==
    /\ stage[p] = "stop"
    /\ Unlink({PathOf[p]})
    /\ CloseStream(p, starts[p])
    /\ Goto(p, "clear")
    /\ UNCHANGED <<mainVars, starts, serving, watching, lwVars, kubelet, pending, envVars>>

\* dpi.server = nil, and cleanup once more; then Start.
StopClear(p) ==
    /\ stage[p] = "clear"
    /\ serving' = [serving EXCEPT ![p] = FALSE]
    /\ Unlink({PathOf[p]})
    /\ Goto(p, "cleanup")
    /\ UNCHANGED <<mainVars, starts, watching, lwVars, kubeVars, envVars>>

-----------------------------------------------------------------------------
(* The kubelet, and the process.                                           *)

\* The kubelet goes down: it forgets what was registered and its streams break.
KubeletCrash ==
    /\ kubelet = "up"
    /\ restarts < MaxRestarts
    /\ restarts' = restarts + 1
    /\ kubelet' = "down"
    /\ pending' = None /\ listed' = None
    /\ UNCHANGED <<mainVars, stage, starts, serving, watching, told, lwVars, sock, crashes>>

\* It starts: it empties the directory of the plugins' sockets, ...
KubeletWipe ==
    /\ kubelet = "down"
    /\ kubelet' = "wiped"
    /\ Unlink(Paths)
    /\ UNCHANGED <<mainVars, stage, starts, serving, watching, lwVars, pending, listed, envVars>>

\* ... and answers registrations.
KubeletServe ==
    /\ kubelet = "wiped"
    /\ kubelet' = "up"
    /\ UNCHANGED <<mainVars, stage, starts, serving, watching, told, lwVars, sock, pending, listed,
                   envVars>>

\* The plugins whose server is the one registered for a path, and still there.
Answering(s) == {p \in Plugins : This(p) \in pending[s] /\ sock[s] = pending[s] /\ serving[p]}

\* It dials that server, if there is one, and calls its ListAndWatch.
KubeletDial(s) ==
    /\ kubelet = "up"
    /\ pending[s] # {}
    /\ pending' = [pending EXCEPT ![s] = {}]
    /\ listed' = IF Answering(s) = {} THEN listed ELSE [listed EXCEPT ![s] = pending[s]]
    /\ handlers' = [p \in Plugins |->
                       handlers[p] \cup (IF p \in Answering(s) THEN {starts[p]} ELSE {})]
    /\ UNCHANGED <<mainVars, stage, starts, serving, watching, told, token, ended, sock,
                   kubelet, envVars>>

\* The process dies and is started anew, with a plugin that happens to be the first.
ProcessCrash ==
    /\ crashes < MaxCrashes
    /\ crashes' = crashes + 1
    /\ \E p \in Plugins :
          /\ main' = p
          /\ todo' = Plugins \ {p}
          /\ stage' = [q \in Plugins |-> IF q = p THEN "cleanup" ELSE "none"]
    /\ serving' = [p \in Plugins |-> FALSE]
    /\ watching' = [p \in Plugins |-> FALSE]
    /\ told' = [p \in Plugins |-> FALSE]
    /\ token' = [p \in Plugins |-> FALSE]
    /\ handlers' = [p \in Plugins |-> {}]
    /\ ended' = [p \in Plugins |-> ended[p] \/ starts[p] \in handlers[p]]
    /\ listed' = None
    /\ UNCHANGED <<starts, sock, kubelet, pending, restarts>>

Init ==
    /\ main \in Plugins
    /\ todo = Plugins \ {main}
    /\ stage = [p \in Plugins |-> IF p = main THEN "cleanup" ELSE "none"]
    /\ starts = [p \in Plugins |-> 0]
    /\ serving = [p \in Plugins |-> FALSE]
    /\ watching = [p \in Plugins |-> FALSE]
    /\ told = [p \in Plugins |-> FALSE]
    /\ token = [p \in Plugins |-> FALSE]
    /\ handlers = [p \in Plugins |-> {}]
    /\ ended = [p \in Plugins |-> FALSE]
    /\ sock = None
    /\ kubelet = "up"
    /\ pending = None /\ listed = None
    /\ restarts = 0 /\ crashes = 0

Start(p)       == Cleanup(p) \/ Listen(p) \/ Register(p) \/ StartFails(p)
healthCheck(p) == \/ Watch(p) \/ WatchNodes(p) \/ HealthFails(p)
                  \/ Deliver(p) \/ SocketRemoved(p)
Stop(p)        == Signal(p) \/ StopServer(p) \/ StopClear(p)
\* What the plugin's goroutine does of itself: for events of devices it waits.
Goroutine(p)   == Start(p) \/ healthCheck(p) \/ Stop(p)
Plugin(p)      == Goroutine(p) \/ DeviceEvent(p) \/ TakeToken(p)
Kubelet        == KubeletWipe \/ KubeletServe \/ \E s \in Paths : KubeletDial(s)

Next == StartNext \/ (\E p \in Plugins : Plugin(p)) \/ Kubelet \/ KubeletCrash \/ ProcessCrash

\* The goroutines are scheduled, unless they wait to send.  The queue of events is a
\* FIFO: one that comes back to its loop again and again will read of the socket's
\* removal.  The kubelet goes on with what it has begun.
Fairness ==
    /\ WF_vars(StartNext)
    /\ \A p \in Plugins : WF_vars(Goroutine(p)) /\ SF_vars(SocketRemoved(p))
    /\ WF_vars(Kubelet)

\* What fairness asks of a plugin that is the only one, with its ENABLED spelt out:
\* when the goroutine can take a step, and when the kubelet can.
CanGoOn(p) ==
    \/ stage[p] \in StartStage \cup {"watch", "nodes", "stop", "clear"}
    \/ stage[p] = "loop" /\ told[p]
    \/ stage[p] = "send" /\ handlers[p] # {}
    \/ stage[p] = "term" /\ (handlers[p] # {} \/ ~token[p])
KubeletCan == kubelet # "up" \/ pending # None

Diligence(p) ==
    /\ []<>~CanGoOn(p) \/ []<><<Goroutine(p)>>_vars
    /\ <>[]~(stage[p] = "loop" /\ told[p]) \/ []<><<SocketRemoved(p)>>_vars
    /\ []<>~KubeletCan \/ []<><<Kubelet>>_vars

Safety == Init /\ [][Next]_vars
Spec   == Safety /\ Fairness

-----------------------------------------------------------------------------
(* What must hold.                                                         *)

\* Every variable has its type; a watcher is open only while healthCheck reads it.
TypeOK ==
    /\ main \in Plugins /\ todo \in SUBSET Plugins
    /\ stage \in [Plugins -> Stage]
    /\ starts \in [Plugins -> Nat]
    /\ serving \in [Plugins -> BOOLEAN]
    /\ watching \in [Plugins -> BOOLEAN]
    /\ \A p \in Plugins : watching[p] <=> stage[p] \in {"nodes", "loop", "send"}
    /\ told \in [Plugins -> BOOLEAN] /\ \A p \in Plugins : told[p] => watching[p]
    /\ token \in [Plugins -> BOOLEAN]
    /\ handlers \in [Plugins -> SUBSET Nat]
    /\ ended \in [Plugins -> BOOLEAN]
    /\ sock \in [Paths -> SUBSET Servers]
    /\ pending \in [Paths -> SUBSET Servers]
    /\ listed \in [Paths -> SUBSET Servers]
    /\ \A s \in Paths : \A x \in sock[s] \cup pending[s] \cup listed[s] :
          x[2] \in 1..starts[x[1]] /\ PathOf[x[1]] = s
    /\ kubelet \in {"up", "down", "wiped"}
    /\ restarts \in 0..MaxRestarts /\ crashes \in 0..MaxCrashes

\* "this channel detects kubelet restarts" (generic_device_plugin.go:57): a plugin
\* creates a server when the process starts and after a restart of the kubelet, and
\* never because of what another plugin does in the directory.
NotDisturbed == \A p \in Plugins : starts[p] <= 1 + restarts + crashes

\* The kubelet emptied the directory after Listen and before healthCheck watched it.
Missed(p) == stage[p] \in {"loop", "send"} /\ sock[PathOf[p]] = {} /\ ~told[p]

\* No handler is left to take the ID of a device (line 386), or the token of an earlier
\* Stop that is still in the channel (161): the send waits, for ever if none is to come.
Blocked(p) ==
    /\ handlers[p] = {}
    /\ stage[p] = "send" \/ (stage[p] = "term" /\ token[p])

\* The handler of the server that runs has taken the token of an earlier Stop (230).
Robbed(p) == stage[p] \in {"loop", "send"} /\ ended[p]

\* "createDevicePlugins starts a device plugin for each distinct NVIDIA device type"
\* (device_plugin.go:79), whatever happened to the others: in the end the kubelet
\* lists each plugin that has neither failed nor missed a restart of the kubelet nor
\* waits in a send without a receiver nor lost its stream to a stale token.
EachTypeIsServed ==
    <>[](\A p \in Plugins :
            \/ listed[PathOf[p]] = {This(p)}
            \/ stage[p] = "dead" \/ Missed(p) \/ Blocked(p) \/ Robbed(p))
============================================================================
