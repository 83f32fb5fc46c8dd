----------------------- MODULE DevicePluginRefinement -----------------------
(***************************************************************************)
(* GenericDevicePlugin, the plugin in detail, is a PluginController with   *)
(* this one plugin: its goroutines make one stage, its queue of events the *)
(* question whether the removal of its socket is in it, and its handlers   *)
(* those that run, whatever each of them is at.                            *)
(***************************************************************************)
EXTENDS GenericDevicePlugin

Self     == "plugin"
One(x)   == [p \in {Self} |-> x]
\* The server of a generation, where there is one.
Gen(g)   == [s \in {SocketPath} |-> IF g = 0 THEN {} ELSE {<<Self, g>>}]

\* Start runs in main the first time and in hc afterwards; a plugin whose first
\* Start failed has no healthCheck.
StageOf ==
    IF pc["main"] \in StartPC THEN pc["main"]
    ELSE CASE pc["hc"] = "none"   -> "dead"
           [] pc["hc"] = "setup"  -> "watch"
           [] pc["hc"] = "adddev" -> "nodes"
           [] OTHER               -> pc["hc"]

Controller == INSTANCE PluginController WITH
    Plugins <- {Self}, Paths <- {SocketPath}, PathOf <- One(SocketPath),
    main <- Self, todo <- {},
    stage <- One(StageOf), starts <- One(gen), serving <- One(server # 0),
    watching <- One(SocketPath \in watched),
    told <- One(\E i \in 1..Len(events) : events[i] = [name |-> SocketPath, op |-> "Remove"]),
    token <- One(term = 1), handlers <- One(Running),
    ended <- One(gen # 0 /\ lw[gen] = "done"),
    sock <- Gen(sock), pending <- Gen(registered), listed <- Gen(endpoint)

\* Every step of the detailed plugin is a step of the plugin that the controller
\* counts on, or changes nothing that one knows of: what device nodes and events do,
\* and a handler until it returns, stays inside.
ImplementsController == Controller!Safety

\* And it is as diligent as the controller's liveness asks: when each goroutine is
\* scheduled, handlers take what is sent (line 211), so that healthCheck and Stop
\* wait for ever in no send (161, 386) but one without a receiver, and healthCheck
\* gets to the removal of the socket behind whatever else is queued (376).
ImplementsFairness == Controller!Diligence(Self)
============================================================================
