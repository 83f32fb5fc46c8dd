--------------------------- MODULE PodAllocation ---------------------------
(***************************************************************************)
(* DeviceDiscovery in the life of a node: the kubelet's device manager     *)
(* hands the IDs that plugins advertise to pods and keeps, in a checkpoint *)
(* of its own, which IDs are taken; the plugin's process ends and starts   *)
(* anew while pods run, without a memory of what its keys meant, and finds *)
(* its CDI spec files still there.  Between two processes devices may be   *)
(* bound to other drivers, unless a pod holds them or their group.         *)
(*                                                                         *)
(* The steps of healthCheck are left to DeviceDiscovery.                   *)
(***************************************************************************)
EXTENDS DeviceDiscovery

CONSTANT MaxRestarts   \* bound: processes that follow the first one
ASSUME MaxRestartsAssumption == MaxRestarts \in Nat

\* The kernel numbers the nodes under /dev/vfio/devices: no two devices have the same.
ASSUME FdsAssumption ==
    \A s \in Hosts : \A i, j \in 1..Len(s) :
        i # j /\ s[i].fd # NoFd => s[i].fd # s[j].fd

VARIABLES
    held,      \* what running containers have: resource, IDs and nodes
    restarts

podVars == <<vars, held, restarts>>

Holders(d) == {h \in held : h.nodes \cap Own(d) # {}}

\* The kubelet takes IDs of a resource that no pod has and asks a plugin of that name
\* for them; a request that is refused fails the pod's admission.
PodStart(p, ids) ==
    /\ \A h \in held : h.name = p.name => h.ids \cap ids = {}
    /\ Allocate(ids)
    /\ held' = IF reply'.ok
               THEN held \cup {[name |-> p.name, ids |-> ids, nodes |-> reply'.nodes]}
               ELSE held
    /\ restarts' = restarts

\* The pod ends and its IDs are free.
PodEnd(h) ==
    /\ held' = held \ {h}
    /\ UNCHANGED <<vars, restarts>>

\* Another process of the plugin: the variables of the package are as new, the files
\* and the kubelet's checkpoint are not.
Restart ==
    /\ restarts < MaxRestarts
    /\ restarts' = restarts + 1
    /\ bus' \in Hosts
    /\ Len(bus') = Len(bus)
    /\ \A i \in 1..Len(bus) :
          /\ bus'[i].model = bus[i].model /\ bus'[i].group = bus[i].group
          /\ Holders(bus[i]) # {} => bus'[i] = bus[i]
    /\ phase' = "start" /\ mode' = FALSE /\ next' = 1
    /\ iommuMap' = NoKeys /\ deviceMap' = NoModels /\ nvSwitchDeviceIDs' = {}
    /\ jobs' = {} /\ plugins' = {} /\ watches' = {}
    /\ reply' = NoReply
    /\ UNCHANGED <<alias, iommufd, loads, faults, specs, held>>

PodInit == Init /\ held = {} /\ restarts = 0

PodNext ==
    \/ (InitiateDevicePlugin \/ LoadIommufd \/ Fault) /\ UNCHANGED <<held, restarts>>
    \/ \E p \in plugins : \E ids \in SUBSET p.keys \ {{}} : PodStart(p, ids)
    \/ \E h \in held : PodEnd(h)
    \/ Restart

PodSpec == PodInit /\ [][PodNext]_podVars

-----------------------------------------------------------------------------
(* What must hold.                                                         *)

\* No device is given to two containers: the kubelet sees to the IDs of each resource,
\* the plugins (one ID for a key, in one resource, with the nodes of its own devices)
\* and a scan that comes to the same IDs again see to the rest.  A process that finds
\* another mode than its predecessor's does not: its keys are other numbers.
NoDeviceTwice ==
    loads = 0 \/ restarts = 0 =>
        \A i \in 1..Len(bus) : \A g, h \in Holders(bus[i]) : g = h

\* A spec file written by an earlier process does not outlive GenerateCDISpec of this
\* one: the file of a plugin's class has the keys that are advertised under that name
\* now, each with nodes of its own devices.
SpecsAreFresh ==
    phase = "serve" /\ faults = 0 /\ PlainHost =>
        \A p \in plugins : \A s \in specs : s.class = p.name =>
            /\ {d.name : d \in s.devices} = UNION {q.keys : q \in {q \in plugins : q.name = p.name}}
            /\ \A d \in s.devices :
                  d.nodes \subseteq {Control} \cup UNION {Own(dev) : dev \in DevicesOf(d.name)}
============================================================================
