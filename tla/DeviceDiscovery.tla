-------------------------- MODULE DeviceDiscovery --------------------------
(***************************************************************************)
(* From the environment and the PCI bus to containers: main of             *)
(* cmd/main.go, createIommuDeviceMap and the plugins of                    *)
(* pkg/device_plugin/device_plugin.go, GenerateCDISpec of cdi.go, the      *)
(* resource that gfd.go asks for, and the paths of healthCheck and         *)
(* Allocate of generic_device_plugin.go.  Most of them ask again whether   *)
(* /dev/iommu exists (supportsIOMMUFD), and the module that provides it    *)
(* may be loaded in between.                                               *)
(*                                                                         *)
(* A device of the bus is [model, driver, group, fd]: its PCI device ID,   *)
(* the driver it is bound to, its IOMMU group and the number of its node   *)
(* under /dev/vfio/devices, or NoFd if the kernel gives it none.  Groups   *)
(* and fd numbers are the keys of iommuMap.                                *)
(***************************************************************************)
EXTENDS Integers, Sequences, FiniteSets, Functions

CONSTANTS
    Models,        \* PCI device IDs
    KindOf,        \* what each is: "GPU", "NVSwitch" or "other"
    NameOf,        \* its name as formatDeviceName returns it: not always its own
    NoName,        \* the empty name or alias
    ValidClasses,  \* the names that CDI accepts as a class
    Keys,          \* the numbers of groups and fds
    NoFd,
    Hosts,         \* the buses considered
    Unset,         \* the value of a variable that is not in the environment
    Environments,  \* the values of P_GPU_ALIAS and NVSWITCH_ALIAS considered
    MaxLoads,      \* bound: how often /dev/iommu may appear
    MaxFaults      \* bound: system calls that fail

ASSUME ModelsAssumption ==
    /\ KindOf \in [Models -> {"GPU", "NVSwitch", "other"}]
    /\ NoFd \notin Keys
    /\ MaxLoads \in Nat /\ MaxFaults \in Nat
BusDevice == [model : Models, driver : {"vfio-pci", "nvidia"}, group : Keys,
              fd : Keys \cup {NoFd}]
ASSUME HostsAssumption == Hosts \subseteq Seq(BusDevice)

VARIABLES
    bus,                \* what GetAllDevices returns, by PCI address
    alias,              \* PGPUAlias and NVSwitchAlias, as main sets them
    iommufd,            \* does /dev/iommu exist?
    loads, faults,
    phase,              \* what InitiateDevicePlugin is doing
    mode,               \* iommufdSupported of createIommuDeviceMap
    next,               \* the device createIommuDeviceMap looks at next
    iommuMap,           \* key -> its devices, as positions of bus
    deviceMap,          \* device ID -> the keys first found with it
    nvSwitchDeviceIDs,
    jobs,               \* the specs GenerateCDISpec has yet to write in this stage
    specs,              \* the CDI spec files, one for each class
    plugins,            \* the plugins created: device ID, name, keys and the directory
    watches,            \* the node healthCheck asks to watch for each key of each plugin
    reply               \* the last answer of Allocate

maps == <<iommuMap, deviceMap, nvSwitchDeviceIDs>>
env  == <<bus, alias, iommufd, loads, faults>>
vars == <<env, phase, mode, next, maps, jobs, specs, plugins, watches, reply>>

Known(k)     == iommuMap[k] # <<>>
DevicesOf(k) == {bus[i] : i \in Range(iommuMap[k])}
ModelsFound  == {m \in Models : deviceMap[m] # <<>>}

\* The nodes of /dev/vfio.
Control   == <<"control", 0>>
Group(k)  == <<"group", k>>
Fd(k)     == <<"device", k>>
NoNode(k) == <<"missing", k>>

\* main: an alias that is not set gets its default.
AliasesOf(e) == [gpu    |-> IF e.gpu = Unset THEN "pgpu" ELSE e.gpu,
                 switch |-> IF e.switch = Unset THEN "nvswitch" ELSE e.switch]

\* getDeviceNameForID: the name of a device with this ID.
OwnName(m) == IF \E k \in Keys : \E d \in DevicesOf(k) : d.model = m
              THEN NameOf[m] ELSE NoName

\* The alias for a device ID, if any.
AliasOf(m) == IF m \in nvSwitchDeviceIDs THEN alias.switch ELSE alias.gpu

\* The name of the resource, the socket and the CDI class for a device ID.
DeviceName(m) ==
    CASE AliasOf(m) # NoName -> AliasOf(m)
      [] AliasOf(m) = NoName /\ OwnName(m) # NoName -> OwnName(m)
      [] OTHER -> m

-----------------------------------------------------------------------------
(* createIommuDeviceMap.                                                   *)

\* Empty maps, the mode of this scan, and GetAllDevices.
ScanStart ==
    /\ phase = "start"
    /\ phase' = "scan"
    /\ mode' = iommufd
    /\ UNCHANGED <<env, next, maps, jobs, specs, plugins, watches, reply>>

\* MUTANT: devices of any kind are entered.
Qualifies_AnyKind(d) == d.driver = "vfio-pci"

\* The GPUs and NVSwitches that are bound to vfio-pci.
Qualifies(d) == KindOf[d.model] # "other" /\ d.driver = "vfio-pci"

\* Their keys.
KeyOf(d) == IF mode /\ d.fd # NoFd THEN d.fd ELSE d.group

\* MUTANT: a key is advertised once for each of its devices.
KeysWith_Always(m, k) == Append(deviceMap[m], k)

\* The keys of a device ID with k, which counts for the device ID that comes first.
KeysWith(m, k) == IF Known(k) THEN deviceMap[m] ELSE Append(deviceMap[m], k)

\* One device is entered, or skipped.
Scan ==
    LET dev == bus[next]
        key == KeyOf(dev)
    IN  /\ phase = "scan"
        /\ next <= Len(bus)
        /\ next' = next + 1
        /\ IF Qualifies(dev)
           THEN /\ deviceMap' = [deviceMap EXCEPT ![dev.model] = KeysWith(dev.model, key)]
                /\ nvSwitchDeviceIDs' = nvSwitchDeviceIDs \cup
                       (IF KindOf[dev.model] = "NVSwitch" THEN {dev.model} ELSE {})
                /\ iommuMap' = [iommuMap EXCEPT ![key] = Append(@, next)]
           ELSE UNCHANGED maps
        /\ UNCHANGED <<env, phase, mode, jobs, specs, plugins, watches, reply>>

-----------------------------------------------------------------------------
(* GenerateCDISpec.                                                        *)

\* One spec for all device IDs with an alias, else one for each.
Jobs(ms, a) ==
    IF a # NoName
    THEN {[class |-> a, keys |-> UNION {Range(deviceMap[m]) : m \in ms}]}
    ELSE {[class |-> DeviceName(m), keys |-> Range(deviceMap[m])] : m \in ms}
GpuJobs    == Jobs(ModelsFound \ nvSwitchDeviceIDs, alias.gpu)
SwitchJobs == Jobs(ModelsFound \cap nvSwitchDeviceIDs, alias.switch)
NonEmpty(js) == {j \in js : j.keys # {}}

\* The scan is over; without devices GenerateCDISpec has nothing to do.
ScanDone ==
    /\ phase = "scan"
    /\ next > Len(bus)
    /\ IF \E k \in Keys : Known(k)
       THEN phase' = "gpu" /\ jobs' = NonEmpty(GpuJobs)
       ELSE phase' = "create" /\ jobs' = {}
    /\ UNCHANGED <<env, mode, next, maps, specs, plugins, watches, reply>>

\* The GPU specs are written: on to those of the NVSwitches, and from there on.
CdiStage ==
    /\ jobs = {}
    /\ \/ phase = "gpu" /\ phase' = "switch" /\ jobs' = NonEmpty(SwitchJobs)
       \/ phase = "switch" /\ phase' = "create" /\ jobs' = {}
    /\ UNCHANGED <<env, mode, next, maps, specs, plugins, watches, reply>>

\* MUTANT: a device with a node of its own gets it with or without /dev/iommu.
CdiNodes_AnyMode(k, d) ==
    IF d.fd # NoFd THEN {Fd(d.fd)} ELSE {Control, Group(k)}

\* The nodes of a CDI device.
CdiNodes(k, d) ==
    IF iommufd /\ d.fd # NoFd THEN {Fd(d.fd)} ELSE {Control, Group(k)}

\* The library refuses a spec whose class is not valid or whose devices, all named
\* by their key, are not unique; it replaces a file of the same class.
Accepted(j) == j.class \in ValidClasses /\ \A k \in j.keys : Len(iommuMap[k]) = 1

\* The devices of the spec of a class.
CdiDevices(j) ==
    UNION {{[name |-> k, nodes |-> CdiNodes(k, d)] : d \in DevicesOf(k)} : k \in j.keys}

\* MUTANT: the file of a class keeps the devices it has.
Saved_Merged(j) ==
    specs \cup {[class |-> j.class, devices |-> CdiDevices(j)
                     \cup UNION {s.devices : s \in {s \in specs : s.class = j.class}}]}

\* The files once the spec of a class is written.
Saved(j) ==
    {s \in specs : s.class # j.class} \cup {[class |-> j.class, devices |-> CdiDevices(j)]}

\* MUTANT: the loops over deviceMap end with the first spec that is written.
Rest_None(j) == {}

\* The specs yet to be written.
Rest(j) == jobs \ {j}

\* generateCDISpecForClass, of the classes in any order; its error ends GenerateCDISpec.
WriteSpec(j) ==
    /\ phase \in {"gpu", "switch"}
    /\ IF Accepted(j)
       THEN specs' = Saved(j) /\ jobs' = Rest(j) /\ phase' = phase
       ELSE specs' = specs /\ jobs' = {} /\ phase' = "create"
    /\ UNCHANGED <<env, mode, next, maps, plugins, watches, reply>>

-----------------------------------------------------------------------------
(* createDevicePlugins, healthCheck and Allocate.                          *)

\* A plugin for each device ID; all get the directory of the mode found here.
CreatePlugins ==
    /\ phase = "create"
    /\ phase' = "serve"
    /\ plugins' = {[model |-> m, name |-> DeviceName(m), keys |-> Range(deviceMap[m]),
                    dir |-> iommufd] : m \in ModelsFound}
    /\ UNCHANGED <<env, mode, next, maps, jobs, specs, watches, reply>>

\* MUTANT: each node has the name that those of /dev/vfio/devices have.
WatchedNode_AnyDir(p, k) == IF iommufd THEN Fd(k) ELSE NoNode(k)

\* The node watched for a key: its name follows the mode found now, its directory
\* the one found by createDevicePlugins.
WatchedNode(p, k) ==
    CASE p.dir /\ iommufd   -> Fd(k)
      [] ~p.dir /\ ~iommufd -> Group(k)
      [] OTHER              -> NoNode(k)

\* healthCheck of a plugin; each restart runs it again.
WatchNodes(p) ==
    /\ phase = "serve"
    /\ watches' = {w \in watches : w.plugin # p} \cup
                     {[plugin |-> p, key |-> k, node |-> WatchedNode(p, k)] : k \in p.keys}
    /\ UNCHANGED <<env, phase, mode, next, maps, jobs, specs, plugins, reply>>

\* MUTANT: no alias is looked at.
GfdName_NoAlias(m) == IF OwnName(m) # NoName THEN OwnName(m) ELSE m

\* How getGPUDeviceName names a device ID: its code is another than that of
\* createDevicePlugins (DeviceName).
GfdName(m) ==
    CASE alias.gpu # NoName -> alias.gpu
      [] alias.gpu = NoName /\ OwnName(m) # NoName -> OwnName(m)
      [] OTHER -> m

\* getGPUDeviceName: the name of the first GPU in the order of a map, or none.
GfdResources ==
    LET gpus == ModelsFound \ nvSwitchDeviceIDs
    IN  IF gpus = {} THEN {NoName} ELSE {GfdName(m) : m \in gpus}

\* MUTANT: only the first device of a key is given to the container.
NodesFor_First(k) ==
    IF iommufd THEN {Fd(bus[iommuMap[k][1]].fd)} ELSE {Control, Group(k)}

\* What Allocate gives a container for one ID.
NodesFor(k) ==
    IF iommufd THEN {Fd(d.fd) : d \in DevicesOf(k)} ELSE {Control, Group(k)}

\* The ID must be known and, with iommufd, each device have a node of its own.
Refused(k) == ~Known(k) \/ (iommufd /\ \E d \in DevicesOf(k) : d.fd = NoFd)

\* A request for a set of IDs; one that is refused fails the request as a whole.
Allocate(ids) ==
    /\ phase = "serve" /\ plugins # {}
    /\ reply' = [ids |-> ids,
                 ok |-> ~\E k \in ids : Refused(k),
                 nodes |-> IF \E k \in ids : Refused(k) THEN {}
                           ELSE UNION {NodesFor(k) : k \in ids}]
    /\ UNCHANGED <<env, phase, mode, next, maps, jobs, specs, plugins, watches>>

-----------------------------------------------------------------------------
\* The kernel module that provides /dev/iommu is loaded.
LoadIommufd ==
    /\ ~iommufd
    /\ loads < MaxLoads
    /\ iommufd' = TRUE
    /\ loads' = loads + 1
    /\ UNCHANGED <<bus, alias, faults, phase, mode, next, maps, jobs, specs, plugins,
                   watches, reply>>

\* A system call fails: the function that made it returns, with what it has done.
\* InitiateDevicePlugin goes on to the next function; after the last the process ends.
Fault ==
    /\ faults < MaxFaults
    /\ faults' = faults + 1
    /\ \/ phase = "start" /\ phase' = "create" /\ UNCHANGED <<jobs, reply>>
       \/ phase \in {"gpu", "switch"} /\ phase' = "create" /\ jobs' = {} /\ UNCHANGED reply
       \/ phase = "create" /\ phase' = "exited" /\ UNCHANGED <<jobs, reply>>
       \/ /\ phase = "serve" /\ plugins # {}
          /\ reply' = [ids |-> {}, ok |-> FALSE, nodes |-> {}]
          /\ UNCHANGED <<phase, jobs>>
    /\ UNCHANGED <<bus, alias, iommufd, loads, mode, next, maps, specs, plugins, watches>>

NoKeys   == [k \in Keys |-> <<>>]
NoModels == [m \in Models |-> <<>>]
NoReply  == [ids |-> {}, ok |-> TRUE, nodes |-> {}]

Init ==
    /\ bus \in Hosts
    /\ \E e \in Environments : alias = AliasesOf(e)
    /\ iommufd \in BOOLEAN
    /\ loads = 0 /\ faults = 0
    /\ phase = "start"
    /\ mode = FALSE
    /\ next = 1
    /\ iommuMap = NoKeys
    /\ deviceMap = NoModels
    /\ nvSwitchDeviceIDs = {}
    /\ jobs = {} /\ specs = {} /\ plugins = {} /\ watches = {}
    /\ reply = NoReply

Requests == {ids \in SUBSET Keys : Cardinality(ids) \in 1..2}

InitiateDevicePlugin ==
    \/ ScanStart \/ Scan \/ ScanDone
    \/ CdiStage \/ \E j \in jobs : WriteSpec(j)
    \/ CreatePlugins

Next ==
    \/ InitiateDevicePlugin
    \/ \E p \in plugins : WatchNodes(p)
    \/ \E ids \in Requests : Allocate(ids)
    \/ LoadIommufd \/ Fault

Spec == Init /\ [][Next]_vars

-----------------------------------------------------------------------------
(* What must hold.                                                         *)

\* The nodes that give access to a device.
Own(d) == {Group(d.group), Fd(d.fd)}

Discovered == phase \notin {"start", "scan"}

\* Every variable has its type, and only GPUs and NVSwitches are entered.
TypeOK ==
    /\ bus \in Hosts
    /\ iommufd \in BOOLEAN /\ mode \in BOOLEAN
    /\ loads \in 0..MaxLoads /\ faults \in 0..MaxFaults
    /\ phase \in {"start", "scan", "gpu", "switch", "create", "serve", "exited"}
    /\ next \in 1..(Len(bus) + 1)
    /\ \A k \in Keys : Range(iommuMap[k]) \subseteq 1..Len(bus)
    /\ \A m \in Models : Range(deviceMap[m]) \subseteq Keys
    /\ \A m \in ModelsFound : KindOf[m] # "other"
    /\ nvSwitchDeviceIDs \subseteq {m \in Models : KindOf[m] = "NVSwitch"}
    /\ \A s \in specs : s.class \in ValidClasses
    /\ \A w \in watches : w.plugin \in plugins

\* Each device that qualifies is under one key, and each key that has devices is
\* advertised once, for one device ID: no device is offered twice or never.
KeysArePartitioned ==
    Discovered /\ faults = 0 =>
        /\ \A i \in 1..Len(bus) : Qualifies(bus[i]) =>
              \E k \in Keys : \A l \in Keys : i \in Range(iommuMap[l]) <=> l = k
        /\ \A k \in Keys : Known(k) =>
              \E m \in Models : \E j \in DOMAIN deviceMap[m] :
                 \A n \in Models : \A i \in DOMAIN deviceMap[n] :
                    deviceMap[n][i] = k <=> n = m /\ i = j

\* A container gets the nodes of all devices of the IDs it asked for and no
\* others, also when /dev/iommu has appeared since the devices were discovered.
NodesAreTheDevices ==
    phase = "serve" /\ reply.ok =>
        LET devs == UNION {DevicesOf(k) : k \in reply.ids}
        IN  /\ reply.nodes \subseteq {Control} \cup UNION {Own(d) : d \in devs}
            /\ \A d \in devs : Own(d) \cap reply.nodes # {}

\* healthCheck takes an event of a device's node for one of that device: it never
\* watches the node of another one, unless the plugin has the directory of fds and its
\* key is the number of a group: made before /dev/iommu appeared, or of a device without
\* an fd.
WatchesItsDevices ==
    \A w \in watches :
        \/ w.plugin.dir /\ (~mode \/ \E d \in DevicesOf(w.key) : d.fd = NoFd)
        \/ w.node = NoNode(w.key)
        \/ \E d \in DevicesOf(w.key) : w.node \in Own(d)

\* The pod that discovers GPU features asks for a resource that serves GPUs and is
\* advertised, if there is one: gfd.go and createDevicePlugins agree on its name.
GfdAsksForAGpu ==
    phase = "serve" /\ (\E p \in plugins : KindOf[p.model] = "GPU") =>
        \A r \in GfdResources : \E p \in plugins :
            p.name = r /\ KindOf[p.model] = "GPU" /\ p.keys # {}

\* A host without what keeps a spec from being written or makes another one replace
\* it: devices that share a key, device IDs that share a name other than by the alias of
\* their kind, and names that CDI does not accept.
PlainHost ==
    /\ \A k \in Keys : Len(iommuMap[k]) <= 1
    /\ \A m, n \in ModelsFound : m # n /\ DeviceName(m) = DeviceName(n) =>
          AliasOf(m) # NoName /\ (m \in nvSwitchDeviceIDs <=> n \in nvSwitchDeviceIDs)
    /\ \A m \in ModelsFound : DeviceName(m) \in ValidClasses

\* Resource and CDI agree: a key that a plugin advertises is a device of the spec
\* whose class is the plugin's name.
HasSpec(p, k) == \E s \in specs : s.class = p.name /\ \E d \in s.devices : d.name = k
PlainHostHasSpecs ==
    phase = "serve" /\ faults = 0 /\ PlainHost =>
        \A p \in plugins : \A k \in p.keys : HasSpec(p, k)

\* As long as /dev/iommu stays what it is, the nodes of a CDI device are among
\* those that Allocate gives for its key.
CdiAgreesWithAllocate ==
    phase = "serve" /\ loads = 0 /\ reply.ok =>
        \A s \in specs : \A d \in s.devices :
            d.name \in reply.ids => d.nodes \subseteq reply.nodes

-----------------------------------------------------------------------------
(* What comments of the code say of it, and it does not do.                *)

\* "Discovers Nvidia GPUs which are bound to VFIO-PCI driver and exposes them as
\* devices available to be attached to VM" (README.md:15): an ID that is advertised can
\* be allocated.
AdvertisedIsAllocated ==
    phase = "serve" /\ reply.ids \subseteq UNION {p.keys : p \in plugins} => reply.ok
============================================================================
