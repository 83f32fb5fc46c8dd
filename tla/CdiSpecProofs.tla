---------------------------- MODULE CdiSpecProofs ----------------------------
(***************************************************************************)
(* GenerateCDISpec writes a spec for every key that will be advertised, on *)
(* any PlainHost: proved from what the steps of one process do, so that it *)
(* also holds for a process that finds the files of an earlier one.        *)
(***************************************************************************)
EXTENDS DeviceDiscoveryProofs

\* The keys that are advertised under a name.
KeysNamed(c) == UNION {Range(deviceMap[m]) : m \in {n \in ModelsFound : DeviceName(n) = c}}

\* The nodes a CDI device may have: those of the devices of its key.
NodesOf(k) == {Control} \cup UNION {Own(d) : d \in DevicesOf(k)}

\* There is a file of the class, with the devices that this process advertises.
UpToDate(c) ==
    /\ \E s \in specs : s.class = c
    /\ \A s \in specs : s.class = c =>
          /\ {d.name : d \in s.devices} = KeysNamed(c)
          /\ \A d \in s.devices : d.nodes \subseteq NodesOf(d.name)

\* The spec of a device ID has yet to be written: in this stage or in the next.
Due(m) == \/ \E j \in jobs : j.class = DeviceName(m)
          \/ phase = "gpu" /\ m \in nvSwitchDeviceIDs

\* A spec that is to be written is the one of all device IDs with its class.
JobsAreWhole ==
    \A j \in jobs : j.keys = KeysNamed(j.class) /\ \E m \in ModelsFound : j.class = DeviceName(m)

\* As long as no call fails, each device ID has its spec or is due to get it.
Written ==
    Discovered /\ faults = 0 /\ PlainHost =>
        JobsAreWhole /\ \A m \in ModelsFound : Due(m) \/ UpToDate(DeviceName(m))

-----------------------------------------------------------------------------
(* The specs of one stage.                                                 *)

\* A device ID that was found has keys, and each of them devices.
LEMMA FoundHasKeys ==
    ASSUME Core, NEW m \in ModelsFound
    PROVE  /\ m \in Models
           /\ Range(deviceMap[m]) # {} /\ Range(deviceMap[m]) \subseteq Keys
           /\ \A k \in Range(deviceMap[m]) : Known(k)
<1>1. m \in Models /\ deviceMap[m] \in Seq(Keys) /\ deviceMap[m] # <<>>
  BY DEF ModelsFound, Core, Types
<1>2. QED
  BY <1>1, RangeOfSeq DEF Core, Advertised

\* Every device ID of a kind is in one spec of the stage of that kind, which is whole.
LEMMA StageJobs ==
    ASSUME Core, PlainHost, NEW a, NEW ms \in SUBSET ModelsFound,
           \A m \in ms : AliasOf(m) = a,
           \A m \in ms : \A n \in ModelsFound :
              (m \in nvSwitchDeviceIDs <=> n \in nvSwitchDeviceIDs) => n \in ms
    PROVE  /\ \A m \in ms : \E j \in NonEmpty(Jobs(ms, a)) : j.class = DeviceName(m)
           /\ \A j \in NonEmpty(Jobs(ms, a)) :
                 j.keys = KeysNamed(j.class) /\ \E m \in ModelsFound : j.class = DeviceName(m)
<1>1. \A m \in ms : AliasOf(m) = a /\ m \in ModelsFound
  OBVIOUS
<1>2. \A m \in ms : \A n \in ModelsFound \ {m} : DeviceName(m) = DeviceName(n) => a # NoName /\ n \in ms
  BY <1>1 DEF PlainHost
<1>3. \A m \in ms : Range(deviceMap[m]) # {}
  BY <1>1, FoundHasKeys
<1>4. CASE a # NoName
  <2> DEFINE job == [class |-> a, keys |-> UNION {Range(deviceMap[m]) : m \in ms}]
  <2>1. Jobs(ms, a) = {job}
    BY <1>4 DEF Jobs
  <2>2. \A m \in ms : DeviceName(m) = a
    BY <1>1, <1>4 DEF DeviceName
  <2>3. \A m \in ms : job \in NonEmpty(Jobs(ms, a))
    BY <1>3, <2>1 DEF NonEmpty
  <2>4. ASSUME NEW m \in ms PROVE job.keys = KeysNamed(a)
    <3>1. {n \in ModelsFound : DeviceName(n) = a} = ms
      BY <1>1, <1>2, <2>2, <2>4
    <3>2. QED
      BY <3>1 DEF KeysNamed
  <2>5. ASSUME NEW j \in NonEmpty(Jobs(ms, a))
        PROVE  j = job /\ \E m \in ms : TRUE
    BY <2>1, <2>5 DEF NonEmpty
  <2>6. job.class = a
    OBVIOUS
  <2> HIDE DEF job
  <2>7. QED
    BY <1>1, <2>2, <2>3, <2>4, <2>5, <2>6
<1>5. CASE a = NoName
  <2>1. Jobs(ms, a) = {[class |-> DeviceName(m), keys |-> Range(deviceMap[m])] : m \in ms}
    BY <1>5 DEF Jobs
  <2>2. ASSUME NEW m \in ms PROVE Range(deviceMap[m]) = KeysNamed(DeviceName(m))
    <3>1. {n \in ModelsFound : DeviceName(n) = DeviceName(m)} = {m}
      BY <1>1, <1>2, <1>5, <2>2
    <3>2. QED
      BY <3>1 DEF KeysNamed
  <2>3. ASSUME NEW m \in ms PROVE \E j \in NonEmpty(Jobs(ms, a)) : j.class = DeviceName(m)
    <3> DEFINE job == [class |-> DeviceName(m), keys |-> Range(deviceMap[m])]
    <3>1. job \in NonEmpty(Jobs(ms, a)) /\ job.class = DeviceName(m)
      BY <1>3, <2>1, <2>3 DEF NonEmpty
    <3>2. QED
      BY <3>1
  <2>4. ASSUME NEW j \in NonEmpty(Jobs(ms, a))
        PROVE  j.keys = KeysNamed(j.class) /\ \E m \in ModelsFound : j.class = DeviceName(m)
    <3>1. PICK m \in ms : j = [class |-> DeviceName(m), keys |-> Range(deviceMap[m])]
      BY <2>1, <2>4 DEF NonEmpty
    <3>2. QED
      BY <1>1, <2>2, <3>1
  <2>5. QED
    BY <2>3, <2>4
<1>6. QED
  BY <1>4, <1>5

\* The GPUs' spec, or specs, and their classes.
LEMMA GpuStage ==
    ASSUME Core, PlainHost
    PROVE  /\ \A m \in ModelsFound \ nvSwitchDeviceIDs :
                 \E j \in NonEmpty(GpuJobs) : j.class = DeviceName(m)
           /\ \A j \in NonEmpty(GpuJobs) :
                 j.keys = KeysNamed(j.class) /\ \E m \in ModelsFound : j.class = DeviceName(m)
<1> DEFINE ms == ModelsFound \ nvSwitchDeviceIDs
<1>1. /\ ms \in SUBSET ModelsFound /\ \A m \in ms : AliasOf(m) = alias.gpu
      /\ \A m \in ms : \A n \in ModelsFound :
            (m \in nvSwitchDeviceIDs <=> n \in nvSwitchDeviceIDs) => n \in ms
  BY DEF AliasOf
<1> HIDE DEF ms
<1>2. /\ \A m \in ms : \E j \in NonEmpty(Jobs(ms, alias.gpu)) : j.class = DeviceName(m)
      /\ \A j \in NonEmpty(Jobs(ms, alias.gpu)) :
            j.keys = KeysNamed(j.class) /\ \E m \in ModelsFound : j.class = DeviceName(m)
  BY <1>1, StageJobs
<1>3. QED
  BY <1>2 DEF ms, GpuJobs

\* The NVSwitches' spec, or specs, in the same way.
LEMMA SwitchStage ==
    ASSUME Core, PlainHost
    PROVE  /\ \A m \in ModelsFound \cap nvSwitchDeviceIDs :
                 \E j \in NonEmpty(SwitchJobs) : j.class = DeviceName(m)
           /\ \A j \in NonEmpty(SwitchJobs) :
                 j.keys = KeysNamed(j.class) /\ \E m \in ModelsFound : j.class = DeviceName(m)
<1> DEFINE ms == ModelsFound \cap nvSwitchDeviceIDs
<1>1. /\ ms \in SUBSET ModelsFound /\ \A m \in ms : AliasOf(m) = alias.switch
      /\ \A m \in ms : \A n \in ModelsFound :
            (m \in nvSwitchDeviceIDs <=> n \in nvSwitchDeviceIDs) => n \in ms
  BY DEF AliasOf
<1> HIDE DEF ms
<1>2. /\ \A m \in ms : \E j \in NonEmpty(Jobs(ms, alias.switch)) : j.class = DeviceName(m)
      /\ \A j \in NonEmpty(Jobs(ms, alias.switch)) :
            j.keys = KeysNamed(j.class) /\ \E m \in ModelsFound : j.class = DeviceName(m)
  BY <1>1, StageJobs
<1>3. QED
  BY <1>2 DEF ms, SwitchJobs

-----------------------------------------------------------------------------
(* The steps.                                                              *)

\* What Written says depends on the maps, which only the scan changes.
LEMMA SameNames ==
    ASSUME UNCHANGED <<bus, alias, iommuMap, deviceMap, nvSwitchDeviceIDs>>
    PROVE  /\ ModelsFound' = ModelsFound
           /\ \A m : DeviceName(m)' = DeviceName(m)
           /\ \A c : KeysNamed(c)' = KeysNamed(c)
           /\ \A k : NodesOf(k)' = NodesOf(k)
           /\ PlainHost' <=> PlainHost
<1>1. ModelsFound' = ModelsFound
  BY DEF ModelsFound
<1>2. \A k : DevicesOf(k)' = DevicesOf(k)
  BY DEF DevicesOf
<1>3. \A m : AliasOf(m)' = AliasOf(m) /\ DeviceName(m)' = DeviceName(m)
  BY <1>2 DEF DeviceName, AliasOf, OwnName
<1>4. \A c : KeysNamed(c)' = KeysNamed(c)
  BY <1>1, <1>3 DEF KeysNamed
<1>5. \A k : NodesOf(k)' = NodesOf(k)
  BY <1>2 DEF NodesOf, Control, Own, Group, Fd
<1>6. PlainHost' <=> PlainHost
  BY <1>1, <1>3 DEF PlainHost
<1>7. QED
  BY <1>1, <1>3, <1>4, <1>5, <1>6

\* The nodes of a CDI device are those of the devices of its key.
LEMMA CdiNodesOfKey ==
    ASSUME Core, NEW k \in Keys, NEW d \in DevicesOf(k)
    PROVE  CdiNodes(k, d) \subseteq NodesOf(k)
<1>1. CASE iommufd /\ d.fd # NoFd
  BY <1>1 DEF CdiNodes, NodesOf, Own
<1>2. CASE ~(iommufd /\ d.fd # NoFd)
  <2>1. d.group = k /\ CdiNodes(k, d) = {Control, Group(k)}
    BY <1>2 DEF Core, Numbers, CdiNodes
  <2>2. QED
    BY <2>1 DEF NodesOf, Own
<1>3. QED
  BY <1>1, <1>2

\* A file that is written has the devices of its class, and no other file changes.
LEMMA Writes ==
    ASSUME Core, PlainHost, JobsAreWhole, NEW j \in jobs, WriteSpec(j)
    PROVE  /\ specs' = Saved(j) /\ jobs' = Rest(j) /\ phase' = phase
           /\ {d.name : d \in CdiDevices(j)} = j.keys
           /\ \A d \in CdiDevices(j) : d.nodes \subseteq NodesOf(d.name)
<1>1. PICK m \in ModelsFound : j.class = DeviceName(m)
  BY DEF JobsAreWhole
<1>2. ASSUME NEW k \in j.keys PROVE k \in Keys /\ Known(k)
  <2>1. PICK n \in ModelsFound : k \in Range(deviceMap[n])
    BY DEF JobsAreWhole, KeysNamed
  <2>2. QED
    BY <2>1, FoundHasKeys
<1>3. ASSUME NEW k \in j.keys PROVE Len(iommuMap[k]) = 1
  <2>1. PICK s \in Seq(Positions) : s = iommuMap[k]
    BY <1>2 DEF Core, Types
  <2>2. s # <<>> /\ Len(s) <= 1
    BY <1>2, <2>1 DEF Known, PlainHost
  <2>3. PICK i \in DOMAIN s : TRUE
    BY <2>2, RangeOfSeq DEF Range
  <2>4. DOMAIN s = 1..Len(s) /\ Len(s) \in Nat
    OBVIOUS
  <2>5. Len(s) = 1
    BY <2>2, <2>3, <2>4
  <2>6. QED
    BY <2>1, <2>5
<1>4. Accepted(j)
  BY <1>1, <1>3 DEF Accepted, PlainHost
<1>5. ASSUME NEW k \in j.keys PROVE \E d \in CdiDevices(j) : d.name = k
  <2>1. PICK e \in DevicesOf(k) : TRUE
    BY <1>2, KnownHasDevice
  <2>2. [name |-> k, nodes |-> CdiNodes(k, e)] \in CdiDevices(j)
    BY <2>1 DEF CdiDevices
  <2>3. QED
    BY <2>2
<1>6. ASSUME NEW d \in CdiDevices(j) PROVE d.name \in j.keys /\ d.nodes \subseteq NodesOf(d.name)
  <2>1. PICK k \in j.keys : \E e \in DevicesOf(k) : d = [name |-> k, nodes |-> CdiNodes(k, e)]
    BY <1>6 DEF CdiDevices
  <2>2. QED
    BY <1>2, <2>1, CdiNodesOfKey
<1>7. QED
  BY <1>4, <1>5, <1>6 DEF WriteSpec

\* The spec that is written is up to date and leaves the others as they are.
LEMMA WriteSpecWrites ==
    ASSUME Core, Written, Discovered, faults = 0, PlainHost, NEW j \in jobs, WriteSpec(j)
    PROVE  Written'
<1>1. /\ UNCHANGED <<bus, alias, iommuMap, deviceMap, nvSwitchDeviceIDs, faults>>
      /\ JobsAreWhole /\ \A m \in ModelsFound : Due(m) \/ UpToDate(DeviceName(m))
  BY DEF WriteSpec, env, maps, Written
<1>2. /\ specs' = Saved(j) /\ jobs' = jobs \ {j} /\ phase' = phase
      /\ {d.name : d \in CdiDevices(j)} = KeysNamed(j.class)
      /\ \A d \in CdiDevices(j) : d.nodes \subseteq NodesOf(d.name)
  BY <1>1, Writes DEF Rest, JobsAreWhole
<1>3. JobsAreWhole'
  BY <1>1, <1>2, SameNames DEF JobsAreWhole
<1>4. ASSUME NEW m \in ModelsFound, DeviceName(m) = j.class PROVE UpToDate(DeviceName(m))'
  <2> DEFINE file == [class |-> j.class, devices |-> CdiDevices(j)]
  <2>1. file \in specs' /\ file.class = j.class
    BY <1>2 DEF Saved
  <2>2. \A s \in specs' : s.class = j.class => s = file
    BY <1>2 DEF Saved
  <2>3. file.devices = CdiDevices(j)
    OBVIOUS
  <2> HIDE DEF file
  <2>4. QED
    BY <1>1, <1>2, <1>4, <2>1, <2>2, <2>3, SameNames DEF UpToDate
<1>5. ASSUME NEW m \in ModelsFound, DeviceName(m) # j.class
      PROVE  Due(m)' \/ UpToDate(DeviceName(m))'
  <2>1. \A s : s.class = DeviceName(m) => (s \in specs' <=> s \in specs)
    BY <1>2, <1>5 DEF Saved
  <2>2. UpToDate(DeviceName(m)) => UpToDate(DeviceName(m))'
    BY <1>1, <2>1, SameNames DEF UpToDate
  <2>3. Due(m) => Due(m)'
    BY <1>1, <1>2, <1>5, SameNames DEF Due
  <2>4. QED
    BY <1>1, <2>2, <2>3
<1>6. QED
  BY <1>1, <1>3, <1>4, <1>5, SameNames DEF Written

\* The scan's end and each stage make the specs due that the stage writes.
LEMMA WrittenNext ==
    ASSUME Core, Core', Written, [AnyStep]_vars
    PROVE  Written'
<1> SUFFICES ASSUME Discovered', faults' = 0, PlainHost'
             PROVE  JobsAreWhole' /\ \A m \in ModelsFound' : Due(m)' \/ UpToDate(DeviceName(m))'
  BY DEF Written
<1>1. /\ UNCHANGED <<bus, alias, iommuMap, deviceMap, nvSwitchDeviceIDs>> /\ ~Scan
      /\ faults = 0 /\ PlainHost
  <2>1. ~Scan
    BY DEF Scan, Discovered
  <2>2. UNCHANGED <<bus, alias, iommuMap, deviceMap, nvSwitchDeviceIDs>>
    BY <2>1, Steps DEF maps
  <2>3. UNCHANGED faults \/ faults' = faults + 1
    BY DEF AnyStep, InitiateDevicePlugin, ScanStart, Scan, ScanDone, CdiStage, WriteSpec,
       CreatePlugins, WatchNodes, Allocate, LoadIommufd, Fault, vars, env
  <2>4. faults = 0
    BY <2>3 DEF Core, Types, TypeOK
  <2>5. QED
    BY <2>1, <2>2, <2>4, SameNames
<1>2. /\ \A m \in ModelsFound \ nvSwitchDeviceIDs : \E j \in NonEmpty(GpuJobs) : j.class = DeviceName(m)
      /\ \A m \in ModelsFound \cap nvSwitchDeviceIDs : \E j \in NonEmpty(SwitchJobs) : j.class = DeviceName(m)
      /\ \A j \in NonEmpty(GpuJobs) \cup NonEmpty(SwitchJobs) :
            j.keys = KeysNamed(j.class) /\ \E m \in ModelsFound : j.class = DeviceName(m)
  BY <1>1, GpuStage, SwitchStage
<1>3. CASE ScanDone
  <2>1. CASE \E k \in Keys : Known(k)
    <3>1. phase' = "gpu" /\ jobs' = NonEmpty(GpuJobs)
      BY <1>3, <2>1 DEF ScanDone
    <3>2. /\ \A m \in ModelsFound \ nvSwitchDeviceIDs : \E j \in jobs' : j.class = DeviceName(m)
          /\ \A j \in jobs' :
                j.keys = KeysNamed(j.class) /\ \E m \in ModelsFound : j.class = DeviceName(m)
      BY <1>2, <3>1
    <3>3. QED
      BY <1>1, <3>1, <3>2, SameNames DEF JobsAreWhole, Due
  <2>2. CASE ~\E k \in Keys : Known(k)
    <3>1. jobs' = {} /\ ModelsFound = {}
      BY <1>3, <2>2, FoundHasKeys DEF ScanDone
    <3>2. QED
      BY <1>1, <3>1, SameNames DEF JobsAreWhole
  <2>3. QED
    BY <2>1, <2>2
<1>4. CASE CdiStage
  <2>1. /\ jobs = {} /\ UNCHANGED specs /\ Discovered
        /\ \/ phase = "gpu" /\ phase' = "switch" /\ jobs' = NonEmpty(SwitchJobs)
           \/ phase = "switch" /\ phase' = "create" /\ jobs' = {}
    BY <1>4 DEF CdiStage, Discovered
  <2>2. \A m \in ModelsFound : UpToDate(DeviceName(m)) => UpToDate(DeviceName(m))'
    BY <1>1, <2>1, SameNames DEF UpToDate
  <2>3. CASE phase = "gpu"
    <3>1. /\ \A m \in ModelsFound \cap nvSwitchDeviceIDs : \E j \in jobs' : j.class = DeviceName(m)
          /\ \A j \in jobs' :
                j.keys = KeysNamed(j.class) /\ \E m \in ModelsFound : j.class = DeviceName(m)
      BY <1>2, <2>1, <2>3
    <3>2. \A m \in ModelsFound \ nvSwitchDeviceIDs : UpToDate(DeviceName(m))
      BY <1>1, <2>1 DEF Written, Due
    <3>3. QED
      BY <1>1, <2>2, <3>1, <3>2, SameNames DEF JobsAreWhole, Due
  <2>4. CASE phase = "switch"
    <3>1. \A m \in ModelsFound : UpToDate(DeviceName(m))
      BY <1>1, <2>1, <2>4 DEF Written, Due
    <3>2. QED
      BY <1>1, <2>1, <2>2, <2>4, <3>1, SameNames DEF JobsAreWhole
  <2>5. QED
    BY <2>1, <2>3, <2>4
<1>5. CASE \E j \in jobs : WriteSpec(j)
  <2>1. Discovered
    BY <1>5 DEF WriteSpec, Discovered
  <2>2. Written'
    BY <1>1, <1>5, <2>1, WriteSpecWrites
  <2>3. QED
    BY <2>2 DEF Written
<1>6. CASE ~ScanDone /\ ~CdiStage /\ ~\E j \in jobs : WriteSpec(j)
  <2>1. /\ UNCHANGED <<jobs, specs>> /\ Discovered /\ (phase = "gpu" => phase' = "gpu")
    BY <1>1, <1>6 DEF AnyStep, InitiateDevicePlugin, ScanStart, CreatePlugins, WatchNodes,
       Allocate, LoadIommufd, Fault, vars, env, Discovered
  <2>2. \A m \in ModelsFound : Due(m) \/ UpToDate(DeviceName(m))
    BY <1>1, <2>1 DEF Written
  <2>3. JobsAreWhole'
    BY <1>1, <2>1, SameNames DEF Written, JobsAreWhole
  <2>4. ASSUME NEW m \in ModelsFound PROVE Due(m)' \/ UpToDate(DeviceName(m))'
    <3>1. Due(m) => Due(m)'
      BY <1>1, <2>1, SameNames DEF Due
    <3>2. UpToDate(DeviceName(m)) => UpToDate(DeviceName(m))'
      BY <1>1, <2>1, SameNames DEF UpToDate
    <3>3. QED
      BY <2>2, <3>1, <3>2
  <2>5. QED
    BY <1>1, <2>3, <2>4, SameNames
<1>7. QED
  BY <1>3, <1>4, <1>5, <1>6

-----------------------------------------------------------------------------
(* What follows.                                                           *)

\* Once the plugins serve, all specs are written.
LEMMA ServedIsWritten ==
    ASSUME Core, Named, Written, phase = "serve", faults = 0, PlainHost, NEW p \in plugins
    PROVE  UpToDate(p.name) /\ p.keys \subseteq KeysNamed(p.name)
<1>1. p.model \in ModelsFound /\ p.name = DeviceName(p.model) /\ p.keys = Range(deviceMap[p.model])
  BY DEF Named
<1>2. jobs = {}
  BY DEF Core, Stages
<1>3. UpToDate(p.name)
  BY <1>1, <1>2 DEF Written, Due, Discovered
<1>4. QED
  BY <1>1, <1>3 DEF KeysNamed

\* Every advertised key is then in the file of its plugin.
LEMMA ServedHasSpecs == Core /\ Named /\ Written => PlainHostHasSpecs
<1> SUFFICES ASSUME Core, Named, Written, phase = "serve", faults = 0, PlainHost,
                    NEW p \in plugins, NEW k \in p.keys
             PROVE  HasSpec(p, k)
  BY DEF PlainHostHasSpecs
<1>1. UpToDate(p.name) /\ k \in KeysNamed(p.name)
  BY ServedIsWritten
<1>2. PICK s \in specs : s.class = p.name
  BY <1>1 DEF UpToDate
<1>3. k \in {d.name : d \in s.devices}
  BY <1>1, <1>2 DEF UpToDate
<1>4. QED
  BY <1>2, <1>3 DEF HasSpec

\* GenerateCDISpec (cdi.go 76-120) and createDevicePlugins agree on the classes: a key that
\* is advertised has a CDI device in the spec of its plugin's name, on any plain host.
THEOREM PlainHostIsWritten == Spec => []PlainHostHasSpecs
<1>1. Init => Named /\ Written
  BY DEF Init, Named, ModelsFound, NoModels, Written, Discovered
<1>2. IInv /\ IInv' /\ Named /\ Written /\ [Next]_vars => Named' /\ Written'
  BY NamedNext, WrittenNext, NextIsAnyStep DEF IInv
<1>3. IInv /\ Named /\ Written => PlainHostHasSpecs
  BY ServedHasSpecs DEF IInv
<1>4. QED
  BY <1>1, <1>2, <1>3, Invariance, PTL DEF Spec
=============================================================================
