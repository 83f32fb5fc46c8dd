------------------------ MODULE DeviceDiscoveryProofs ------------------------
(***************************************************************************)
(* Proofs about DeviceDiscovery, for every bus, alias and bound: its type  *)
(* invariant, that keys partition the devices, that a container gets the   *)
(* nodes of its devices, that healthCheck watches those of its devices,    *)
(* and that the CDI specs agree with Allocate.                             *)
(***************************************************************************)
EXTENDS DeviceDiscovery, TLAPS

-----------------------------------------------------------------------------
(* Sequences and their elements.                                           *)

\* A sequence with one more element has its elements and that one.
LEMMA RangeOfAppend ==
    ASSUME NEW S, NEW s \in Seq(S), NEW e \in S
    PROVE  /\ Append(s, e) \in Seq(S)
           /\ Range(Append(s, e)) = Range(s) \cup {e}
           /\ Append(s, e) # <<>>
<1>1. /\ Append(s, e) \in Seq(S) /\ Len(Append(s, e)) = Len(s) + 1
      /\ DOMAIN s = 1..Len(s) /\ DOMAIN Append(s, e) = 1..(Len(s) + 1)
      /\ \A i \in 1..Len(s) : Append(s, e)[i] = s[i]
      /\ Append(s, e)[Len(s) + 1] = e
      /\ Len(s) \in Nat
  OBVIOUS
<1>2. ASSUME NEW x \in Range(Append(s, e)) PROVE x \in Range(s) \cup {e}
  BY <1>1 DEF Range
<1>3. ASSUME NEW x \in Range(s) \cup {e} PROVE x \in Range(Append(s, e))
  BY <1>1 DEF Range
<1>4. QED
  BY <1>1, <1>2, <1>3

\* The elements of a sequence, of which only the empty one has none.
LEMMA RangeOfSeq ==
    ASSUME NEW S, NEW s \in Seq(S)
    PROVE  /\ Range(s) \subseteq S
           /\ s = <<>> <=> Range(s) = {}
<1>1. DOMAIN s = 1..Len(s) /\ Len(s) \in Nat /\ \A i \in 1..Len(s) : s[i] \in S
  OBVIOUS
<1>2. Range(s) \subseteq S
  BY <1>1 DEF Range
<1>3. s = <<>> => Range(s) = {}
  BY <1>1 DEF Range
<1>4. ASSUME s # <<>> PROVE Range(s) # {}
  <2>1. Len(s) > 0
    BY <1>4
  <2>2. 1 \in DOMAIN s
    BY <1>1, <2>1
  <2>3. QED
    BY <2>2 DEF Range
<1>5. QED
  BY <1>2, <1>3, <1>4

-----------------------------------------------------------------------------
(* The inductive invariant.                                                *)

Positions == 1..Len(bus)

\* The types, those of the maps included.
Types ==
    /\ TypeOK
    /\ iommuMap \in [Keys -> Seq(Positions)]
    /\ deviceMap \in [Models -> Seq(Keys)]
    /\ \A j \in jobs : j.keys \subseteq Keys

\* What is still empty: nothing is written before the devices are known, and no plugin
\* runs before createDevicePlugins.
Stages ==
    /\ phase = "start" => iommuMap = NoKeys /\ deviceMap = NoModels /\ next = 1
    /\ phase \notin {"gpu", "switch"} => jobs = {}
    /\ phase # "serve" => plugins = {} /\ watches = {} /\ reply = NoReply
    /\ Discovered => next = Len(bus) + 1 \/ (faults # 0 /\ iommuMap = NoKeys)

\* Every position that the scan has passed and that qualifies is under one key.
Placed ==
    /\ \A k \in Keys : \A i \in Range(iommuMap[k]) : i < next /\ Qualifies(bus[i])
    /\ \A k, l \in Keys : \A i \in Range(iommuMap[k]) \cap Range(iommuMap[l]) : k = l
    /\ \A i \in Positions : i < next /\ Qualifies(bus[i]) =>
          \E k \in Keys : i \in Range(iommuMap[k])

\* Every key with devices is advertised once.
Advertised ==
    /\ \A m \in Models : \A k \in Range(deviceMap[m]) : Known(k)
    /\ \A k \in Keys : Known(k) => \E m \in Models : k \in Range(deviceMap[m])
    /\ \A m, n \in Models : \A i \in DOMAIN deviceMap[m] : \A j \in DOMAIN deviceMap[n] :
          deviceMap[m][i] = deviceMap[n][j] => m = n /\ i = j

\* What the number of a key is: without /dev/iommu, or for a device without an fd, that of
\* its group; with it, if it has been there from the start, that of the fd.
Numbers ==
    /\ mode => iommufd
    /\ phase = "scan" /\ loads = 0 => mode = iommufd
    /\ \A k \in Keys : \A d \in DevicesOf(k) :
          /\ mode /\ d.fd # NoFd => d.fd = k
          /\ ~iommufd \/ d.fd = NoFd => d.group = k
          /\ loads = 0 /\ iommufd /\ d.fd # NoFd => d.fd = k

\* The plugins keep what createDevicePlugins found.
Created ==
    \A p \in plugins :
        /\ p.keys \subseteq Keys /\ \A k \in p.keys : Known(k)
        /\ p.dir \in BOOLEAN
        /\ ~p.dir => \A k \in Keys : \A d \in DevicesOf(k) : d.group = k

\* The devices of the spec files, and the last answer of Allocate, as long as /dev/iommu
\* stays what it was.
Files ==
    /\ phase \in {"start", "scan"} => specs = {}
    /\ loads = 0 => \A s \in specs : \A c \in s.devices :
           c.name \in Keys /\ \E d \in DevicesOf(c.name) : c.nodes = CdiNodes(c.name, d)
Answers ==
    /\ reply.ids \subseteq Keys
    /\ loads = 0 /\ reply.ok => \A k \in reply.ids : ~Refused(k) /\ NodesFor(k) \subseteq reply.nodes
    /\ reply.ok =>
          LET devs == UNION {DevicesOf(k) : k \in reply.ids}
          IN  /\ reply.nodes \subseteq {Control} \cup UNION {Own(d) : d \in devs}
              /\ \A d \in devs : Own(d) \cap reply.nodes # {}

\* What holds in every process of the plugin, whatever files it finds, ...
Core == /\ Types /\ Stages /\ Placed /\ Advertised /\ Numbers
        /\ Created /\ Answers /\ WatchesItsDevices

\* ... and what holds in the first one.
IInv == Core /\ Files

\* The steps of a process, with requests for any number of IDs.
AnyStep ==
    \/ InitiateDevicePlugin
    \/ \E p \in plugins : WatchNodes(p)
    \/ \E ids \in SUBSET Keys : Allocate(ids)
    \/ LoadIommufd \/ Fault

-----------------------------------------------------------------------------
(* What most steps leave alone.                                            *)

\* The positions of a bus are those of devices.
LEMMA BusType ==
    ASSUME TypeOK
    PROVE  /\ bus \in Seq(BusDevice) /\ Len(bus) \in Nat
           /\ \A i \in Positions : bus[i] \in BusDevice
BY HostsAssumption DEF TypeOK, Positions

\* The number of a group or an fd is a key.
LEMMA KeyType ==
    ASSUME NEW d \in BusDevice
    PROVE  KeyOf(d) \in Keys
BY DEF KeyOf, BusDevice

\* The devices of a key change with the maps only.
LEMMA SameDevices ==
    ASSUME UNCHANGED <<bus, iommuMap>>
    PROVE  \A k : DevicesOf(k)' = DevicesOf(k) /\ (Known(k)' <=> Known(k))
BY DEF DevicesOf, Known

\* The parts about the maps stay as long as the maps do.
LEMMA SameMaps ==
    ASSUME Core, UNCHANGED <<bus, next, iommuMap, deviceMap>>
    PROVE  /\ Placed' /\ Advertised'
           /\ iommuMap' \in [Keys -> Seq(Positions')]
           /\ deviceMap' \in [Models -> Seq(Keys)]
           /\ Positions' = Positions
<1>1. Positions' = Positions
  BY DEF Positions
<1>2. Placed'
  BY <1>1 DEF Core, Placed
<1>3. Advertised'
  BY DEF Core, Advertised, Known
<1>4. QED
  BY <1>1, <1>2, <1>3 DEF Core, Types

-----------------------------------------------------------------------------
(* The scan.                                                               *)

\* What the entry of a device does to the maps.
LEMMA Entry ==
    ASSUME Core, Scan, Qualifies(bus[next]), NEW key, key = KeyOf(bus[next])
    PROVE  /\ next \in Positions /\ key \in Keys /\ bus[next] \in BusDevice
           /\ iommuMap' \in [Keys -> Seq(Positions)]
           /\ \A k \in Keys : Range(iommuMap'[k]) =
                 Range(iommuMap[k]) \cup (IF k = key THEN {next} ELSE {})
           /\ \A k \in Keys : Known(k)' <=> Known(k) \/ k = key
<1>1. next \in Positions
  BY BusType DEF Scan, Core, Types, TypeOK, Positions
<1>2. bus[next] \in BusDevice /\ key \in Keys
  BY <1>1, BusType, KeyType DEF Core, Types
<1>3. iommuMap' = [iommuMap EXCEPT ![key] = Append(@, next)]
  BY DEF Scan
<1>4. iommuMap \in [Keys -> Seq(Positions)]
  BY DEF Core, Types
<1>5. /\ Append(iommuMap[key], next) \in Seq(Positions)
      /\ Range(Append(iommuMap[key], next)) = Range(iommuMap[key]) \cup {next}
      /\ Append(iommuMap[key], next) # <<>>
  BY <1>1, <1>2, <1>4, RangeOfAppend
<1>6. iommuMap'[key] = Append(iommuMap[key], next) /\ \A k \in Keys \ {key} : iommuMap'[k] = iommuMap[k]
  BY <1>2, <1>3, <1>4
<1>7. \A k \in Keys : Range(iommuMap'[k]) =
                 Range(iommuMap[k]) \cup (IF k = key THEN {next} ELSE {})
  BY <1>5, <1>6
<1>8. \A k \in Keys : Known(k)' <=> Known(k) \/ k = key
  BY <1>5, <1>6 DEF Known
<1>9. iommuMap' \in [Keys -> Seq(Positions)]
  BY <1>2, <1>3, <1>4, <1>5
<1>10. QED
  BY <1>1, <1>2, <1>7, <1>8, <1>9

\* Its key is advertised if it was not known.
LEMMA EntryAdvertised ==
    ASSUME Core, Scan, Qualifies(bus[next])
    PROVE  deviceMap' \in [Models -> Seq(Keys)] /\ Advertised'
<1> DEFINE key == KeyOf(bus[next])
           mod == bus[next].model
<1>1. /\ key \in Keys /\ mod \in Models
      /\ \A k \in Keys : Known(k)' <=> Known(k) \/ k = key
  BY Entry DEF BusDevice
<1>2. deviceMap' = [deviceMap EXCEPT ![mod] = KeysWith(mod, key)] /\ deviceMap \in [Models -> Seq(Keys)]
  BY DEF Scan, Core, Types
<1> HIDE DEF key, mod
<1>3. CASE Known(key)
  <2>1. deviceMap' = deviceMap
    BY <1>1, <1>2, <1>3 DEF KeysWith
  <2>2. \A m \in Models : Range(deviceMap[m]) \subseteq Keys
    BY <1>2, RangeOfSeq
  <2>3. \A k \in Keys : Known(k)' <=> Known(k)
    BY <1>1, <1>3
  <2>4. /\ \A m \in Models : \A k \in Range(deviceMap'[m]) : Known(k)'
        /\ \A k \in Keys : Known(k)' => \E m \in Models : k \in Range(deviceMap'[m])
    BY <2>1, <2>2, <2>3 DEF Core, Advertised
  <2>5. \A m, l \in Models : \A i \in DOMAIN deviceMap'[m] : \A j \in DOMAIN deviceMap'[l] :
            deviceMap'[m][i] = deviceMap'[l][j] => m = l /\ i = j
    BY <2>1 DEF Core, Advertised
  <2>6. QED
    BY <1>2, <2>1, <2>4, <2>5 DEF Advertised
<1>4. CASE ~Known(key)
  <2> DEFINE n == Len(deviceMap[mod])
  <2>1. /\ deviceMap'[mod] = Append(deviceMap[mod], key)
        /\ \A m \in Models \ {mod} : deviceMap'[m] = deviceMap[m]
        /\ deviceMap[mod] \in Seq(Keys)
    BY <1>1, <1>2, <1>4 DEF KeysWith
  <2>2. /\ deviceMap'[mod] \in Seq(Keys)
        /\ Range(deviceMap'[mod]) = Range(deviceMap[mod]) \cup {key}
    BY <1>1, <2>1, RangeOfAppend
  <2>3. deviceMap' \in [Models -> Seq(Keys)]
    BY <1>1, <1>2, <2>1, <2>2
  <2>4. \A m \in Models : Range(deviceMap'[m]) = Range(deviceMap[m]) \cup (IF m = mod THEN {key} ELSE {})
    BY <2>1, <2>2
  <2>5. \A m \in Models : Range(deviceMap[m]) \subseteq Keys /\ key \notin Range(deviceMap[m])
    BY <1>2, <1>4, RangeOfSeq DEF Core, Advertised
  <2>6. \A m \in Models : \A k \in Range(deviceMap'[m]) : Known(k)'
    BY <1>1, <2>4, <2>5 DEF Core, Advertised
  <2>7. \A k \in Keys : Known(k)' => \E m \in Models : k \in Range(deviceMap'[m])
    BY <1>1, <2>4 DEF Core, Advertised
  <2>8. /\ n \in Nat /\ DOMAIN deviceMap[mod] = 1..n /\ DOMAIN deviceMap'[mod] = 1..(n + 1)
        /\ deviceMap'[mod][n + 1] = key
        /\ \A i \in 1..n : deviceMap'[mod][i] = deviceMap[mod][i]
    BY <1>1, <2>1
  <2> HIDE DEF n
  <2>9. \A m \in Models : \A i \in DOMAIN deviceMap'[m] :
            \/ m = mod /\ i = n + 1 /\ deviceMap'[m][i] = key
            \/ /\ i \in DOMAIN deviceMap[m] /\ deviceMap'[m][i] = deviceMap[m][i]
               /\ deviceMap'[m][i] # key
    <3> SUFFICES ASSUME NEW m \in Models, NEW i \in DOMAIN deviceMap'[m], ~(m = mod /\ i = n + 1)
                 PROVE  /\ i \in DOMAIN deviceMap[m] /\ deviceMap'[m][i] = deviceMap[m][i]
                        /\ deviceMap'[m][i] # key
      BY <2>8
    <3>1. i \in DOMAIN deviceMap[m] /\ deviceMap'[m][i] = deviceMap[m][i]
      <4>1. CASE m = mod
        BY <2>8, <4>1
      <4>2. CASE m # mod
        BY <2>1, <4>2
      <4>3. QED
        BY <4>1, <4>2
    <3>2. deviceMap[m][i] \in Range(deviceMap[m])
      BY <3>1 DEF Range
    <3>3. QED
      BY <2>5, <3>1, <3>2
  <2>10. \A m, l \in Models : \A i \in DOMAIN deviceMap'[m] : \A j \in DOMAIN deviceMap'[l] :
            deviceMap'[m][i] = deviceMap'[l][j] => m = l /\ i = j
    BY <2>9 DEF Core, Advertised
  <2>11. QED
    BY <2>3, <2>6, <2>7, <2>10 DEF Advertised
<1>5. QED
  BY <1>3, <1>4

\* The device is under this key and no other one; the key is its number.
LEMMA EntryPlaced ==
    ASSUME Core, Scan, Qualifies(bus[next])
    PROVE  Placed' /\ Numbers'
<1> DEFINE key == KeyOf(bus[next])
<1>1. /\ next \in Positions /\ key \in Keys /\ bus[next] \in BusDevice
      /\ \A k \in Keys : Range(iommuMap'[k]) =
            Range(iommuMap[k]) \cup (IF k = key THEN {next} ELSE {})
  BY Entry
<1>2. /\ bus' = bus /\ Positions' = Positions /\ next' = next + 1
      /\ UNCHANGED <<iommufd, loads, mode, phase>> /\ phase = "scan"
  BY DEF Scan, env, Positions
<1>3. next \in Nat /\ Positions \subseteq Nat
  BY <1>1 DEF Positions
<1>4. iommuMap \in [Keys -> Seq(Positions)] /\ \A k \in Keys : Range(iommuMap[k]) \subseteq Positions
  BY RangeOfSeq DEF Core, Types
<1>5. (mode => iommufd) /\ (loads = 0 => mode = iommufd)
  BY <1>2 DEF Core, Numbers
<1>6. /\ mode /\ bus[next].fd # NoFd => bus[next].fd = key
      /\ ~iommufd \/ bus[next].fd = NoFd => bus[next].group = key
      /\ loads = 0 /\ iommufd /\ bus[next].fd # NoFd => bus[next].fd = key
  BY <1>5 DEF KeyOf
<1> HIDE DEF key
<1>7. Placed'
  <2>1. \A k \in Keys : \A i \in Range(iommuMap'[k]) : i < next + 1 /\ Qualifies(bus[i])
    <3> SUFFICES ASSUME NEW k \in Keys, NEW i \in Range(iommuMap'[k])
                 PROVE  i < next + 1 /\ Qualifies(bus[i])
      OBVIOUS
    <3>1. i \in Range(iommuMap[k]) \/ i = next
      BY <1>1
    <3>2. i \in Range(iommuMap[k]) => i < next /\ i \in Nat /\ Qualifies(bus[i])
      BY <1>3, <1>4 DEF Core, Placed
    <3>3. QED
      BY <1>3, <3>1, <3>2
  <2>2. \A k, l \in Keys : \A i \in Range(iommuMap'[k]) \cap Range(iommuMap'[l]) : k = l
    <3>1. \A k \in Keys : next \notin Range(iommuMap[k])
      BY <1>3 DEF Core, Placed
    <3>2. QED
      BY <1>1, <3>1 DEF Core, Placed
  <2>3. ASSUME NEW i \in Positions, i < next + 1, Qualifies(bus[i])
        PROVE  \E k \in Keys : i \in Range(iommuMap'[k])
    <3>1. i = next \/ i < next
      BY <1>3, <2>3
    <3>2. QED
      BY <1>1, <2>3, <3>1 DEF Core, Placed
  <2>4. QED
    BY <1>2, <2>1, <2>2, <2>3 DEF Placed, Qualifies
<1>8. Numbers'
  <2>1. ASSUME NEW k \in Keys, NEW d \in DevicesOf(k)'
        PROVE  d \in DevicesOf(k) \/ (k = key /\ d = bus[next])
    <3>1. PICK i \in Range(iommuMap'[k]) : d = bus[i]
      BY <1>2, <2>1 DEF DevicesOf
    <3>2. QED
      BY <1>1, <3>1 DEF DevicesOf
  <2>2. \A k \in Keys : \A d \in DevicesOf(k)' :
            /\ mode /\ d.fd # NoFd => d.fd = k
            /\ ~iommufd \/ d.fd = NoFd => d.group = k
            /\ loads = 0 /\ iommufd /\ d.fd # NoFd => d.fd = k
    BY <1>6, <2>1 DEF Core, Numbers
  <2>3. QED
    BY <1>2, <1>5, <2>2 DEF Numbers
<1>9. QED
  BY <1>7, <1>8

\* The scan of a device, entered or not, keeps what holds in every process.
LEMMA ScanStep ==
    ASSUME Core, Scan
    PROVE  Core'
<1>1. /\ phase = "scan" /\ next \in Positions /\ Len(bus) \in Nat /\ next' = next + 1
      /\ UNCHANGED <<bus, alias, iommufd, loads, faults, phase, mode, jobs, specs, plugins,
                     watches, reply>>
  BY BusType DEF Scan, env, Core, Types, TypeOK, Positions
<1>2. /\ plugins = {} /\ watches = {} /\ reply = NoReply /\ jobs = {}
      /\ Positions' = Positions
  BY <1>1 DEF Core, Stages, Positions
<1>3. /\ Placed' /\ Numbers' /\ Advertised'
      /\ iommuMap' \in [Keys -> Seq(Positions)] /\ deviceMap' \in [Models -> Seq(Keys)]
      /\ \A m \in Models : deviceMap'[m] # <<>> => deviceMap[m] # <<>> \/ KindOf[m] # "other"
      /\ nvSwitchDeviceIDs' \subseteq {m \in Models : KindOf[m] = "NVSwitch"}
  <2>1. CASE Qualifies(bus[next])
    <3>1. /\ Placed' /\ Numbers' /\ Advertised'
          /\ iommuMap' \in [Keys -> Seq(Positions)] /\ deviceMap' \in [Models -> Seq(Keys)]
      BY <2>1, Entry, EntryAdvertised, EntryPlaced
    <3>2. bus[next].model \in Models /\ KindOf[bus[next].model] # "other"
      BY <1>1, <2>1, BusType DEF Qualifies, BusDevice, Core, Types
    <3>3. \A m \in Models \ {bus[next].model} : deviceMap'[m] = deviceMap[m]
      BY <2>1, <3>2 DEF Scan, Core, Types
    <3>4. nvSwitchDeviceIDs' \subseteq {m \in Models : KindOf[m] = "NVSwitch"}
      BY <2>1, <3>2 DEF Scan, Core, Types, TypeOK
    <3>5. QED
      BY <3>1, <3>2, <3>3, <3>4
  <2>2. CASE ~Qualifies(bus[next])
    <3>1. UNCHANGED <<iommuMap, deviceMap, nvSwitchDeviceIDs>>
      BY <2>2 DEF Scan, maps
    <3>2. Advertised'
      BY <3>1 DEF Core, Advertised, Known
    <3>3. Numbers'
      BY <1>1, <3>1, SameDevices DEF Core, Numbers
    <3>4. Placed'
      <4>1. \A k \in Keys : \A i \in Range(iommuMap[k]) : i < next + 1 /\ Qualifies(bus[i])
        <5>1. \A k \in Keys : Range(iommuMap[k]) \subseteq Positions
          BY RangeOfSeq DEF Core, Types
        <5>2. QED
          BY <1>1, <5>1 DEF Core, Placed, Positions
      <4>2. \A i \in Positions : i < next + 1 /\ Qualifies(bus[i]) => i < next
        BY <1>1, <2>2 DEF Positions
      <4>3. QED
        BY <1>1, <1>2, <3>1, <4>1, <4>2 DEF Core, Placed, Qualifies
    <3>5. QED
      BY <3>1, <3>2, <3>3, <3>4 DEF Core, Types, TypeOK
  <2>3. QED
    BY <2>1, <2>2
<1>4. TypeOK'
  <2>1. \A k \in Keys : Range(iommuMap'[k]) \subseteq 1..Len(bus)
    BY <1>3, RangeOfSeq DEF Positions
  <2>2. \A m \in Models : Range(deviceMap'[m]) \subseteq Keys
    BY <1>3, RangeOfSeq
  <2>3. next' \in 1..(Len(bus) + 1)
    BY <1>1 DEF Positions
  <2>4. \A m \in ModelsFound' : KindOf[m] # "other"
    BY <1>3 DEF ModelsFound, Core, Types, TypeOK
  <2>5. QED
    BY <1>1, <1>3, <2>1, <2>2, <2>3, <2>4 DEF Core, Types, TypeOK
<1>5. Types'
  BY <1>1, <1>2, <1>3, <1>4 DEF Types
<1>6. Stages'
  BY <1>1, <1>2 DEF Stages, Discovered, NoReply
<1>7. Created' /\ Answers' /\ WatchesItsDevices'
  BY <1>1, <1>2 DEF Created, Answers, WatchesItsDevices, NoReply
<1>8. QED
  BY <1>3, <1>5, <1>6, <1>7 DEF Core

-----------------------------------------------------------------------------
(* The other steps leave the maps alone.                                   *)

\* The types stay if those of what changes are right.
LEMMA TypesNext ==
    ASSUME Core, UNCHANGED <<bus, next, iommuMap, deviceMap, nvSwitchDeviceIDs>>,
           iommufd' \in BOOLEAN, mode' \in BOOLEAN,
           loads' \in 0..MaxLoads, faults' \in 0..MaxFaults,
           phase' \in {"start", "scan", "gpu", "switch", "create", "serve", "exited"},
           \A s \in specs' : s.class \in ValidClasses,
           \A w \in watches' : w.plugin \in plugins',
           \A j \in jobs' : j.keys \subseteq Keys
    PROVE  Types'
<1>1. TypeOK'
  BY DEF Core, Types, TypeOK, ModelsFound
<1>2. QED
  BY <1>1, SameMaps DEF Types

\* As long as /dev/iommu stays what it is, a part of the invariant depends on the maps
\* and on one other variable.
LEMMA SameParts ==
    ASSUME Core, UNCHANGED <<bus, next, iommuMap, deviceMap, iommufd, loads>>
    PROVE  /\ Placed' /\ Advertised'
           /\ phase' # "scan" /\ mode' = mode => Numbers'
           /\ plugins' = plugins => Created'
           /\ reply' = reply => Answers'
           /\ watches' = watches /\ mode' = mode => WatchesItsDevices'
<1>1. \A k : DevicesOf(k)' = DevicesOf(k) /\ (Known(k)' <=> Known(k))
  BY SameDevices
<1>2. Placed' /\ Advertised'
  BY SameMaps
<1>3. ASSUME phase' # "scan", mode' = mode PROVE Numbers'
  BY <1>1, <1>3 DEF Core, Numbers
<1>4. ASSUME plugins' = plugins PROVE Created'
  BY <1>1, <1>4 DEF Core, Created
<1>6. ASSUME reply' = reply PROVE Answers'
  <2>1. \A k : (Refused(k)' <=> Refused(k)) /\ NodesFor(k)' = NodesFor(k)
    BY <1>1 DEF Refused, NodesFor, Fd, Control, Group
  <2>2. UNION {DevicesOf(k)' : k \in reply.ids} = UNION {DevicesOf(k) : k \in reply.ids}
    BY <1>1
  <2>3. QED
    BY <1>6, <2>1, <2>2 DEF Core, Answers, Control, Own, Group, Fd
<1>7. ASSUME watches' = watches, mode' = mode PROVE WatchesItsDevices'
  BY <1>1, <1>7 DEF Core, WatchesItsDevices, NoNode, Own, Group, Fd
<1>8. QED
  BY <1>2, <1>3, <1>4, <1>6, <1>7

\* The keys of a spec that is to be written are keys of the maps.
LEMMA JobKeys ==
    ASSUME Core, NEW ms \in SUBSET Models, NEW a, NEW j \in Jobs(ms, a)
    PROVE  j.keys \subseteq Keys
<1>1. \A m \in ms : Range(deviceMap[m]) \subseteq Keys
  BY DEF Core, Types, TypeOK
<1>2. QED
  BY <1>1 DEF Jobs

\* From one function to the next.
LEMMA StageSteps ==
    ASSUME Core, ScanStart \/ ScanDone \/ CdiStage
    PROVE  Core'
<1>1. /\ UNCHANGED <<bus, next, iommuMap, deviceMap, nvSwitchDeviceIDs, iommufd, loads, faults,
                     specs, plugins, watches, reply>>
      /\ phase # "serve" /\ phase' # "serve"
  BY DEF ScanStart, ScanDone, CdiStage, env, maps
<1>2. /\ Placed' /\ Advertised' /\ Created' /\ Answers' /\ WatchesItsDevices'
  <2>1. watches = {}
    BY <1>1 DEF Core, Stages
  <2>2. QED
    BY <1>1, <2>1, SameParts DEF WatchesItsDevices
<1>3. CASE ScanStart
  <2>1. phase = "start" /\ phase' = "scan" /\ mode' = iommufd /\ jobs' = jobs
    BY <1>3 DEF ScanStart
  <2>2. Numbers'
    <3>1. \A k \in Keys : DevicesOf(k) = {}
      BY <2>1 DEF Core, Stages, NoKeys, DevicesOf, Range
    <3>2. \A k \in Keys : DevicesOf(k)' = {}
      BY <1>1, <3>1, SameDevices
    <3>3. QED
      BY <1>1, <2>1, <3>2 DEF Numbers
  <2>3. Types'
    BY <1>1, <2>1, TypesNext DEF Core, Types, TypeOK
  <2>4. Stages'
    BY <1>1, <2>1 DEF Core, Stages, Discovered, NoReply
  <2>5. QED
    BY <1>2, <2>2, <2>3, <2>4 DEF Core
<1>4. CASE ScanDone \/ CdiStage
  <2>1. /\ phase' \in {"gpu", "switch", "create"} /\ mode' = mode
        /\ Discovered \/ next = Len(bus) + 1
        /\ phase' = "create" => jobs' = {}
    BY <1>4 DEF ScanDone, CdiStage, Discovered, Core, Types, TypeOK
  <2>2. \A j \in jobs' : j.keys \subseteq Keys
    <3>1. jobs' = {} \/ jobs' = NonEmpty(GpuJobs) \/ jobs' = NonEmpty(SwitchJobs)
      BY <1>4 DEF ScanDone, CdiStage
    <3>2. ModelsFound \subseteq Models
      BY DEF ModelsFound
    <3>3. QED
      BY <3>1, <3>2, JobKeys DEF NonEmpty, GpuJobs, SwitchJobs
  <2>3. Types'
    BY <1>1, <2>1, <2>2, TypesNext DEF Core, Types, TypeOK
  <2>4. Numbers'
    BY <1>1, <2>1, SameParts
  <2>5. Stages'
    BY <1>1, <2>1 DEF Core, Stages, Discovered, NoReply
  <2>6. QED
    BY <1>2, <2>3, <2>4, <2>5 DEF Core
<1>5. QED
  BY <1>3, <1>4

\* A spec of a valid class is written.
LEMMA WriteSpecStep ==
    ASSUME Core, NEW j \in jobs, WriteSpec(j)
    PROVE  Core'
<1>1. /\ UNCHANGED <<bus, next, iommuMap, deviceMap, nvSwitchDeviceIDs, iommufd, loads, faults,
                     mode, plugins, watches, reply>>
      /\ phase \in {"gpu", "switch"} /\ phase' \in {"gpu", "switch", "create"}
      /\ jobs' \subseteq jobs /\ (phase' = "create" => jobs' = {})
      /\ specs' = specs \/ (specs' = Saved(j) /\ j.class \in ValidClasses)
  BY DEF WriteSpec, env, maps, Rest, Accepted
<1>2. /\ Placed' /\ Advertised' /\ Numbers' /\ Created' /\ Answers' /\ WatchesItsDevices'
  BY <1>1, SameParts
<1>3. Types'
  <2>1. \A s \in specs' : s.class \in ValidClasses
    BY <1>1 DEF Saved, Core, Types, TypeOK
  <2>2. QED
    BY <1>1, <2>1, TypesNext DEF Core, Types, TypeOK
<1>4. Stages'
  BY <1>1 DEF Core, Stages, Discovered, NoReply
<1>5. QED
  BY <1>2, <1>3, <1>4 DEF Core

\* A key that is known has a device.
LEMMA KnownHasDevice ==
    ASSUME Core, NEW k \in Keys, Known(k)
    PROVE  \E d \in DevicesOf(k) : TRUE
<1>1. iommuMap[k] \in Seq(Positions)
  BY DEF Core, Types
<1>2. \E i \in Range(iommuMap[k]) : TRUE
  BY <1>1, RangeOfSeq DEF Known
<1>3. QED
  BY <1>2 DEF DevicesOf

\* A plugin is created with the keys of its device ID.
LEMMA CreatePluginsStep ==
    ASSUME Core, CreatePlugins
    PROVE  Core'
<1>1. /\ UNCHANGED <<bus, next, iommuMap, deviceMap, nvSwitchDeviceIDs, iommufd, loads, faults,
                     jobs, specs, watches, reply>>
      /\ phase = "create" /\ phase' = "serve" /\ mode' = mode
      /\ plugins' = {[model |-> m, name |-> DeviceName(m), keys |-> Range(deviceMap[m]),
                      dir |-> iommufd] : m \in ModelsFound}
  BY DEF CreatePlugins, env, maps
<1>2. plugins = {} /\ watches = {} /\ reply = NoReply
  BY <1>1 DEF Core, Stages
<1>3. /\ Placed' /\ Advertised' /\ Numbers' /\ Answers' /\ WatchesItsDevices'
  BY <1>1, SameParts
<1>4. Created'
  <2>1. \A k : DevicesOf(k)' = DevicesOf(k) /\ (Known(k)' <=> Known(k))
    BY <1>1, SameDevices
  <2>2. SUFFICES ASSUME NEW p \in plugins'
                 PROVE  /\ p.keys \subseteq Keys /\ \A k \in p.keys : Known(k)
                        /\ p.dir \in BOOLEAN
                        /\ ~p.dir => \A k \in Keys : \A d \in DevicesOf(k) : d.group = k
    BY <2>1 DEF Created
  <2>3. PICK m \in Models : p.keys = Range(deviceMap[m]) /\ p.dir = iommufd
    BY <1>1 DEF ModelsFound
  <2>4. p.keys \subseteq Keys /\ \A k \in p.keys : Known(k)
    BY <2>3 DEF Core, Types, TypeOK, Advertised
  <2>5. QED
    BY <2>3, <2>4 DEF Core, Types, TypeOK, Numbers
<1>5. Types'
  BY <1>1, <1>2, TypesNext DEF Core, Types, TypeOK
<1>6. Stages'
  BY <1>1 DEF Core, Stages, Discovered, NoReply
<1>7. QED
  BY <1>3, <1>4, <1>5, <1>6 DEF Core

\* The node watched for a key is one of its devices', or none at all.
LEMMA WatchNodesStep ==
    ASSUME Core, NEW p \in plugins, WatchNodes(p)
    PROVE  Core'
<1>1. /\ UNCHANGED <<bus, next, iommuMap, deviceMap, nvSwitchDeviceIDs, iommufd, loads, faults,
                     mode, phase, jobs, specs, plugins, reply>>
      /\ phase = "serve"
      /\ watches' = {w \in watches : w.plugin # p} \cup
                       {[plugin |-> p, key |-> k, node |-> WatchedNode(p, k)] : k \in p.keys}
  BY DEF WatchNodes, env, maps
<1>2. /\ Placed' /\ Advertised' /\ Numbers' /\ Created' /\ Answers'
  BY <1>1, SameParts
<1>3. \A k : DevicesOf(k)' = DevicesOf(k)
  BY <1>1, SameDevices
<1>4. ASSUME NEW k \in p.keys
      PROVE  \/ p.dir /\ (~mode \/ \E d \in DevicesOf(k) : d.fd = NoFd)
             \/ WatchedNode(p, k) = NoNode(k)
             \/ \E d \in DevicesOf(k) : WatchedNode(p, k) \in Own(d)
  <2>1. k \in Keys /\ Known(k) /\ p.dir \in BOOLEAN
    BY DEF Core, Created
  <2>2. PICK d \in DevicesOf(k) : TRUE
    BY <2>1, KnownHasDevice
  <2>3. CASE ~p.dir /\ ~iommufd
    <3>1. d.group = k
      BY <2>1, <2>3 DEF Core, Created
    <3>2. WatchedNode(p, k) = Group(k)
      BY <2>3 DEF WatchedNode
    <3>3. QED
      BY <2>2, <3>1, <3>2 DEF Own
  <2>4. CASE p.dir /\ iommufd
    <3>1. mode \in BOOLEAN
      BY DEF Core, Types, TypeOK
    <3>2. ASSUME mode, d.fd # NoFd PROVE WatchedNode(p, k) \in Own(d)
      <4>1. d.fd = k
        BY <2>1, <2>4, <3>2 DEF Core, Numbers
      <4>2. WatchedNode(p, k) = Fd(k)
        BY <2>4 DEF WatchedNode
      <4>3. QED
        BY <4>1, <4>2 DEF Own
    <3>3. QED
      BY <2>1, <2>2, <2>4, <3>1, <3>2
  <2>5. CASE p.dir # iommufd
    <3>1. iommufd \in BOOLEAN
      BY DEF Core, Types, TypeOK
    <3>2. WatchedNode(p, k) = NoNode(k)
      BY <2>1, <2>5, <3>1 DEF WatchedNode
    <3>3. QED
      BY <3>2
  <2>6. QED
    BY <2>1, <2>3, <2>4, <2>5 DEF Core, Types, TypeOK
<1>5. WatchesItsDevices'
  <2>1. SUFFICES ASSUME NEW w \in watches'
                 PROVE  \/ w.plugin.dir /\ (~mode \/ \E d \in DevicesOf(w.key) : d.fd = NoFd)
                        \/ w.node = NoNode(w.key)
                        \/ \E d \in DevicesOf(w.key) : w.node \in Own(d)
    BY <1>1, <1>3 DEF WatchesItsDevices, NoNode, Own, Group, Fd
  <2>2. CASE w \in watches
    BY <2>2 DEF Core, WatchesItsDevices
  <2>3. CASE w \notin watches
    <3>1. PICK k \in p.keys : w = [plugin |-> p, key |-> k, node |-> WatchedNode(p, k)]
      BY <1>1, <2>3
    <3>2. w.plugin = p /\ w.key = k /\ w.node = WatchedNode(p, k)
      BY <3>1
    <3>3. QED
      BY <1>4, <3>2
  <2>4. QED
    BY <2>2, <2>3
<1>6. Types'
  <2>1. \A w \in watches' : w.plugin \in plugins
    BY <1>1 DEF Core, Types, TypeOK
  <2>2. QED
    BY <1>1, <2>1, TypesNext DEF Core, Types, TypeOK
<1>7. Stages'
  BY <1>1 DEF Core, Stages, Discovered
<1>8. QED
  BY <1>2, <1>5, <1>6, <1>7 DEF Core

\* The nodes given for a key that is not refused: those of its devices, of each one.
LEMMA NodesOfKey ==
    ASSUME Core, NEW k \in Keys, ~Refused(k)
    PROVE  /\ NodesFor(k) \subseteq {Control} \cup UNION {Own(d) : d \in DevicesOf(k)}
           /\ \A d \in DevicesOf(k) : Own(d) \cap NodesFor(k) # {}
<1>1. Known(k)
  BY DEF Refused
<1>2. PICK d \in DevicesOf(k) : TRUE
  BY <1>1, KnownHasDevice
<1>3. CASE iommufd
  BY <1>3 DEF NodesFor, Own
<1>4. CASE ~iommufd
  <2>1. \A e \in DevicesOf(k) : Group(k) \in Own(e)
    BY <1>4 DEF Core, Numbers, Own
  <2>2. NodesFor(k) = {Control, Group(k)}
    BY <1>4 DEF NodesFor
  <2>3. QED
    BY <1>2, <2>1, <2>2
<1>5. QED
  BY <1>3, <1>4

\* The answer of Allocate, for any request.
LEMMA AllocateStep ==
    ASSUME Core, NEW ids \in SUBSET Keys, Allocate(ids)
    PROVE  Core'
<1>1. /\ UNCHANGED <<bus, next, iommuMap, deviceMap, nvSwitchDeviceIDs, iommufd, loads, faults,
                     mode, phase, jobs, specs, plugins, watches>>
      /\ phase = "serve"
      /\ reply'.ids = ids /\ (reply'.ok <=> ~\E k \in ids : Refused(k))
      /\ reply'.ok => reply'.nodes = UNION {NodesFor(k) : k \in ids}
  BY DEF Allocate, env, maps
<1>2. /\ Placed' /\ Advertised' /\ Numbers' /\ Created' /\ WatchesItsDevices'
  BY <1>1, SameParts
<1>3. Answers'
  <2>1. \A k : DevicesOf(k)' = DevicesOf(k) /\ (Known(k)' <=> Known(k))
    BY <1>1, SameDevices
  <2>2. \A k : (Refused(k)' <=> Refused(k)) /\ NodesFor(k)' = NodesFor(k)
    BY <1>1, <2>1 DEF Refused, NodesFor, Fd, Control, Group
  <2> DEFINE devs == UNION {DevicesOf(k) : k \in ids}
  <2>3. ASSUME reply'.ok
        PROVE  /\ \A k \in ids : ~Refused(k) /\ NodesFor(k) \subseteq reply'.nodes
               /\ reply'.nodes \subseteq {Control} \cup UNION {Own(d) : d \in devs}
               /\ \A d \in devs : Own(d) \cap reply'.nodes # {}
    <3>1. \A k \in ids : ~Refused(k) /\ NodesFor(k) \subseteq reply'.nodes
      BY <1>1, <2>3
    <3>2. reply'.nodes \subseteq {Control} \cup UNION {Own(d) : d \in devs}
      <4>1. \A k \in ids : NodesFor(k) \subseteq {Control} \cup UNION {Own(d) : d \in DevicesOf(k)}
        BY <3>1, NodesOfKey
      <4>2. \A k \in ids : UNION {Own(d) : d \in DevicesOf(k)} \subseteq UNION {Own(d) : d \in devs}
        OBVIOUS
      <4>3. QED
        BY <1>1, <2>3, <4>1, <4>2
    <3>3. ASSUME NEW d \in devs PROVE Own(d) \cap reply'.nodes # {}
      <4>1. PICK k \in ids : d \in DevicesOf(k)
        OBVIOUS
      <4>2. Own(d) \cap NodesFor(k) # {}
        BY <3>1, <4>1, NodesOfKey
      <4>3. QED
        BY <3>1, <4>2
    <3>4. QED
      BY <3>1, <3>2, <3>3
  <2>4. UNION {DevicesOf(k)' : k \in ids} = devs
    BY <2>1
  <2>5. QED
    BY <1>1, <2>2, <2>3, <2>4 DEF Answers, Control, Own, Group, Fd
<1>4. Types'
  BY <1>1, TypesNext DEF Core, Types, TypeOK
<1>5. Stages'
  BY <1>1 DEF Core, Stages, Discovered
<1>6. QED
  BY <1>2, <1>3, <1>4, <1>5 DEF Core

\* /dev/iommu appears: what depends on it no longer counts.
LEMMA LoadIommufdStep ==
    ASSUME Core, LoadIommufd
    PROVE  Core'
<1>1. /\ UNCHANGED <<bus, next, iommuMap, deviceMap, nvSwitchDeviceIDs, faults,
                     mode, phase, jobs, specs, plugins, watches, reply>>
      /\ ~iommufd /\ iommufd' = TRUE /\ loads < MaxLoads /\ loads' = loads + 1
  BY DEF LoadIommufd, maps
<1>2. loads' \in 0..MaxLoads /\ loads' > 0
  BY <1>1, ModelsAssumption DEF Core, Types, TypeOK
<1>3. \A k : DevicesOf(k)' = DevicesOf(k) /\ (Known(k)' <=> Known(k))
  BY <1>1, SameDevices
<1>4. Placed' /\ Advertised'
  BY <1>1, SameMaps
<1>5. Numbers'
  <2>1. loads' # 0
    BY <1>2
  <2>2. QED
    BY <1>1, <1>3, <2>1 DEF Core, Numbers
<1>6. Created'
  BY <1>1, <1>3 DEF Core, Created
<1>7. Answers'
  <2>1. UNION {DevicesOf(k)' : k \in reply.ids} = UNION {DevicesOf(k) : k \in reply.ids}
    BY <1>3
  <2>2. QED
    BY <1>1, <1>2, <2>1 DEF Core, Answers, Control, Own, Group, Fd
<1>8. WatchesItsDevices'
  BY <1>1, <1>2, <1>3 DEF Core, WatchesItsDevices, NoNode, Own, Group, Fd
<1>9. Types'
  BY <1>1, <1>2, TypesNext DEF Core, Types, TypeOK
<1>10. Stages'
  BY <1>1 DEF Core, Stages, Discovered, NoReply
<1>11. QED
  BY <1>4, <1>5, <1>6, <1>7, <1>8, <1>9, <1>10 DEF Core

\* A failing call: the function returns early, with what it has done.
LEMMA FaultStep ==
    ASSUME Core, Fault
    PROVE  Core'
<1>1. /\ UNCHANGED <<bus, next, iommuMap, deviceMap, nvSwitchDeviceIDs, iommufd, loads,
                     mode, specs, plugins, watches>>
      /\ faults < MaxFaults /\ faults' = faults + 1
      /\ jobs' = jobs \/ jobs' = {}
      /\ phase \in {"gpu", "switch"} => jobs' = {}
      /\ \/ phase \in {"start", "gpu", "switch", "create"} /\ phase' \in {"create", "exited"}
            /\ reply' = reply
         \/ phase = "serve" /\ phase' = "serve"
            /\ reply' = [ids |-> {}, ok |-> FALSE, nodes |-> {}]
  BY DEF Fault, maps
<1>2. faults' \in 0..MaxFaults /\ faults' > 0
  BY <1>1, ModelsAssumption DEF Core, Types, TypeOK
<1>3. /\ Placed' /\ Advertised' /\ Numbers' /\ Created' /\ WatchesItsDevices'
      /\ reply' = reply => Answers'
  BY <1>1, SameParts
<1>4. Answers'
  BY <1>1, <1>3 DEF Answers
<1>5. Types'
  BY <1>1, <1>2, TypesNext DEF Core, Types, TypeOK
<1>6. Stages'
  BY <1>1, <1>2 DEF Core, Stages, Discovered, NoReply
<1>7. QED
  BY <1>3, <1>4, <1>5, <1>6 DEF Core

-----------------------------------------------------------------------------
(* What follows.                                                           *)

\* A process that has done nothing yet, whatever files there are.
Blank ==
    /\ bus \in Hosts /\ iommufd \in BOOLEAN
    /\ loads \in 0..MaxLoads /\ faults \in 0..MaxFaults
    /\ phase = "start" /\ mode = FALSE /\ next = 1
    /\ iommuMap = NoKeys /\ deviceMap = NoModels /\ nvSwitchDeviceIDs = {}
    /\ jobs = {} /\ plugins = {} /\ watches = {} /\ reply = NoReply
    /\ \A s \in specs : s.class \in ValidClasses

\* Nothing that must hold in every process depends on what an earlier one has left.
LEMMA BlankIsCore == Blank => Core
<1> SUFFICES ASSUME Blank PROVE Core
  OBVIOUS
<1>1. /\ bus \in Hosts /\ Len(bus) \in Nat
      /\ \A k \in Keys : iommuMap[k] = <<>> /\ Range(iommuMap[k]) = {}
      /\ \A m \in Models : deviceMap[m] = <<>> /\ Range(deviceMap[m]) = {}
  <2>1. Range(<<>>) = {}
    BY DEF Range
  <2>2. QED
    BY <2>1, HostsAssumption DEF Blank, NoKeys, NoModels
<1>2. \A k \in Keys : DevicesOf(k) = {} /\ ~Known(k)
  BY <1>1 DEF DevicesOf, Known
<1>3. TypeOK
  <2>1. next \in 1..(Len(bus) + 1)
    BY <1>1 DEF Blank
  <2>2. ModelsFound = {}
    BY <1>1 DEF ModelsFound
  <2>3. QED
    BY <1>1, <2>1, <2>2 DEF Blank, TypeOK
<1>4. Types
  BY <1>3 DEF Blank, Types, NoKeys, NoModels
<1>5. Stages /\ Placed /\ Advertised
  <2>1. Stages
    BY DEF Blank, Stages, Discovered
  <2>2. \A i \in Positions : ~(i < next)
    BY <1>1 DEF Blank, Positions
  <2>3. Placed
    BY <1>1, <2>2 DEF Placed
  <2>4. \A m \in Models : DOMAIN deviceMap[m] = {}
    BY <1>1
  <2>5. Advertised
    BY <1>1, <1>2, <2>4 DEF Advertised
  <2>6. QED
    BY <2>1, <2>3, <2>5
<1>6. Numbers /\ Created /\ WatchesItsDevices
  BY <1>2 DEF Blank, Numbers, Created, WatchesItsDevices
<1>7. Answers
  BY DEF Blank, Answers, NoReply
<1>8. QED
  BY <1>4, <1>5, <1>6, <1>7 DEF Core

\* The first process finds no files.
LEMMA InitIsBlank == Init => Blank
BY ModelsAssumption DEF Init, Blank

\* Each step of a process keeps it.
LEMMA CoreNext ==
    ASSUME Core, [AnyStep]_vars
    PROVE  Core'
<1>1. CASE InitiateDevicePlugin
  BY <1>1, ScanStep, StageSteps, WriteSpecStep, CreatePluginsStep DEF InitiateDevicePlugin
<1>2. CASE \E p \in plugins : WatchNodes(p)
  BY <1>2, WatchNodesStep
<1>3. CASE \E ids \in SUBSET Keys : Allocate(ids)
  BY <1>3, AllocateStep
<1>4. CASE LoadIommufd \/ Fault
  BY <1>4, LoadIommufdStep, FaultStep
<1>5. CASE UNCHANGED vars
  <2>1. UNCHANGED <<bus, next, iommuMap, deviceMap, nvSwitchDeviceIDs, iommufd, loads, faults,
                    mode, phase, jobs, specs, plugins, watches, reply>>
    BY <1>5 DEF vars, env, maps
  <2>2. Placed' /\ Advertised' /\ Created' /\ Answers' /\ WatchesItsDevices'
    BY <2>1, SameParts
  <2>3. Numbers'
    BY <2>1, SameDevices DEF Core, Numbers
  <2>4. Types'
    BY <2>1, TypesNext DEF Core, Types, TypeOK
  <2>5. Stages'
    BY <2>1 DEF Core, Stages, Discovered, NoReply
  <2>6. QED
    BY <2>2, <2>3, <2>4, <2>5 DEF Core
<1>6. QED
  BY <1>1, <1>2, <1>3, <1>4, <1>5 DEF AnyStep

\* What other steps than those of the scan, the writer and createDevicePlugins leave alone.
LEMMA Steps ==
    ASSUME [AnyStep]_vars
    PROVE  /\ Scan \/ UNCHANGED maps
           /\ (\E j \in jobs : WriteSpec(j)) \/ UNCHANGED specs
           /\ CreatePlugins \/ UNCHANGED plugins
           /\ UNCHANGED <<bus, alias>>
           /\ phase' \in {"start", "scan"} => phase \in {"start", "scan"}
           /\ phase' = "serve" => phase = "serve" \/ CreatePlugins
BY DEF AnyStep, InitiateDevicePlugin, ScanStart, Scan, ScanDone, CdiStage, WriteSpec,
       CreatePlugins, WatchNodes, Allocate, LoadIommufd, Fault, vars, env, maps

\* The devices of a spec are those of its keys.
LEMMA FilesNext ==
    ASSUME Core, Core', Files, [AnyStep]_vars
    PROVE  Files'
<1>1. UNCHANGED specs \/ \E j \in jobs : WriteSpec(j) /\ specs' = Saved(j)
  BY Steps DEF WriteSpec
<1>2. CASE phase \in {"start", "scan"}
  <2>1. specs' = {}
    BY <1>1, <1>2 DEF Files, WriteSpec
  <2>2. QED
    BY <2>1 DEF Files
<1>3. CASE phase \notin {"start", "scan"}
  <2>1. phase' \notin {"start", "scan"} /\ UNCHANGED <<bus, iommuMap>>
    BY <1>3, Steps DEF Scan, maps
  <2>2. loads' = 0 => loads = 0 /\ UNCHANGED iommufd
    <3>1. UNCHANGED <<loads, iommufd>> \/ loads' = loads + 1
      BY DEF AnyStep, InitiateDevicePlugin, ScanStart, Scan, ScanDone, CdiStage, WriteSpec,
         CreatePlugins, WatchNodes, Allocate, LoadIommufd, Fault, vars, env
    <3>2. QED
      BY <3>1, ModelsAssumption DEF Core, Types, TypeOK
  <2>3. \A k : DevicesOf(k)' = DevicesOf(k)
    BY <2>1, SameDevices
  <2>4. ASSUME loads' = 0, NEW s \in specs', NEW c \in s.devices
        PROVE  c.name \in Keys /\ \E d \in DevicesOf(c.name) : c.nodes = CdiNodes(c.name, d)
    <3>1. CASE s \in specs
      BY <2>2, <2>4, <3>1 DEF Files
    <3>2. CASE s \notin specs
      <4>1. PICK j \in jobs : s \in Saved(j)
        BY <1>1, <2>4, <3>2
      <4>2. s = [class |-> j.class, devices |-> CdiDevices(j)]
        BY <3>2, <4>1 DEF Saved
      <4>3. PICK k \in j.keys : \E d \in DevicesOf(k) : c = [name |-> k, nodes |-> CdiNodes(k, d)]
        BY <2>4, <4>2 DEF CdiDevices
      <4>4. k \in Keys
        BY DEF Core, Types
      <4>5. QED
        BY <4>3, <4>4
    <3>3. QED
      BY <3>1, <3>2
  <2>5. ASSUME loads' = 0, NEW k, NEW d PROVE CdiNodes(k, d)' = CdiNodes(k, d)
    BY <2>2, <2>5 DEF CdiNodes, Fd, Control, Group
  <2>6. QED
    BY <2>1, <2>3, <2>4, <2>5 DEF Files
<1>4. QED
  BY <1>2, <1>3

\* Requests for one or two IDs are requests.
LEMMA NextIsAnyStep == [Next]_vars => [AnyStep]_vars
BY DEF Next, AnyStep, Requests

\* The maps, plugins, files and answers fit the bus throughout the first process, whatever
\* fails and whenever /dev/iommu appears.
THEOREM Invariance == Spec => []IInv
<1>1. Init => IInv
  BY InitIsBlank, BlankIsCore DEF IInv, Init, Files
<1>2. IInv /\ [Next]_vars => IInv'
  BY NextIsAnyStep, CoreNext, FilesNext DEF IInv
<1>3. QED
  BY <1>1, <1>2, PTL DEF Spec

\* createIommuDeviceMap enters GPUs and NVSwitches only, GenerateCDISpec writes files of
\* valid classes only, and all variables keep their types, on every bus.
THEOREM TypeCorrect == Spec => []TypeOK
<1>1. IInv => TypeOK
  BY DEF IInv, Core, Types
<1>2. QED
  BY <1>1, Invariance, PTL

\* It follows from what holds in every process, whatever files there are.
LEMMA CorePartition == Core => KeysArePartitioned
<1> SUFFICES ASSUME Core, Discovered, faults = 0 PROVE KeysArePartitioned
  BY DEF KeysArePartitioned
<1>1. ASSUME NEW i \in 1..Len(bus), Qualifies(bus[i])
      PROVE  \E k \in Keys : \A l \in Keys : i \in Range(iommuMap[l]) <=> l = k
  <2>1. i < next
    BY BusType DEF Core, Types, Stages
  <2>2. PICK k \in Keys : i \in Range(iommuMap[k])
    BY <1>1, <2>1 DEF Core, Placed, Positions
  <2>3. QED
    BY <2>2 DEF Core, Placed
<1>2. ASSUME NEW k \in Keys, Known(k)
      PROVE  \E m \in Models : \E j \in DOMAIN deviceMap[m] :
                \A n \in Models : \A i \in DOMAIN deviceMap[n] :
                   deviceMap[n][i] = k <=> n = m /\ i = j
  <2>1. PICK m \in Models : k \in Range(deviceMap[m])
    BY <1>2 DEF Core, Advertised
  <2>2. PICK j \in DOMAIN deviceMap[m] : deviceMap[m][j] = k
    BY <2>1 DEF Range
  <2>3. QED
    BY <2>2 DEF Core, Advertised
<1>3. QED
  BY <1>1, <1>2 DEF KeysArePartitioned

\* createIommuDeviceMap puts every device under one key and advertises every key once,
\* however groups are shared and whatever numbers groups and fds have.
THEOREM KeysPartition == Spec => []KeysArePartitioned
<1>1. IInv => KeysArePartitioned
  BY CorePartition DEF IInv
<1>2. QED
  BY <1>1, Invariance, PTL

\* Allocate gives a container the nodes of all its devices and of no others, also when
\* /dev/iommu has appeared since their discovery.
THEOREM NodesAreRight == Spec => []NodesAreTheDevices
<1>1. IInv => NodesAreTheDevices
  BY DEF IInv, Core, Answers, NodesAreTheDevices
<1>2. QED
  BY <1>1, Invariance, PTL

\* healthCheck never takes an event of one device's node for one of another device.
THEOREM WatchesAreRight == Spec => []WatchesItsDevices
<1>1. IInv => WatchesItsDevices
  BY DEF IInv, Core
<1>2. QED
  BY <1>1, Invariance, PTL

\* The nodes of a CDI device are among those that Allocate gives for its key.
THEOREM CdiAgrees == Spec => []CdiAgreesWithAllocate
<1>1. IInv => CdiAgreesWithAllocate
  <2> SUFFICES ASSUME IInv, loads = 0, reply.ok,
                      NEW s \in specs, NEW c \in s.devices, c.name \in reply.ids
               PROVE  c.nodes \subseteq reply.nodes
    BY DEF CdiAgreesWithAllocate
  <2>1. PICK d \in DevicesOf(c.name) : c.nodes = CdiNodes(c.name, d)
    BY DEF IInv, Core, Files
  <2>2. ~Refused(c.name) /\ NodesFor(c.name) \subseteq reply.nodes
    BY DEF IInv, Core, Answers
  <2>3. CdiNodes(c.name, d) \subseteq NodesFor(c.name)
    BY <2>1, <2>2 DEF CdiNodes, NodesFor, Refused
  <2>4. QED
    BY <2>1, <2>2, <2>3
<1>2. QED
  BY <1>1, Invariance, PTL

-----------------------------------------------------------------------------
(* The names: each device ID that was found has a plugin of its name, and  *)
(* those of NVSwitches are known to be.                                    *)

Named ==
    /\ \A m \in ModelsFound : KindOf[m] = "NVSwitch" => m \in nvSwitchDeviceIDs
    /\ phase = "serve" =>
          /\ \A m \in ModelsFound : \E p \in plugins : p.model = m
          /\ \A p \in plugins : /\ p.model \in ModelsFound
                                /\ p.name = DeviceName(p.model)
                                /\ p.keys = Range(deviceMap[p.model])

\* The scan knows its NVSwitches, and the names of plugins do not change while they serve.
LEMMA NamedNext ==
    ASSUME Core, Named, [AnyStep]_vars
    PROVE  Named'
<1>1. CASE Scan
  <2>1. phase' = "scan"
    BY <1>1 DEF Scan
  <2>2. CASE UNCHANGED maps
    BY <2>1, <2>2 DEF maps, Named, ModelsFound
  <2>3. CASE Qualifies(bus[next])
    <3> DEFINE mod == bus[next].model
    <3>1. mod \in Models /\ deviceMap \in [Models -> Seq(Keys)]
      BY <1>1, <2>3, Entry DEF BusDevice, Core, Types
    <3>2. /\ \A m \in Models \ {mod} : deviceMap'[m] = deviceMap[m]
          /\ nvSwitchDeviceIDs' = nvSwitchDeviceIDs \cup
                 (IF KindOf[mod] = "NVSwitch" THEN {mod} ELSE {})
      BY <1>1, <2>3, <3>1 DEF Scan
    <3> HIDE DEF mod
    <3>3. QED
      BY <2>1, <3>1, <3>2 DEF Named, ModelsFound
  <2>4. QED
    BY <1>1, <2>2, <2>3 DEF Scan
<1>2. CASE CreatePlugins
  <2>1. UNCHANGED <<bus, alias, iommuMap, deviceMap, nvSwitchDeviceIDs>>
    BY <1>2 DEF CreatePlugins, env, maps
  <2>2. ModelsFound' = ModelsFound /\ \A m : DeviceName(m)' = DeviceName(m)
    BY <2>1 DEF ModelsFound, DeviceName, AliasOf, OwnName, DevicesOf
  <2>3. \A m \in ModelsFound : \E p \in plugins' : p.model = m
    <3> TAKE m \in ModelsFound
    <3> DEFINE plugin == [model |-> m, name |-> DeviceName(m), keys |-> Range(deviceMap[m]),
                          dir |-> iommufd]
    <3>1. plugin \in plugins'
      BY <1>2 DEF CreatePlugins
    <3>2. WITNESS plugin \in plugins'
    <3>3. QED
      OBVIOUS
  <2>4. \A p \in plugins' : /\ p.model \in ModelsFound
                            /\ p.name = DeviceName(p.model)
                            /\ p.keys = Range(deviceMap[p.model])
    BY <1>2 DEF CreatePlugins
  <2>5. QED
    BY <2>1, <2>2, <2>3, <2>4 DEF Named
<1>3. CASE ~Scan /\ ~CreatePlugins
  <2>1. /\ UNCHANGED <<bus, alias, iommuMap, deviceMap, nvSwitchDeviceIDs, plugins>>
        /\ phase' = "serve" => phase = "serve"
    BY <1>3, Steps DEF maps
  <2>2. ModelsFound' = ModelsFound /\ \A m : DeviceName(m)' = DeviceName(m)
    BY <2>1 DEF ModelsFound, DeviceName, AliasOf, OwnName, DevicesOf
  <2>3. QED
    BY <2>1, <2>2 DEF Named
<1>4. QED
  BY <1>1, <1>2, <1>3

\* What getGPUDeviceName comes to, in every process.
LEMMA NamedGpu == Core /\ Named => GfdAsksForAGpu
<1> SUFFICES ASSUME Core, Named, phase = "serve",
                    NEW q \in plugins, KindOf[q.model] = "GPU", NEW r \in GfdResources
             PROVE  \E p \in plugins : p.name = r /\ KindOf[p.model] = "GPU" /\ p.keys # {}
  BY DEF GfdAsksForAGpu
<1>1. q.model \in ModelsFound \ nvSwitchDeviceIDs
  BY DEF Named, Core, Types, TypeOK
<1>2. PICK m \in ModelsFound : m \notin nvSwitchDeviceIDs /\ r = DeviceName(m)
  BY <1>1 DEF GfdResources, GfdName, DeviceName, AliasOf
<1>3. PICK p \in plugins : p.model = m /\ p.name = DeviceName(m) /\ p.keys = Range(deviceMap[m])
  BY <1>2 DEF Named
<1>4. KindOf[m] = "GPU"
  BY <1>2, ModelsAssumption DEF Named, Core, Types, TypeOK, ModelsFound
<1>5. Range(deviceMap[m]) # {}
  BY RangeOfSeq DEF ModelsFound, Core, Types
<1>6. QED
  BY <1>2, <1>3, <1>4, <1>5

\* gfd.go, which computes the name of a GPU's resource anew, comes to that of a plugin
\* which createDevicePlugins has created for a GPU.
THEOREM GfdAgrees == Spec => []GfdAsksForAGpu
<1>1. Init => Named
  BY DEF Init, Named, ModelsFound, NoModels
<1>2. IInv /\ Named /\ [Next]_vars => Named'
  BY NamedNext, NextIsAnyStep DEF IInv
<1>3. IInv /\ Named => GfdAsksForAGpu
  BY NamedGpu DEF IInv
<1>4. QED
  BY <1>1, <1>2, <1>3, Invariance, PTL DEF Spec
=============================================================================
