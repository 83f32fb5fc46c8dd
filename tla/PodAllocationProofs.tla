------------------------- MODULE PodAllocationProofs -------------------------
(***************************************************************************)
(* Proofs about PodAllocation, for every host and any number of restarts:  *)
(* no device is given to two containers, and the files of an earlier       *)
(* process do not outlive GenerateCDISpec of this one.                     *)
(***************************************************************************)
EXTENDS PodAllocation, CdiSpecProofs

-----------------------------------------------------------------------------
(* The inductive invariant.                                                *)

\* A key counts for the device ID of the first of its devices.
Ranked ==
    \A m \in Models : \A k \in Range(deviceMap[m]) :
        \E f \in Range(iommuMap[k]) :
            bus[f].model = m /\ \A i \in Range(iommuMap[k]) : f <= i

\* The name of a device ID that has been found, whatever process finds it.
LastingName(m) ==
    LET a == IF KindOf[m] = "NVSwitch" THEN alias.switch ELSE alias.gpu
    IN  CASE a # NoName                      -> a
          [] a = NoName /\ NameOf[m] # NoName -> NameOf[m]
          [] OTHER                           -> m

\* The kubelet gives an ID of a resource to one container at a time.
Taken == \A g, h \in held : g.name = h.name /\ g.ids \cap h.ids # {} => g = h

\* A container with the node of a device has an ID for it: its key, or, for a device that
\* has none, its group.
Meets(h, i) ==
    \E k \in h.ids : \/ i \in Range(iommuMap[k])
                     \/ bus[i].group = k /\ \A l \in Keys : i \notin Range(iommuMap[l])

\* In the first process the IDs of a container are keys that a plugin of this process has.
HeldInFirst ==
    restarts = 0 =>
        /\ phase # "serve" => held = {}
        /\ \A h \in held : \E p \in plugins : p.name = h.name /\ h.ids \subseteq p.keys
        /\ \A i \in Positions : \A h \in Holders(bus[i]) : Meets(h, i)

\* The first device of a group that qualifies.
LeadsGroup(f, k) ==
    /\ bus[f].group = k /\ Qualifies(bus[f])
    /\ \A i \in Positions : bus[i].group = k /\ Qualifies(bus[i]) => f <= i

\* As long as /dev/iommu stays what it is, a node belongs to an ID, and a resource, that any
\* process comes to: those of the device with this fd, or those of the group.
OfFd(h, n) ==
    \E i \in Positions :
        /\ bus[i].fd # NoFd /\ n = Fd(bus[i].fd)
        /\ bus[i].fd \in h.ids /\ h.name = LastingName(bus[i].model)
OfGroup(h, n) ==
    \/ n = Control
    \/ \E k \in h.ids : \E f \in Positions :
           n = Group(k) /\ LeadsGroup(f, k) /\ h.name = LastingName(bus[f].model)
HeldInMode ==
    loads = 0 =>
        \A h \in held : \A n \in h.nodes : IF iommufd THEN OfFd(h, n) ELSE OfGroup(h, n)

PodInv ==
    /\ Core /\ Named /\ Written /\ Ranked
    /\ Taken /\ HeldInFirst /\ HeldInMode
    /\ restarts \in Nat

-----------------------------------------------------------------------------
(* What the steps of a process leave of it.                                *)

\* The first device of a key comes first also when others follow.
LEMMA RankedNext ==
    ASSUME Core, Ranked, [AnyStep]_vars
    PROVE  Ranked'
<1>1. CASE ~Scan
  <2>1. UNCHANGED <<bus, iommuMap, deviceMap>>
    BY <1>1, Steps DEF maps
  <2>2. QED
    BY <2>1 DEF Ranked
<1>2. CASE Scan /\ ~Qualifies(bus[next])
  <2>1. UNCHANGED <<bus, iommuMap, deviceMap>>
    BY <1>2 DEF Scan, maps, env
  <2>2. QED
    BY <2>1 DEF Ranked
<1>3. CASE Scan /\ Qualifies(bus[next])
  <2> DEFINE key == KeyOf(bus[next])
             mod == bus[next].model
  <2>1. /\ next \in Positions /\ key \in Keys /\ mod \in Models /\ bus' = bus
        /\ \A k \in Keys : Range(iommuMap'[k]) =
              Range(iommuMap[k]) \cup (IF k = key THEN {next} ELSE {})
    BY <1>3, Entry DEF Scan, env, BusDevice
  <2>2. /\ deviceMap' = [deviceMap EXCEPT ![mod] = KeysWith(mod, key)]
        /\ deviceMap \in [Models -> Seq(Keys)] /\ iommuMap \in [Keys -> Seq(Positions)]
    BY <1>3 DEF Scan, Core, Types
  <2>3. /\ \A k \in Keys : Range(iommuMap[k]) \subseteq Positions
        /\ \A k \in Keys : \A i \in Range(iommuMap[k]) : i < next
        /\ \A m \in Models : Range(deviceMap[m]) \subseteq Keys
    BY <2>2, RangeOfSeq DEF Core, Placed
  <2> HIDE DEF key, mod
  <2>4. ASSUME NEW m \in Models, NEW k \in Range(deviceMap'[m])
        PROVE  k \in Range(deviceMap[m]) \/ (m = mod /\ k = key /\ ~Known(key))
    <3>1. CASE m = mod /\ ~Known(key)
      <4>1. deviceMap'[m] = Append(deviceMap[m], key) /\ deviceMap[m] \in Seq(Keys)
        BY <2>2, <3>1 DEF KeysWith
      <4>2. Range(deviceMap'[m]) = Range(deviceMap[m]) \cup {key}
        BY <2>1, <4>1, RangeOfAppend
      <4>3. QED
        BY <2>4, <3>1, <4>2
    <3>2. CASE ~(m = mod /\ ~Known(key))
      <4>1. deviceMap'[m] = deviceMap[m]
        BY <2>1, <2>2, <3>2 DEF KeysWith
      <4>2. QED
        BY <2>4, <4>1
    <3>3. QED
      BY <3>1, <3>2
  <2>5. ASSUME NEW m \in Models, NEW k \in Range(deviceMap[m])
        PROVE  \E f \in Range(iommuMap'[k]) :
                  bus[f].model = m /\ \A i \in Range(iommuMap'[k]) : f <= i
    <3>1. PICK f \in Range(iommuMap[k]) :
              bus[f].model = m /\ \A i \in Range(iommuMap[k]) : f <= i
      BY DEF Ranked
    <3>2. k \in Keys
      BY <2>3
    <3>3. f \in Nat /\ next \in Nat /\ f < next
      BY <2>1, <2>3, <3>2 DEF Positions
    <3>4. \A i \in Range(iommuMap'[k]) : f <= i
      BY <2>1, <3>1, <3>2, <3>3
    <3>5. QED
      BY <2>1, <3>1, <3>2, <3>4
  <2>6. CASE ~Known(key)
    <3>1. Range(iommuMap[key]) = {}
      BY <2>1, <2>2, <2>6, RangeOfSeq DEF Known
    <3>2. Range(iommuMap'[key]) = {next}
      BY <2>1, <3>1
    <3>3. next <= next
      BY <2>1 DEF Positions
    <3>4. QED
      BY <2>1, <2>4, <2>5, <3>2, <3>3 DEF Ranked, mod
  <2>7. CASE Known(key)
    BY <2>1, <2>4, <2>5, <2>7 DEF Ranked
  <2>8. QED
    BY <2>6, <2>7
<1>4. QED
  BY <1>1, <1>2, <1>3

\* What the plugins serve, and /dev/iommu, while a process runs.
LEMMA Serving ==
    ASSUME Core, [AnyStep]_vars
    PROVE  /\ bus' = bus /\ alias' = alias /\ Positions' = Positions
           /\ phase = "serve" => phase' = "serve" /\ UNCHANGED <<iommuMap, deviceMap, plugins>>
           /\ phase' = "serve" => phase = "serve" \/ CreatePlugins
           /\ loads' = 0 => loads = 0 /\ iommufd' = iommufd
<1>1. UNCHANGED <<loads, iommufd>> \/ loads' = loads + 1
  BY DEF AnyStep, InitiateDevicePlugin, ScanStart, Scan, ScanDone, CdiStage, WriteSpec,
     CreatePlugins, WatchNodes, Allocate, LoadIommufd, Fault, vars, env
<1>2. loads' = 0 => loads = 0 /\ iommufd' = iommufd
  BY <1>1, ModelsAssumption DEF Core, Types, TypeOK
<1>3. phase = "serve" => phase' = "serve" /\ UNCHANGED <<iommuMap, deviceMap, plugins>>
  BY DEF AnyStep, InitiateDevicePlugin, ScanStart, Scan, ScanDone, CdiStage, WriteSpec,
     CreatePlugins, WatchNodes, Allocate, LoadIommufd, Fault, vars, env, maps
<1>4. QED
  BY <1>2, <1>3, Steps DEF Positions

-----------------------------------------------------------------------------
(* The names that last.                                                    *)

\* The name of a plugin depends on its device ID only.
LEMMA NameLasts ==
    ASSUME Core, Named, Ranked, NEW m \in ModelsFound
    PROVE  DeviceName(m) = LastingName(m)
<1>1. m \in Models /\ (m \in nvSwitchDeviceIDs <=> KindOf[m] = "NVSwitch")
  BY DEF ModelsFound, Named, Core, Types, TypeOK
<1>2. OwnName(m) = NameOf[m]
  <2>1. PICK k \in Range(deviceMap[m]) : k \in Keys
    BY FoundHasKeys
  <2>2. PICK f \in Range(iommuMap[k]) : bus[f].model = m
    BY <1>1 DEF Ranked
  <2>3. bus[f] \in DevicesOf(k)
    BY DEF DevicesOf
  <2>4. QED
    BY <2>1, <2>2, <2>3 DEF OwnName
<1>3. QED
  BY <1>1, <1>2 DEF DeviceName, AliasOf, LastingName

\* The first device of a key that a plugin has gives the plugin its name.
LEMMA KeyOfPlugin ==
    ASSUME Core, Named, Ranked, phase = "serve", NEW p \in plugins, NEW k \in p.keys
    PROVE  \E f \in Positions :
              /\ f \in Range(iommuMap[k]) /\ \A i \in Range(iommuMap[k]) : f <= i
              /\ p.name = LastingName(bus[f].model)
<1>1. p.model \in ModelsFound /\ p.name = DeviceName(p.model) /\ k \in Range(deviceMap[p.model])
  BY DEF Named
<1>2. PICK f \in Range(iommuMap[k]) :
          bus[f].model = p.model /\ \A i \in Range(iommuMap[k]) : f <= i
  BY <1>1 DEF Ranked, ModelsFound
<1>3. k \in Keys
  BY <1>1, FoundHasKeys
<1>4. f \in Positions
  BY <1>2, <1>3, RangeOfSeq DEF Core, Types
<1>5. p.name = LastingName(bus[f].model)
  BY <1>1, <1>2, NameLasts
<1>6. QED
  BY <1>2, <1>4, <1>5

\* A key that a plugin has is that of all devices of its group that qualify.
LEMMA GroupOfKey ==
    ASSUME Core, phase = "serve", ~iommufd, NEW k \in Keys, Known(k), NEW i \in Positions
    PROVE  i \in Range(iommuMap[k]) <=> bus[i].group = k /\ Qualifies(bus[i])
<1>1. \A l \in Keys : \A j \in Range(iommuMap[l]) : bus[j].group = l /\ Qualifies(bus[j])
  BY DEF Core, Numbers, Placed, DevicesOf
<1>2. i < next
  <2>1. next = Len(bus) + 1
    BY DEF Core, Stages, Discovered, Known, NoKeys
  <2>2. QED
    BY <2>1, BusType DEF Core, Types, Positions
<1>3. Qualifies(bus[i]) => \E l \in Keys : i \in Range(iommuMap[l])
  BY <1>2 DEF Core, Placed
<1>4. QED
  BY <1>1, <1>3

-----------------------------------------------------------------------------
(* The nodes.                                                              *)

\* Nodes of different kinds or numbers are different.
LEMMA NodeTags ==
    \A k, l : /\ Control # Group(k) /\ Control # Fd(k) /\ Group(k) # Fd(l)
              /\ Group(k) = Group(l) <=> k = l
              /\ Fd(k) = Fd(l) <=> k = l
BY DEF Control, Group, Fd

\* The node under /dev/vfio/devices is that of one device.
LEMMA FdIsOwn ==
    ASSUME Core, NEW i \in Positions, NEW j \in Positions,
           bus[i].fd # NoFd, bus[i].fd = bus[j].fd
    PROVE  i = j
<1>1. bus \in Hosts
  BY DEF Core, Types, TypeOK
<1>2. QED
  BY <1>1, FdsAssumption DEF Positions

\* What Allocate answers.
LEMMA Answer ==
    ASSUME NEW ids, Allocate(ids), reply'.ok
    PROVE  /\ \A k \in ids : ~Refused(k)
           /\ \A n \in reply'.nodes : \E k \in ids : n \in NodesFor(k)
BY DEF Allocate

\* A container that is given the node of a device has asked for an ID of it.
LEMMA NewMeets ==
    ASSUME Core, NEW k \in Keys, ~Refused(k), NEW n \in NodesFor(k),
           NEW i \in Positions, n \in Own(bus[i])
    PROVE  \/ i \in Range(iommuMap[k])
           \/ bus[i].group = k /\ \A l \in Keys : i \notin Range(iommuMap[l])
<1>1. CASE iommufd
  <2>1. PICK j \in Range(iommuMap[k]) : n = Fd(bus[j].fd) /\ bus[j].fd # NoFd
    BY <1>1 DEF NodesFor, Refused, DevicesOf
  <2>2. j \in Positions
    BY RangeOfSeq DEF Core, Types
  <2>3. bus[i].fd = bus[j].fd
    BY <2>1, NodeTags DEF Own
  <2>4. QED
    BY <2>1, <2>2, <2>3, FdIsOwn
<1>2. CASE ~iommufd
  <2>1. n = Group(k) /\ bus[i].group = k
    BY <1>2, NodeTags DEF NodesFor, Own
  <2>2. \A l \in Keys : i \in Range(iommuMap[l]) => l = k
    BY <1>2, <2>1 DEF Core, Numbers, DevicesOf
  <2>3. QED
    BY <2>1, <2>2
<1>3. QED
  BY <1>1, <1>2

\* Its nodes belong to its IDs and its resource, in either mode.
LEMMA NewInMode ==
    ASSUME Core, Named, Ranked, loads = 0, phase = "serve", NEW p \in plugins,
           NEW h, h.name = p.name, h.ids \subseteq p.keys,
           NEW k \in h.ids, ~Refused(k), NEW n \in NodesFor(k)
    PROVE  IF iommufd THEN OfFd(h, n) ELSE OfGroup(h, n)
<1>1. k \in p.keys /\ k \in Keys /\ Known(k)
  BY DEF Core, Created
<1>2. PICK f \in Positions : /\ f \in Range(iommuMap[k]) /\ \A i \in Range(iommuMap[k]) : f <= i
                             /\ p.name = LastingName(bus[f].model)
  BY <1>1, KeyOfPlugin
<1>3. CASE iommufd
  <2>1. PICK j \in Range(iommuMap[k]) : n = Fd(bus[j].fd)
    BY <1>3 DEF NodesFor, DevicesOf
  <2>2. \A i \in Range(iommuMap[k]) : bus[i].fd # NoFd /\ bus[i].fd = k
    BY <1>1, <1>3 DEF Refused, DevicesOf, Core, Numbers
  <2>3. j \in Positions
    BY <1>1, RangeOfSeq DEF Core, Types
  <2>4. f = j
    BY <1>2, <2>1, <2>2, <2>3, FdIsOwn
  <2>5. QED
    BY <1>2, <1>3, <2>1, <2>2, <2>3, <2>4 DEF OfFd
<1>4. CASE ~iommufd
  <2>1. n \in {Control, Group(k)}
    BY <1>4 DEF NodesFor
  <2>2. LeadsGroup(f, k)
    BY <1>1, <1>2, <1>4, GroupOfKey DEF LeadsGroup
  <2>3. QED
    BY <1>2, <1>4, <2>1, <2>2 DEF OfGroup
<1>5. QED
  BY <1>3, <1>4

-----------------------------------------------------------------------------
(* What containers hold.                                                   *)

\* It changes with the bus only.
LEMMA SameHolding ==
    ASSUME UNCHANGED <<bus, alias>>, NEW h, NEW n
    PROVE  (OfFd(h, n)' <=> OfFd(h, n)) /\ (OfGroup(h, n)' <=> OfGroup(h, n))
<1>1. Positions' = Positions /\ \A m : LastingName(m)' = LastingName(m)
  BY DEF Positions, LastingName
<1>2. \A f, k : LeadsGroup(f, k)' <=> LeadsGroup(f, k)
  BY <1>1 DEF LeadsGroup, Qualifies
<1>3. OfFd(h, n)' <=> OfFd(h, n)
  BY <1>1 DEF OfFd, Fd
<1>4. OfGroup(h, n)' <=> OfGroup(h, n)
  BY <1>1, <1>2 DEF OfGroup, Group, Control
<1>5. QED
  BY <1>3, <1>4

\* The steps of a process leave it alone, those of pods included that end.
LEMMA HeldNext ==
    ASSUME PodInv, [AnyStep]_vars, held' \subseteq held, restarts' = restarts
    PROVE  Taken' /\ HeldInFirst' /\ HeldInMode'
<1>1. Taken'
  BY DEF PodInv, Taken
<1>2. HeldInMode'
  BY Serving, SameHolding DEF PodInv, HeldInMode
<1>3. HeldInFirst'
  <2> SUFFICES ASSUME restarts = 0
               PROVE  /\ phase' # "serve" => held' = {}
                      /\ \A h \in held' : \E p \in plugins' :
                            p.name = h.name /\ h.ids \subseteq p.keys
                      /\ \A i \in Positions' : \A h \in Holders(bus[i])' : Meets(h, i)'
    BY DEF HeldInFirst
  <2>1. CASE phase = "serve"
    <3>1. /\ phase' = "serve" /\ UNCHANGED <<bus, iommuMap, plugins>> /\ Positions' = Positions
      BY <2>1, Serving DEF PodInv
    <3>2. \A i \in Positions : Holders(bus[i])' \subseteq Holders(bus[i])
      BY <3>1 DEF Holders, Own, Group, Fd
    <3>3. \A h, i : Meets(h, i)' <=> Meets(h, i)
      BY <3>1 DEF Meets
    <3>4. QED
      BY <2>1, <3>1, <3>2, <3>3 DEF PodInv, HeldInFirst
  <2>2. CASE phase # "serve"
    <3>1. held' = {}
      BY <2>2 DEF PodInv, HeldInFirst
    <3>2. QED
      BY <3>1 DEF Holders
  <2>3. QED
    BY <2>1, <2>2
<1>4. QED
  BY <1>1, <1>2, <1>3

\* A pod that starts.
LEMMA PodStartStep ==
    ASSUME PodInv, NEW p \in plugins, NEW ids \in SUBSET p.keys, PodStart(p, ids)
    PROVE  [AnyStep]_vars /\ Taken' /\ HeldInFirst' /\ HeldInMode' /\ restarts' = restarts
<1>1. ids \subseteq Keys /\ Allocate(ids) /\ restarts' = restarts /\ phase = "serve"
  BY DEF PodStart, Allocate, PodInv, Core, Created
<1>2. [AnyStep]_vars
  BY <1>1 DEF AnyStep
<1>3. CASE ~reply'.ok
  <2>1. held' = held
    BY <1>3 DEF PodStart
  <2>2. QED
    BY <1>1, <1>2, <2>1, HeldNext
<1>4. CASE reply'.ok
  <2> DEFINE new == [name |-> p.name, ids |-> ids, nodes |-> reply'.nodes]
  <2>1. held' = held \cup {new}
    BY <1>4 DEF PodStart
  <2>2. new.name = p.name /\ new.ids = ids /\ new.nodes = reply'.nodes
    OBVIOUS
  <2> HIDE DEF new
  <2>3. /\ UNCHANGED <<bus, alias, iommufd, loads, phase, iommuMap, plugins>> /\ Positions' = Positions
    BY <1>1 DEF Allocate, env, maps, Positions
  <2>4. /\ \A k \in ids : ~Refused(k)
        /\ \A n \in new.nodes : \E k \in ids : n \in NodesFor(k)
    BY <1>1, <1>4, <2>2, Answer
  <2>5. Taken'
    <3>1. \A h \in held : h.name = p.name => h.ids \cap ids = {}
      BY DEF PodStart
    <3>2. QED
      BY <2>1, <2>2, <3>1 DEF PodInv, Taken
  <2>6. HeldInMode'
    <3> SUFFICES ASSUME loads = 0, NEW h \in held', NEW n \in h.nodes
                 PROVE  IF iommufd THEN OfFd(h, n) ELSE OfGroup(h, n)
      BY <2>3, SameHolding DEF HeldInMode
    <3>1. CASE h \in held
      BY <3>1 DEF PodInv, HeldInMode
    <3>2. CASE h = new
      BY <1>1, <2>2, <2>4, <3>2, NewInMode DEF PodInv
    <3>3. QED
      BY <2>1, <3>1, <3>2
  <2>7. HeldInFirst'
    <3> SUFFICES ASSUME restarts = 0
                 PROVE  /\ \A h \in held' : \E q \in plugins :
                              q.name = h.name /\ h.ids \subseteq q.keys
                        /\ \A i \in Positions : \A h \in held' :
                              h.nodes \cap Own(bus[i]) # {} => Meets(h, i)
      <4>1. \A h, i : Meets(h, i)' <=> Meets(h, i)
        BY <2>3 DEF Meets
      <4>2. \A i : Own(bus[i])' = Own(bus[i])
        BY <2>3 DEF Own, Group, Fd
      <4>3. QED
        BY <1>1, <2>3, <4>1, <4>2 DEF HeldInFirst, Holders
    <3>1. ASSUME NEW h \in held'
          PROVE  \E q \in plugins : q.name = h.name /\ h.ids \subseteq q.keys
      BY <2>1, <2>2, <3>1 DEF PodInv, HeldInFirst
    <3>2. ASSUME NEW i \in Positions, NEW h \in held', h.nodes \cap Own(bus[i]) # {}
          PROVE  Meets(h, i)
      <4>1. CASE h \in held
        BY <3>2, <4>1 DEF PodInv, HeldInFirst, Holders
      <4>2. CASE h = new
        <5>1. PICK n \in new.nodes : n \in Own(bus[i])
          BY <3>2, <4>2
        <5>2. PICK k \in ids : n \in NodesFor(k)
          BY <2>4, <5>1
        <5>3. QED
          BY <1>1, <2>2, <2>4, <4>2, <5>1, <5>2, NewMeets DEF PodInv, Meets
      <4>3. QED
        BY <2>1, <3>2, <4>1, <4>2
    <3>3. QED
      BY <3>1, <3>2
  <2>8. QED
    BY <1>1, <1>2, <2>5, <2>6, <2>7
<1>5. QED
  BY <1>3, <1>4

\* Another process: the devices that containers hold are as they were, and so is what their
\* IDs mean; a group that is held still has the same first device.
LEMMA RestartStep ==
    ASSUME PodInv, Restart
    PROVE  Blank' /\ Taken' /\ HeldInFirst' /\ HeldInMode' /\ restarts' = restarts + 1
<1>1. /\ UNCHANGED <<alias, iommufd, loads, faults, specs, held>> /\ restarts' = restarts + 1
      /\ \A i \in Positions : bus'[i].model = bus[i].model /\ bus'[i].group = bus[i].group
      /\ \A i \in Positions : Holders(bus[i]) # {} => bus'[i] = bus[i]
      /\ Positions' = Positions
  BY DEF Restart, Positions
<1>2. Blank'
  BY DEF Restart, Blank, PodInv, Core, Types, TypeOK, NoKeys, NoModels, NoReply
<1>3. Taken'
  BY <1>1 DEF PodInv, Taken
<1>4. HeldInFirst'
  BY <1>1 DEF PodInv, HeldInFirst
<1>5. \A h \in held : \A n \in h.nodes : \A i \in Positions : n \in Own(bus[i]) => bus'[i] = bus[i]
  BY <1>1 DEF Holders
<1>6. \A m : LastingName(m)' = LastingName(m)
  BY <1>1 DEF LastingName
<1>7. ASSUME NEW h \in held, NEW n \in h.nodes, OfFd(h, n)
      PROVE  OfFd(h, n)'
  <2>1. PICK i \in Positions :
            /\ bus[i].fd # NoFd /\ n = Fd(bus[i].fd)
            /\ bus[i].fd \in h.ids /\ h.name = LastingName(bus[i].model)
    BY <1>7 DEF OfFd
  <2>2. bus'[i] = bus[i]
    BY <1>5, <2>1 DEF Own
  <2>3. QED
    BY <1>1, <1>6, <2>1, <2>2 DEF OfFd, Fd
<1>8. ASSUME NEW h \in held, NEW n \in h.nodes, OfGroup(h, n), n # Control
      PROVE  OfGroup(h, n)'
  <2>1. PICK k \in h.ids, f \in Positions :
            n = Group(k) /\ LeadsGroup(f, k) /\ h.name = LastingName(bus[f].model)
    BY <1>8 DEF OfGroup
  <2>2. \A i \in Positions : bus[i].group = k => bus'[i] = bus[i]
    BY <1>5, <2>1 DEF Own
  <2>3. \A i \in Positions : bus'[i].group = k => bus'[i] = bus[i]
    BY <1>1, <2>2
  <2>4. LeadsGroup(f, k)'
    BY <1>1, <2>1, <2>2, <2>3 DEF LeadsGroup, Qualifies
  <2>5. bus'[f] = bus[f]
    BY <2>1, <2>2 DEF LeadsGroup
  <2>6. QED
    BY <1>1, <1>6, <2>1, <2>4, <2>5 DEF OfGroup, Group
<1>9. HeldInMode'
  <2>1. \A h, n : n = Control => OfGroup(h, n)'
    BY DEF OfGroup, Control
  <2>2. QED
    BY <1>1, <1>7, <1>8, <2>1 DEF PodInv, HeldInMode
<1>10. QED
  BY <1>1, <1>2, <1>3, <1>4, <1>9

-----------------------------------------------------------------------------
(* The invariant.                                                          *)

\* A process that starts has found nothing yet, whatever it is going to find.
LEMMA BlankStarts == Blank => Core /\ Named /\ Written /\ Ranked
<1> SUFFICES ASSUME Blank PROVE Named /\ Written /\ Ranked
  BY BlankIsCore
<1>1. \A m \in Models : deviceMap[m] = <<>> /\ Range(deviceMap[m]) = {}
  BY DEF Blank, NoModels, Range
<1>2. QED
  BY <1>1 DEF Blank, Named, ModelsFound, Written, Discovered, Ranked

\* A node without pods and without files.
LEMMA PodInvInit == PodInit => PodInv
<1> SUFFICES ASSUME PodInit PROVE PodInv
  OBVIOUS
<1>1. Blank /\ held = {} /\ restarts = 0
  BY InitIsBlank DEF PodInit
<1>2. Taken /\ HeldInFirst /\ HeldInMode
  BY <1>1 DEF Taken, HeldInFirst, HeldInMode, Holders
<1>3. QED
  BY <1>1, <1>2, BlankStarts DEF PodInv

\* A step of the process that runs.
LEMMA ProcessStep ==
    ASSUME PodInv, [AnyStep]_vars
    PROVE  Core' /\ Named' /\ Written' /\ Ranked'
<1>1. Core'
  BY CoreNext DEF PodInv
<1>2. QED
  BY <1>1, NamedNext, WrittenNext, RankedNext DEF PodInv

\* Each step of the process, of a pod or of the node keeps the invariant.
LEMMA PodInvNext == PodInv /\ [PodNext]_podVars => PodInv'
<1> SUFFICES ASSUME PodInv, [PodNext]_podVars PROVE PodInv'
  OBVIOUS
<1>1. CASE (InitiateDevicePlugin \/ LoadIommufd \/ Fault) /\ UNCHANGED <<held, restarts>>
  <2>1. [AnyStep]_vars
    BY <1>1 DEF AnyStep
  <2>2. QED
    BY <1>1, <2>1, ProcessStep, HeldNext DEF PodInv
<1>2. CASE \E p \in plugins : \E ids \in SUBSET p.keys \ {{}} : PodStart(p, ids)
  <2>1. [AnyStep]_vars /\ Taken' /\ HeldInFirst' /\ HeldInMode' /\ restarts' = restarts
    BY <1>2, PodStartStep
  <2>2. QED
    BY <2>1, ProcessStep DEF PodInv
<1>3. CASE \E h \in held : PodEnd(h)
  <2>1. UNCHANGED vars /\ held' \subseteq held /\ restarts' = restarts
    BY <1>3 DEF PodEnd
  <2>2. QED
    BY <2>1, ProcessStep, HeldNext DEF PodInv
<1>4. CASE Restart
  <2>1. Blank' /\ Taken' /\ HeldInFirst' /\ HeldInMode' /\ restarts' = restarts + 1
    BY <1>4, RestartStep
  <2>2. Blank' => Core' /\ Named' /\ Written' /\ Ranked'
    BY BlankStarts, PTL
  <2>3. QED
    BY <2>1, <2>2 DEF PodInv
<1>5. CASE UNCHANGED podVars
  <2>1. UNCHANGED vars /\ held' \subseteq held /\ restarts' = restarts
    BY <1>5 DEF podVars
  <2>2. QED
    BY <2>1, ProcessStep, HeldNext DEF PodInv
<1>6. QED
  BY <1>1, <1>2, <1>3, <1>4, <1>5 DEF PodNext

\* What containers hold, and what the plugin offers, fit throughout the life of a node: while
\* processes end and start, pods come and go and unheld devices change drivers and fds.
THEOREM PodInvariance == PodSpec => []PodInv
BY PodInvInit, PodInvNext, PTL DEF PodSpec

-----------------------------------------------------------------------------
(* What follows.                                                           *)

\* Two containers with a node of one device have a common ID of one resource, which the
\* kubelet never gives twice: in the first process because the device is under one key of
\* one plugin, and later because the same numbers mean the same devices.
THEOREM OneContainer == PodSpec => []NoDeviceTwice
<1>1. PodInv => NoDeviceTwice
  <2> SUFFICES ASSUME PodInv, loads = 0 \/ restarts = 0, NEW i \in Positions,
                      NEW g \in Holders(bus[i]), NEW h \in Holders(bus[i])
               PROVE  g.name = h.name /\ g.ids \cap h.ids # {}
    BY DEF NoDeviceTwice, PodInv, Taken, Holders, Positions
  <2>1. CASE restarts = 0
    <3>1. Meets(g, i) /\ Meets(h, i)
      BY <2>1 DEF PodInv, HeldInFirst
    <3>2. PICK p \in plugins, q \in plugins :
              /\ p.name = g.name /\ g.ids \subseteq p.keys
              /\ q.name = h.name /\ h.ids \subseteq q.keys
      BY <2>1 DEF PodInv, HeldInFirst, Holders
    <3>3. p.keys \subseteq Keys /\ q.keys \subseteq Keys
      BY DEF PodInv, Core, Created
    <3>4. PICK k \in g.ids : k \in h.ids
      BY <3>1, <3>2, <3>3 DEF Meets, PodInv, Core, Placed
    <3>5. phase = "serve"
      BY <2>1 DEF PodInv, HeldInFirst, Holders
    <3>6. /\ p.name = DeviceName(p.model) /\ k \in Range(deviceMap[p.model]) /\ p.model \in Models
          /\ q.name = DeviceName(q.model) /\ k \in Range(deviceMap[q.model]) /\ q.model \in Models
      BY <3>2, <3>4, <3>5 DEF PodInv, Named, ModelsFound
    <3>7. p.model = q.model
      BY <3>6 DEF PodInv, Core, Advertised, Range
    <3>8. QED
      BY <3>2, <3>4, <3>6, <3>7
  <2>2. CASE loads = 0 /\ iommufd
    <3>1. PICK n \in g.nodes : n \in Own(bus[i]) /\ OfFd(g, n)
      BY <2>2 DEF PodInv, HeldInMode, Holders
    <3>2. PICK o \in h.nodes : o \in Own(bus[i]) /\ OfFd(h, o)
      BY <2>2 DEF PodInv, HeldInMode, Holders
    <3>3. ASSUME NEW c, NEW x \in Own(bus[i]), OfFd(c, x)
          PROVE  bus[i].fd \in c.ids /\ c.name = LastingName(bus[i].model)
      <4>1. PICK j \in Positions :
                /\ bus[j].fd # NoFd /\ x = Fd(bus[j].fd)
                /\ bus[j].fd \in c.ids /\ c.name = LastingName(bus[j].model)
        BY <3>3 DEF OfFd
      <4>2. bus[j].fd = bus[i].fd
        BY <3>3, <4>1, NodeTags DEF Own
      <4>3. QED
        BY <4>1, <4>2, FdIsOwn DEF PodInv
    <3>4. QED
      BY <3>1, <3>2, <3>3
  <2>3. CASE loads = 0 /\ ~iommufd
    <3>1. PICK n \in g.nodes : n \in Own(bus[i]) /\ OfGroup(g, n)
      BY <2>3 DEF PodInv, HeldInMode, Holders
    <3>2. PICK o \in h.nodes : o \in Own(bus[i]) /\ OfGroup(h, o)
      BY <2>3 DEF PodInv, HeldInMode, Holders
    <3>3. ASSUME NEW c, NEW x \in Own(bus[i]), OfGroup(c, x)
          PROVE  /\ bus[i].group \in c.ids
                 /\ \E f \in Positions :
                       LeadsGroup(f, bus[i].group) /\ c.name = LastingName(bus[f].model)
      BY <3>3, NodeTags DEF OfGroup, Own
    <3>4. PICK f \in Positions, e \in Positions :
              /\ LeadsGroup(f, bus[i].group) /\ g.name = LastingName(bus[f].model)
              /\ LeadsGroup(e, bus[i].group) /\ h.name = LastingName(bus[e].model)
      BY <3>1, <3>2, <3>3
    <3>5. f = e
      BY <3>4 DEF LeadsGroup, Positions
    <3>6. QED
      BY <3>1, <3>2, <3>3, <3>4, <3>5
  <2>4. QED
    BY <2>1, <2>2, <2>3
<1>2. QED
  BY <1>1, PodInvariance, PTL

\* GenerateCDISpec replaces the file of every class it serves, as a whole: what an earlier
\* process left there is gone.
THEOREM FreshSpecs == PodSpec => []SpecsAreFresh
<1>1. PodInv => SpecsAreFresh
  <2> SUFFICES ASSUME PodInv, phase = "serve", faults = 0, PlainHost, NEW p \in plugins,
                      NEW s \in specs, s.class = p.name
               PROVE  /\ {d.name : d \in s.devices} =
                            UNION {q.keys : q \in {q \in plugins : q.name = p.name}}
                      /\ \A d \in s.devices : d.nodes \subseteq NodesOf(d.name)
    BY DEF SpecsAreFresh, NodesOf
  <2>1. UpToDate(p.name)
    BY ServedIsWritten DEF PodInv
  <2>2. ASSUME NEW k PROVE k \in KeysNamed(p.name) <=>
                               \E q \in plugins : q.name = p.name /\ k \in q.keys
    BY DEF PodInv, Named, KeysNamed
  <2>3. KeysNamed(p.name) = UNION {q.keys : q \in {q \in plugins : q.name = p.name}}
    BY <2>2
  <2>4. QED
    BY <2>1, <2>3 DEF UpToDate
<1>2. QED
  BY <1>1, PodInvariance, PTL

\* Every process of the plugin, the first one or a later one that finds the files of others,
\* partitions the devices, gives containers the nodes of theirs, has a spec for each key it
\* advertises and a plugin for the resource that gfd.go asks for.
THEOREM EveryProcess ==
    PodSpec => [](/\ TypeOK /\ KeysArePartitioned /\ NodesAreTheDevices
                  /\ GfdAsksForAGpu /\ PlainHostHasSpecs)
<1>1. Core => TypeOK /\ NodesAreTheDevices
  BY DEF Core, Types, Answers, NodesAreTheDevices
<1>2. PodInv => /\ TypeOK /\ KeysArePartitioned /\ NodesAreTheDevices
                /\ GfdAsksForAGpu /\ PlainHostHasSpecs
  BY <1>1, CorePartition, NamedGpu, ServedHasSpecs DEF PodInv
<1>3. QED
  BY <1>2, PodInvariance, PTL
=============================================================================
