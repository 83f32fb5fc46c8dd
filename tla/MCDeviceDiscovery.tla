-------------------------- MODULE MCDeviceDiscovery --------------------------
(***************************************************************************)
(* DeviceDiscovery for TLC: two GPU types, an NVSwitch and a device that   *)
(* is neither, on buses of up to three devices.                            *)
(***************************************************************************)
EXTENDS DeviceDiscovery

MCModels == {"2330", "2331", "22a3", "1aef"}
MCKindOf == [m \in MCModels |-> CASE m = "22a3" -> "NVSwitch"
                                  [] m = "1aef" -> "other"
                                  [] OTHER      -> "GPU"]
\* Every type has a name of its own.
MCNameOf == [m \in MCModels |-> CASE m = "2330" -> "H100" [] m = "2331" -> "H200"
                                  [] m = "22a3" -> "SWITCH" [] m = "1aef" -> "AUDIO"]
MCClasses == {"H100", "H200", "SWITCH", "AUDIO", "pgpu", "nvswitch"}
MCKeys == 1..4
MCNoFd == 0

\* An alias may be anything, the name of another device too; a class of CDI starts with
\* a letter.
MCEnvironments == {[gpu |-> g, switch |-> s] :
                      g \in {"", "unset", "8xgpu", "SWITCH"}, s \in {"", "unset"}}
NoAlias        == {[gpu |-> "", switch |-> ""]}

\* Buses of n devices; f[i] says which fds the device at position i may have.
Buses(n, ms, ds, gs, f) ==
    {s \in [1..n -> [model : ms, driver : ds, group : gs, fd : UNION {f[i] : i \in 1..n}]] :
        \A i \in 1..n : s[i].fd \in f[i]}
Fds == <<{4}, {3}, {2}>>    \* each has its own; their numbers cross those of the groups
Vfio == {"vfio-pci"}

\* Groups that are shared or not; devices that do not qualify; devices without a
\* node of their own; no device at all.
MCHosts == Buses(3, {"2330", "2331", "22a3"}, Vfio, {1, 2}, Fds)
           \cup Buses(2, {"2330", "22a3", "1aef"}, Vfio \cup {"nvidia"}, {1}, Fds)
           \cup Buses(2, {"2330", "2331"}, Vfio, {1, 4}, <<{4}, {3, MCNoFd}>>)
           \cup {<<>>}
\* A kernel with /dev/iommu that gives devices no node under /dev/vfio/devices.
NoFds   == Buses(2, {"2330"}, Vfio, {1, 2}, <<{MCNoFd}, {MCNoFd}>>)
============================================================================
