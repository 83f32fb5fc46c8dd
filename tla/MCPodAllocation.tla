-------------------------- MODULE MCPodAllocation --------------------------
(***************************************************************************)
(* PodAllocation for TLC: two devices, of one type, of two, or a GPU and   *)
(* an NVSwitch, in groups of their own or in one, whose drivers and fds    *)
(* may change, or that have no fd.                                         *)
(***************************************************************************)
EXTENDS PodAllocation

PodModels == {"2330", "2331", "22a3"}
PodKindOf == [m \in PodModels |-> IF m = "22a3" THEN "NVSwitch" ELSE "GPU"]
PodNameOf == [m \in PodModels |-> m]
PodClasses == PodModels \cup {"pgpu", "nvswitch"}
PodEnvironments == {[gpu |-> "unset", switch |-> "unset"], [gpu |-> "", switch |-> ""]}

\* The numbers of fds cross those of groups.
PodHosts ==
    {s \in [1..2 -> [model : PodModels, driver : {"vfio-pci", "nvidia"}, group : {1, 2},
                     fd : 0..2]] :
        /\ <<s[1].model, s[2].model>> \in {<<"2330", "2330">>, <<"2330", "2331">>, <<"2330", "22a3">>}
        /\ s[1].group = 1 /\ (s[1].fd # s[2].fd \/ s[1].fd = 0)}
============================================================================
