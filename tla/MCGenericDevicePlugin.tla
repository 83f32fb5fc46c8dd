----------------------- MODULE MCGenericDevicePlugin -----------------------
(***************************************************************************)
(* GenericDevicePlugin and its refinement for TLC; the constants and the   *)
(* bounds are in the configurations.                                       *)
(***************************************************************************)
EXTENDS DevicePluginRefinement
============================================================================
