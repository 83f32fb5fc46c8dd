------------------------- MODULE MCPluginController -------------------------
(***************************************************************************)
(* PluginController for TLC: two plugins with a name of their own, and two *)
(* device types under one alias.                                           *)
(***************************************************************************)
EXTENDS PluginController, TLC

CONSTANTS H100, H200       \* plugins
MCPlugins == {H100, H200}

OwnPaths    == {"sandbox-H100.sock", "sandbox-H200.sock"}
OwnPathOf   == H100 :> "sandbox-H100.sock" @@ H200 :> "sandbox-H200.sock"
AliasPaths  == {"sandbox-pgpu.sock"}
AliasPathOf == [p \in MCPlugins |-> "sandbox-pgpu.sock"]
============================================================================
