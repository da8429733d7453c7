--------------------------- MODULE MCPluginSandbox ---------------------------
(* Small instances of PluginSandbox.                                       *)
EXTENDS PluginSandbox, TLC
==============================================================================
