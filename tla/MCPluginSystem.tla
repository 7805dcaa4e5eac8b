--------------------------- MODULE MCPluginSystem ---------------------------
(* The interfaces for which TLC checks PluginSystem: those active at boot,  *)
(* in the order of the query.                                               *)
EXTENDS PluginSystem

CONSTANTS a, b

NoneAtBoot == << >>
OneAtBoot == <<a>>
TwoAtBoot == <<a, b>>

=============================================================================
