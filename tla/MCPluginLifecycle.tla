------------------------- MODULE MCPluginLifecycle -------------------------
(* Model-checking instances of PluginLifecycle.                            *)
EXTENDS PluginLifecycle, TLC

\* The objects differ only in their identity.
Symmetry == Permutations(Plugin)
=============================================================================
