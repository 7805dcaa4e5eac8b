--------------------------- MODULE MCPluginDevices ---------------------------
(* Two devices that may have the same InternalID, one of them with a value. *)
EXTENDS PluginDevices

MCDevice == {1, 2}
MCValue == {3}
MCOwner == (3 :> 1)
MCFirstID == (1 :> "a" @@ 2 :> "b" @@ 3 :> "a")
MCInternalID == {"a", "b"}
=============================================================================
