------------------------- MODULE MCUpdatePublisher --------------------------
(* The rows for which TLC checks UpdatePublisher.                           *)
EXTENDS UpdatePublisher

\* A Device of an interface that stays, and a Value of it.
Chain == [r \in {"Device", "Value"} |->
             IF r = "Device" THEN NoRow ELSE "Device"]
Rows == DOMAIN Chain

\* Element.ValueID.
PinnedRows == {"Value"}
=============================================================================
