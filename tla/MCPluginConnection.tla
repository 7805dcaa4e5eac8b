------------------------- MODULE MCPluginConnection -------------------------
(* Scenarios for TLC. *)
EXTENDS PluginConnection

\* The script connects from its heartbeat, and nothing else.
Patient ==
    [connectIn |-> {"onHeartbeat"}, disconnectIn |-> {}, releaseIn |-> {},
     waits |-> TRUE, timeout |-> FALSE, failures |-> {}, stops |-> FALSE,
     transports |-> 3, reads |-> 2]

\* It closes a connection that it was told is up, by Disconnect or by letting
\* go, or lets go of one that may be resolving yet.
Closing == [Patient EXCEPT !.disconnectIn = {"onConnect", "onMessage"}]
Letting == [Patient EXCEPT !.releaseIn = {"onConnect", "onMessage"}]
LettingEarly == [Patient EXCEPT !.releaseIn = {"onHeartbeat", "onMessage"}]
Early == [Patient EXCEPT !.disconnectIn = {"onHeartbeat"}]

\* It does not wait for the answer before it connects again.
Eager == [Patient EXCEPT !.waits = FALSE]

\* It closes at the wrong moment and connects again at once, and all may fail.
Wild ==
    [connectIn |-> {"onHeartbeat", "onDisconnect"},
     disconnectIn |-> {"onConnect"}, releaseIn |-> {},
     waits |-> FALSE, timeout |-> TRUE,
     failures |-> {"handleConnect", "resolve", "connect"}, stops |-> FALSE,
     transports |-> 1, reads |-> 1]

\* What may fail need not: the scenarios in which most may happen, as far as
\* the conditions of the properties tell them apart.
May(habits, stopped, failing, connections, messages) ==
    [habits EXCEPT !.stops = stopped, !.failures = failing,
                   !.transports = connections, !.reads = messages]

Every ==
    {May(Patient, TRUE, {}, 3, 1), May(Patient, FALSE, {"connect"}, 3, 1),
     May(Patient, TRUE, {"connect"}, 2, 1),
     May([Patient EXCEPT !.timeout = TRUE], TRUE, {}, 1, 1),
     May(Closing, TRUE, {}, 2, 0), May(Closing, FALSE, {}, 2, 1),
     May(Letting, TRUE, {}, 2, 1), May(Letting, FALSE, {}, 3, 1),
     May(LettingEarly, FALSE, {"connect"}, 1, 1),
     May(Early, FALSE, {"connect", "handleConnect"}, 2, 0),
     May(Eager, FALSE, {}, 2, 0), [Wild EXCEPT !.reads = 0],
     [Wild EXCEPT !.disconnectIn = {"onConnect", "onHeartbeat"},
                  !.timeout = FALSE]}

\* It disconnects, then lets go.
Hasty ==
    {[Patient EXCEPT !.disconnectIn = {"onMessage"}, !.releaseIn = {"onMessage"},
                     !.transports = 1, !.reads = 1]}
=============================================================================
