-------------------------- MODULE MCWebConnection ---------------------------
(* The clients for which TLC checks WebConnection.                         *)
EXTENDS WebConnection

\* Requests, whole or in two parts, bad ones, and a websocket that subscribes.
Http == {<<"request", "part", "rest", "request">>, <<"request", "last">>,
         <<"request", "bad">>}
Subscribing == {<<"upgrade", "text", "ping">>, <<"upgrade", "text", "close", "text">>,
                <<"upgrade", "fragment", "continuation", "close">>}
Browser == Http \union Subscribing

=============================================================================
