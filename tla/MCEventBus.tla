----------------------------- MODULE MCEventBus -----------------------------
(* Values of EventBus's constants for TLC.                                 *)
EXTENDS EventBus

CONSTANTS c1, c2, u1

MCClients == {c1, c2}
MCUnits == {u1}
MCKeys == {<<u1, "ServerStarting">>, <<u1, "ServerStarted">>}
MCLeavers == {c1}
MCBodies == {1, 2}
=============================================================================
