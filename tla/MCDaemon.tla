------------------------------ MODULE MCDaemon ------------------------------
(* Values of Daemon's constants for TLC.                                   *)
EXTENDS Daemon, TLC

CONSTANTS u1, d1, f1

OneUnit == {u1}
MCKnown == {u1}
MCPids == {1}
MCAutostart == { <<>> }
MCBodies == {0, 1}

\* The unit that is known from the start has the first build of 1.16.5.
FirstBuild == [core |-> <<1, 16, 5>>, pre |-> FALSE, build |-> 1]
MCInstalled == u1 :> [path |-> d1, version |-> FirstBuild, unit_file |-> f1]

\* One client that starts a server and ends the daemon, and asks something else.
OneClient == {0}
EndRequests == {[kind |-> "GetVersion"], [kind |-> "StopDaemon"], StartCmd(u1, TRUE)}

\* Two clients, of which the second may leave, that ask what goes on, and a
\* server that is started at the start.
TwoClients == {0, 1}
TheSecond == {1}
EventRequests == {[kind |-> "List"], SubscribeCmd("ServerStarted", <<u1>>)}
AtStart == {<<u1>>}
=============================================================================
