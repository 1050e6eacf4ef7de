------------------------------ MODULE MCMcman -------------------------------
(* Values of Mcman's constants for TLC.                                    *)
EXTENDS Mcman, TLC

CONSTANTS u1, u2, d1, d2, f1, f2

MCUnits == {u1, u2}
MCKnown == {u1}
MCPids == {1}
MCClients == {0, 1}
MCBodies == 0 .. 2
MCDirs == {d1, d2}
MCFiles == {f1, f2}

\* u1 has the first build of 1.16.5, of which there is a second one; it is
\* started at the start or it is not.
FirstBuild == [core |-> <<1, 16, 5>>, pre |-> FALSE, build |-> 1]
MCInstalled == u1 :> [path |-> d1, version |-> FirstBuild, unit_file |-> f1]
MCReleases == {[numbers |-> <<1, 16, 5>>, pre |-> FALSE, builds |-> {1, 2}]}
MCAutostart == {<<>>, <<u1>>}

UnitCommands ==
    {StartCmd(u1, TRUE), StartCmd(u1, FALSE), StopCmd(u1, TRUE), StopCmd(u1, FALSE),
     [kind |-> "StopDaemon"], ConsoleCmd(u1, TRUE)}
Install == InstallCmd(u2, d2, f2, None, "paper", TRUE)
OtherCommands ==
    {[kind |-> "List"], MessageCmd(u2), StartCmd(u2, TRUE), Install,
     UpdateCmd(u1, None), UpdateCmd(u2, None)}
MCRequests == UnitCommands \cup OtherCommands

\* Every subcommand alone; a start beside the end of the daemon; an installation
\* beside a message to the new unit.
Called(list, first, second) ==
    [autostart : {list}, called : {[c \in MCClients |-> IF c = 0 THEN x ELSE y] :
                                       x \in first, y \in second}]
MCScenarios ==
         Called(<<>>, OtherCommands \cup {StartCmd(u1, TRUE)}, {None})
    \cup Called(<<u1>>, UnitCommands, {None})
    \cup Called(<<>>, {StartCmd(u1, FALSE)}, {[kind |-> "StopDaemon"]})
    \cup Called(<<>>, {Install}, {MessageCmd(u2)})
=============================================================================
