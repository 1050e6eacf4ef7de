--------------------------- MODULE MCInstallation ---------------------------
(* Values of Installation's constants for TLC.                             *)
EXTENDS Installation

CONSTANTS u1, u2, d1, d2, f1, f2

MCUnits == {u1, u2}
MCDirs == {d1, d2}
MCFiles == {f1, f2}
MCBodies == 0 .. 2

V(major, minor, patch, build) ==
    [core |-> <<major, minor, patch>>, pre |-> FALSE, build |-> build]
Listed(numbers, pre, builds) == [numbers |-> numbers, pre |-> pre, builds |-> builds]

\* u1 has the first build of 1.16.5; or its unit file, written by hand, no build.
Unit1(version) == u1 :> [path |-> d1, version |-> version, unit_file |-> f1]
MCInventories == {Unit1(V(1, 16, 5, 1)), Unit1(V(1, 16, 5, None))}

\* The newest release has a patch number, or has none, or is a pre-release, after
\* one that may be asked for.
Patched == {Listed(<<1, 16, 5>>, FALSE, {1, 2}), Listed(<<1, 15>>, FALSE, {3})}
Rounded == {Listed(<<1, 16, 5>>, FALSE, {1, 2}), Listed(<<1, 17>>, FALSE, {1})}
Announced == {Listed(<<1, 16, 5>>, FALSE, {1, 2}), Listed(<<1, 16, 5>>, TRUE, {1}),
              Listed(<<1, 17>>, TRUE, {})}
MCRepositories == {Patched, Rounded, Announced}

\* New and known names, a directory and a unit file of another unit, no unit
\* file, an unsupported type; updates to the newest, to a version, to a
\* pre-release, to a build.
MCRequests ==
    {InstallCmd(u2, d2, f2, None, "paper", TRUE),
     InstallCmd(u2, d2, f1, V(1, 16, 5, None), "paper", FALSE),
     InstallCmd(u2, d1, f2, None, "paper", FALSE),
     InstallCmd(u2, d2, None, None, "paper", FALSE),
     InstallCmd(u1, d2, f2, None, "other", FALSE),
     UpdateCmd(u1, None), UpdateCmd(u1, V(1, 16, 5, None)), UpdateCmd(u1, V(1, 15, 0, 3)),
     UpdateCmd(u1, [V(1, 16, 5, None) EXCEPT !.pre = TRUE])}

\* A build, asked for as the client's help says.
BuildRequests == {UpdateCmd(u1, V(1, 16, 5, 2)), UpdateCmd(u1, None)}

\* Two installations of one name, into one place or into two, on an empty machine.
NoInventory == {<<>>}
OnlyPatched == {Patched}
SameName == {InstallCmd(u2, d1, f1, None, "paper", FALSE),
             InstallCmd(u2, d2, f2, None, "paper", FALSE)}
=============================================================================
