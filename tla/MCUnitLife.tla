----------------------------- MODULE MCUnitLife -----------------------------
(* Values of UnitLife's constants for TLC.                                 *)
EXTENDS UnitLife

CONSTANTS u1, u2

MCUnits == {u1, u2}
MCKnown == {u1}
MCPids == {1, 2}
MCAutostart == { <<>>, <<u2, u1>> }
MCBodies == {1, 2}
=============================================================================
