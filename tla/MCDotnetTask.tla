---------------------------- MODULE MCDotnetTask ----------------------------
(***************************************************************************)
(* Instances of DotnetTask for TLC.                                        *)
(***************************************************************************)
EXTENDS DotnetTask

CONSTANTS k1
OwnNames == [k \in Keys |-> k]
=============================================================================
