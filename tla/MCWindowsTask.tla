---------------------------- MODULE MCWindowsTask ----------------------------
(***************************************************************************)
(* Instances of WindowsTask for TLC.                                       *)
(***************************************************************************)
EXTENDS WindowsTask

\* Task configurations the runs choose from.
FreshHandle == {c \in Config : ~c.spent}
NoCapture == {c \in Config : ~c.capture /\ ~c.spent}
=============================================================================
