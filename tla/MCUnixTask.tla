----------------------------- MODULE MCUnixTask -----------------------------
(***************************************************************************)
(* Instances of UnixTask for TLC.                                          *)
(***************************************************************************)
EXTENDS UnixTaskClaims, TLC

\* Task configurations the runs choose from.
SafetyConfigs == {c \in Config : /\ ~(c.timeout /\ c.capture /\ c.cancel)
                                /\ c.spent => c.timeout /\ ~c.capture}
CaptureOnly == {c \in Config : c.capture /\ ~c.timeout /\ ~c.cancel}
CancelOnly == {c \in Config : c.cancel /\ ~c.capture /\ ~c.timeout /\ ~c.spent}
OneKiller == {c \in Config : ~c.spent /\ ~(c.timeout /\ c.cancel)}

\* Calls of cancel() are interchangeable.
Symmetry == Permutations(Cancellers)
=============================================================================
