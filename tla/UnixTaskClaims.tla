--------------------------- MODULE UnixTaskClaims ---------------------------
(***************************************************************************)
(* What comments and documents of the repository say of the run and the    *)
(* code does not keep.  Each is refuted by a run of its own.               *)
(***************************************************************************)
EXTENDS UnixTask

\* task.rs, comment of cancel(): the probe before the kill narrows the
\* misreport of an already exited process "to the probe-then-kill gap
\* itself".  So a probe that answers "alive" saw a process that had not
\* exited.  An unreaped zombie answers it too.
ProbeSeesLiveProcess ==
    [][\A a \in Killers : At(a, "probe") /\ pc'[a] = "fire"
         => \E p \in Group : proc[p] # "zombie"]_vars

\* task.rs, comment of CancelHandle: cancel() "before the process has started
\* ... has no effect on the reported exit reason".
EarlyCancelHasNoEffect ==
    [](cancelled /\ (\A c \in Cancellers : pc[c] \in {"idle", "done"}) /\ At(Main, "idle")
         => []~Reported("CancelRequested"))
=============================================================================
