------------------------------ MODULE UnixTask ------------------------------
(***************************************************************************)
(* A run on Unix: TaskRun with the backend of src/src/os/unix.rs, against  *)
(* the process group of ProcessTree.                                       *)
(***************************************************************************)
EXTENDS TaskRun

(* Faulty variants, as in TaskRun. *)

\* The abandoned child is dropped without being waited for.
ReapAbandoned_Omitted ==
    /\ At(Main, "reap") /\ Goto(Main, "returned")
    /\ UNCHANGED <<treeVars, cfg, runVars, handleVars, timed_out, wait_res, drainVars>>

\* No SIGTERM: straight to SIGKILL.
SigtermGroup_Omitted(a) ==
    /\ At(a, "escalate") /\ Goto(a, "sigkill")
    /\ UNCHANGED <<treeVars, cfg, runVars, handleVars, timed_out, wait_res, drainVars>>

\* The escalation ends with the grace period.
SigkillGroup_Omitted(a) ==
    /\ At(a, "sigkill")
    /\ pc' = [pc EXCEPT ![a] = IF a = Main THEN IF ret = "none" THEN "monitor" ELSE "reap"
                               ELSE "done"]
    /\ lock' = lock \ {a}
    /\ UNCHANGED <<treeVars, cfg, runVars, cancelled, kill_fired, kill, timed_out, wait_res,
                   drainVars>>

\* wait() leaves the rest of the group alone.
KillGroup_Omitted ==
    /\ At(Waiter, "killpg") /\ Goto(Waiter, "join")
    /\ UNCHANGED <<treeVars, cfg, runVars, handleVars, timed_out, wait_res, drainVars>>

-----------------------------------------------------------------------------
\* Command::spawn with setsid() before exec; the guard is armed.
Spawn ==
    /\ At(Main, "idle")
    /\ CreateRoot
    /\ guard' = TRUE
    /\ Goto(Main, "started")
    /\ UNCHANGED <<cfg, ret, machine, events, stopped, handleVars, timed_out, wait_res, drainVars>>

\* tree_alive(): signal 0 to the group succeeds or fails with EPERM as long
\* as the group has a member, an unreaped zombie included.
TreeAlive == ~ESRCH

Probe(a) == ProbeTree(a, TreeAlive)

\* killpg(SIGTERM); an error other than ESRCH ends the escalation with
\* KillFailed, which every caller discards.
SigtermGroup(a) ==
    /\ At(a, "escalate")
    /\ SigTerm
    /\ IF EPERM THEN KillReturns(a) ELSE Goto(a, "poll") /\ UNCHANGED lock
    /\ UNCHANGED <<cfg, runVars, cancelled, kill_fired, kill, timed_out, wait_res, drainVars>>

\* One turn of the grace loop that ends it: the group is empty, or it is not
\* and the deadline has passed.
Poll(a) ==
    /\ At(a, "poll")
    /\ IF TreeAlive THEN Goto(a, "sigkill") /\ UNCHANGED lock ELSE KillReturns(a)
    /\ UNCHANGED <<treeVars, cfg, runVars, cancelled, kill_fired, kill, timed_out, wait_res,
                   drainVars>>

\* killpg(SIGKILL), whatever it returns.
SigkillGroup(a) ==
    /\ At(a, "sigkill")
    /\ SigKill
    /\ KillReturns(a)
    /\ UNCHANGED <<cfg, runVars, cancelled, kill_fired, kill, timed_out, wait_res, drainVars>>

\* Between the start and the end of wait().
ChildWait ==
    /\ At(Waiter, "waitpid")
    /\ wait_res' = IF proc[Root] = "zombie" THEN "ok" ELSE "err"
    /\ Waitpid
    /\ Goto(Waiter, "killpg")
    /\ UNCHANGED <<cfg, runVars, handleVars, timed_out, drainVars>>

\* Whatever is left of the group is killed, wait error or not.
KillGroup ==
    /\ At(Waiter, "killpg")
    /\ SigKill
    /\ Goto(Waiter, "join")
    /\ UNCHANGED <<cfg, runVars, handleVars, timed_out, wait_res, drainVars>>

\* reap_abandoned(): a blocking waitpid; ECHILD is ignored.
ReapAbandoned ==
    /\ At(Main, "reap")
    /\ Waitpid
    /\ Goto(Main, "returned")
    /\ UNCHANGED <<cfg, runVars, handleVars, timed_out, wait_res, drainVars>>

\* SIGPIPE for a process that writes to a pipe without a reader.
WriterDies(p, s) ==
    /\ ReaderGone(s) /\ BrokenPipe(p, s)
    /\ UNCHANGED <<cfg, pc, runVars, handleVars, timed_out, wait_res, drainVars>>

-----------------------------------------------------------------------------

MainStep == RunStep \/ ReapAbandoned
KillerStep(a) == Probe(a) \/ Fire(a) \/ SigtermGroup(a) \/ Poll(a) \/ SigkillGroup(a)
WaiterStep == StartDrains \/ ChildWait \/ KillGroup \/ JoinDrains

Next ==
    \/ Spawn \/ SpawnFails \/ MainStep \/ MonitorStep \/ WaiterStep
    \/ \E a \in Killers : KillerStep(a)
    \/ \E c \in Cancellers : CancelStep(c)
    \/ \E s \in Streams : DrainStep(s)
    \/ TreeMoves
    \/ \E p \in Procs, s \in Streams : WriterDies(p, s)
    \/ Done

Spec == Init /\ [][Next]_vars

\* Every thread that can take a step does; time passes, so the deadlines of
\* the monitor and of the grace loop come.  Nothing makes the caller spawn or
\* cancel, nothing makes a read fail, and nothing makes the child's programs
\* exit, write or fork.
Fairness ==
    /\ WF_vars(MainStep) /\ WF_vars(MonitorStep) /\ WF_vars(WaiterStep)
    /\ \A a \in Killers : WF_vars(KillerStep(a))
    /\ \A c \in Cancellers : WF_vars(TakeKill(c))
    /\ \A s \in Streams : WF_vars(Read(s) \/ DrainEnds(s))
    /\ TreeFairness

FairSpec == Spec /\ Fairness

\* The root gets SIGTERM before SIGKILL, whoever escalates and however the
\* escalations of the monitor, a canceller, the wiring block and the guard
\* overlap with wait()'s own killpg.
RootTermedFirst ==
    [][proc[Root] = "running" /\ proc'[Root] = "dying" => Root \in termed]_vars
=============================================================================
