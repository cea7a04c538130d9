----------------------------- MODULE WindowsTask -----------------------------
(***************************************************************************)
(* A run on Windows: TaskRun with the backend of src/src/os/windows.rs.    *)
(* The group of ProcessTree is the Job Object: "running" is running in the *)
(* job, "escaped" running outside it, "dying" terminated and still         *)
(* counted, "zombie" exited.  The child runs outside the job from its      *)
(* creation until it is assigned; what it starts in between stays outside. *)
(* Membership is inherited and cannot be left.                             *)
(***************************************************************************)
EXTENDS TaskRun

CONSTANT ApisMayFail  \* assignment, queries and waits may fail

ASSUME WindowsAssumption ==
    /\ ApisMayFail \in BOOLEAN
    /\ CanEscape = {} /\ CanSetuid = {} /\ HostReaps = FALSE

(* Faulty variants, as in TaskRun. *)

\* The job is left to its handle's Drop, which the clones delay.
TerminateInWait_Omitted ==
    /\ At(Waiter, "killpg") /\ Goto(Waiter, "join")
    /\ UNCHANGED <<treeVars, cfg, runVars, handleVars, timed_out, wait_res, drainVars>>

\* kill_escalating has no effect.
TerminateJob_Omitted(a) ==
    /\ At(a, "escalate")
    /\ KillReturns(a)
    /\ UNCHANGED <<treeVars, cfg, runVars, cancelled, kill_fired, kill, timed_out, wait_res,
                   drainVars>>

\* The child that could not be assigned is not waited for.
SpawnGivesUp_WithoutWait ==
    /\ At(Main, "unassigned")
    /\ ret' = "SpawnFailed" /\ Goto(Main, "returned")
    /\ UNCHANGED <<treeVars, cfg, machine, events, guard, stopped, handleVars, timed_out,
                   wait_res, drainVars>>

\* The child that could not be assigned is waited for and not killed.
AssignFails_WithoutKill ==
    /\ At(Main, "assign") /\ ApisMayFail
    /\ Goto(Main, "unassigned")
    /\ UNCHANGED <<treeVars, cfg, runVars, handleVars, timed_out, wait_res, drainVars>>

-----------------------------------------------------------------------------
\* CreateJobObjectW, SetInformationJobObject and Command::spawn succeed.
SpawnChild ==
    /\ At(Main, "idle")
    /\ proc' = [proc EXCEPT ![Root] = "escaped"]
    /\ holds' = [s \in Streams |-> {Root}]
    /\ Goto(Main, "assign")
    /\ UNCHANGED <<termed, suid, status, pipe, cfg, runVars, handleVars, timed_out, wait_res, drainVars>>

\* AssignProcessToJobObject succeeds; the guard is armed.
AssignJob ==
    /\ At(Main, "assign")
    /\ proc' = [proc EXCEPT ![Root] = IF @ = "escaped" THEN "running" ELSE @]
    /\ guard' = TRUE
    /\ Goto(Main, "started")
    /\ UNCHANGED <<termed, suid, status, holds, pipe, cfg, ret, machine, events, stopped, handleVars,
                   timed_out, wait_res, drainVars>>

\* It fails: child.kill()
AssignFails ==
    /\ At(Main, "assign") /\ ApisMayFail
    /\ proc' = [proc EXCEPT ![Root] = IF @ = "escaped" THEN "dying" ELSE @]
    /\ Goto(Main, "unassigned")
    /\ UNCHANGED <<termed, suid, status, holds, pipe, cfg, runVars, handleVars, timed_out, wait_res,
                   drainVars>>

\* then child.wait() and SpawnFailed.
SpawnGivesUp ==
    /\ At(Main, "unassigned") /\ WaitpidReady
    /\ ret' = "SpawnFailed" /\ Goto(Main, "returned")
    /\ UNCHANGED <<treeVars, cfg, machine, events, guard, stopped, handleVars, timed_out,
                   wait_res, drainVars>>

\* tree_alive(): ActiveProcesses > 0, or the query failed.
JobActive == \E p \in Procs : proc[p] \in {"running", "dying"}
Probe(a) == \E failed \in {FALSE, ApisMayFail} : ProbeTree(a, failed \/ JobActive)

\* kill_escalating(): TerminateJobObject, no grace.
TerminateJob(a) ==
    /\ At(a, "escalate")
    /\ SigKill
    /\ KillReturns(a)
    /\ UNCHANGED <<cfg, runVars, cancelled, kill_fired, kill, timed_out, wait_res, drainVars>>

\* child.wait()?: an error skips the rest of wait(), the joins included.
ChildWait ==
    /\ At(Waiter, "waitpid")
    /\ \/ WaitpidReady /\ wait_res' = "ok" /\ Goto(Waiter, "killpg")
       \/ ApisMayFail /\ wait_res' = "err" /\ Goto(Waiter, "done")
    /\ UNCHANGED <<treeVars, cfg, runVars, handleVars, timed_out, drainVars>>

\* TerminateJobObject in wait(), whoever else still holds the job.
TerminateInWait ==
    /\ At(Waiter, "killpg")
    /\ SigKill
    /\ Goto(Waiter, "join")
    /\ UNCHANGED <<cfg, runVars, handleVars, timed_out, wait_res, drainVars>>

\* reap_abandoned(): nothing to do.
ReapAbandoned ==
    /\ At(Main, "reap")
    /\ Goto(Main, "returned")
    /\ UNCHANGED <<treeVars, cfg, runVars, handleVars, timed_out, wait_res, drainVars>>

-----------------------------------------------------------------------------

MainStep == AssignJob \/ AssignFails \/ SpawnGivesUp \/ RunStep \/ ReapAbandoned
KillerStep(a) == Probe(a) \/ Fire(a) \/ TerminateJob(a)
WaiterStep == StartDrains \/ ChildWait \/ TerminateInWait \/ JoinDrains

Next ==
    \/ SpawnChild \/ SpawnFails \/ MainStep \/ MonitorStep \/ WaiterStep
    \/ \E a \in Killers : KillerStep(a)
    \/ \E c \in Cancellers : CancelStep(c)
    \/ \E s \in Streams : DrainStep(s)
    \/ TreeMoves
    \/ Done

Spec == Init /\ [][Next]_vars

\* As on Unix: threads that can move do, time passes, the kernel finishes a
\* termination; child.wait() need not fail while the child runs.  The child's
\* programs promise nothing.
Fairness ==
    /\ WF_vars(MainStep) /\ WF_vars(MonitorStep)
    /\ WF_vars(WaiterStep /\ (At(Waiter, "waitpid") => WaitpidReady))
    /\ \A a \in Killers : WF_vars(KillerStep(a))
    /\ \A c \in Cancellers : WF_vars(TakeKill(c))
    /\ \A s \in Streams : WF_vars(Read(s) \/ DrainEnds(s))
    /\ TreeFairness

FairSpec == Spec /\ Fairness

-----------------------------------------------------------------------------

\* NaturalExit is reported only when the root ended by itself, so the code in
\* Exited is the program's own: TerminateJobObject is called, for a cancel
\* or a timeout, only with the flag raised.
NaturalMeansOwnCode == Reported("NaturalExit") => status # Killed

\* A spawn that could not put the child in the job leaves no root running.
FailedSpawnLeavesNoRoot ==
    At(Main, "returned") /\ ret = "SpawnFailed" => proc[Root] \in {"none", "zombie", "gone"}

\* A spawn that could not put the child in the job comes back although the
\* program would never exit: the child is killed before it is waited for.
FailedSpawnReturns == At(Main, "unassigned") ~> At(Main, "returned")

\* spec, section 6: on Windows "a descendant cannot leave the job" and the
\* kill reaches "every member regardless of how it was created", hence no
\* descendant survives run().  One that the root starts before it is
\* assigned was never a member.
NoDescendantSurvives == At(Main, "returned") => \A p \in Procs : ~Alive(p)
=============================================================================
