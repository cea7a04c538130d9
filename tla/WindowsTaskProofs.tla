-------------------------- MODULE WindowsTaskProofs --------------------------
(***************************************************************************)
(* A run on Windows keeps its types and leaves no orphan in the job, loses *)
(* no cancel, gives up a spawn only with its root dead and reports as      *)
(* natural only an exit code of the program's own: for every tree, every   *)
(* number of cancellers and every configuration.  The steps that are the   *)
(* same on both platforms are in TaskRunProofs.                            *)
(***************************************************************************)
EXTENDS WindowsTask, TaskRunProofs

\* The steps of windows.rs that move the caller's or the waiting thread.
BackendStep ==
    \/ SpawnChild \/ AssignJob \/ AssignFails \/ SpawnGivesUp \/ ReapAbandoned
    \/ ChildWait \/ TerminateInWait

\* Where they lead, and what they leave alone.
LEMMA BackendMoves ==
    ASSUME TypeOK, BackendStep
    PROVE  /\ pc'[Monitor] = pc[Monitor] /\ \A c \in Cancellers : pc'[c] = pc[c]
           /\ \/ /\ pc'[Waiter] = pc[Waiter]
                 /\ \/ SpawnChild /\ At(Main, "idle") /\ pc'[Main] = "assign"
                    \/ AssignJob /\ At(Main, "assign") /\ pc'[Main] = "started"
                    \/ AssignFails /\ At(Main, "assign") /\ pc'[Main] = "unassigned"
                    \/ SpawnGivesUp /\ At(Main, "unassigned") /\ pc'[Main] = "returned"
                    \/ ReapAbandoned /\ At(Main, "reap") /\ pc'[Main] = "returned"
              \/ /\ pc'[Main] = pc[Main]
                 /\ \/ ChildWait /\ At(Waiter, "waitpid") /\ pc'[Waiter] \in {"killpg", "done"}
                    \/ TerminateInWait /\ At(Waiter, "killpg") /\ pc'[Waiter] = "join"
           /\ UNCHANGED <<termed, suid, status, pipe, cfg, machine, events, stopped, handleVars,
                          timed_out, drainVars>>
<1> USE DEF treeVars, runVars, handleVars, drainVars, At
<1>1. CASE SpawnChild
  BY <1>1, MainMoves DEF SpawnChild
<1>2. CASE AssignJob
  BY <1>2, MainMoves DEF AssignJob
<1>3. CASE AssignFails
  BY <1>3, MainMoves DEF AssignFails
<1>4. CASE SpawnGivesUp
  BY <1>4, MainMoves DEF SpawnGivesUp
<1>5. CASE ReapAbandoned
  BY <1>5, MainMoves DEF ReapAbandoned
<1>6. CASE ChildWait
  BY <1>6, GotoMoves, Distinct DEF ChildWait, TypeOK
<1>7. CASE TerminateInWait
  BY <1>7, GotoMoves, Distinct DEF TerminateInWait, SigKill, TypeOK
<1> QED
  BY <1>1, <1>2, <1>3, <1>4, <1>5, <1>6, <1>7 DEF BackendStep

\* They keep the types of the run.
LEMMA BackendTyped == TypeOK /\ BackendStep => TypeOK'
<1> SUFFICES ASSUME TypeOK, BackendStep PROVE TypeOK'
  OBVIOUS
<1> USE DEF TypeOK, treeVars, runVars, handleVars, drainVars
<1>1. ThreadTypeOK'
  <2>1. ASSUME NEW l \in {"assign", "started", "unassigned", "returned"}, Goto(Main, l)
        PROVE  ThreadTypeOK'
    BY <2>1, GotoTyped, Distinct DEF MainPCs
  <2>2. ASSUME NEW l \in {"killpg", "join", "done"}, Goto(Waiter, l) PROVE ThreadTypeOK'
    BY <2>2, GotoTyped, Distinct DEF WaiterPCs
  <2> QED
    BY <2>1, <2>2
    DEF BackendStep, SpawnChild, AssignJob, AssignFails, SpawnGivesUp, ReapAbandoned, ChildWait,
        TerminateInWait
<1>2. TreeTypeOK'
  <2>1. CASE SpawnChild
    BY <2>1 DEF SpawnChild, TreeTypeOK, Procs, ProcStates
  <2>2. CASE AssignJob
    BY <2>2 DEF AssignJob, TreeTypeOK, ProcStates
  <2>3. CASE AssignFails
    BY <2>3 DEF AssignFails, TreeTypeOK, ProcStates
  <2>4. CASE TerminateInWait
    BY <2>4, CallsTyped DEF TerminateInWait
  <2>5. CASE SpawnGivesUp \/ ReapAbandoned \/ ChildWait
    BY <2>5 DEF SpawnGivesUp, ReapAbandoned, ChildWait, TreeTypeOK
  <2> QED
    BY <2>1, <2>2, <2>3, <2>4, <2>5 DEF BackendStep
<1>3. ret' \in Results \union {"none"} /\ guard' \in BOOLEAN /\ wait_res' \in {"none", "ok", "err"}
  BY DEF BackendStep, SpawnChild, AssignJob, AssignFails, SpawnGivesUp, ReapAbandoned, ChildWait,
         TerminateInWait, RunTypeOK, Results
<1>4. RunTypeOK' /\ DrainTypeOK'
  BY <1>3, BackendMoves DEF RunTypeOK, DrainTypeOK
<1> QED
  BY <1>1, <1>2, <1>4

\* Every step keeps the types.
LEMMA NextTyped == TypeOK /\ [Next]_vars => TypeOK'
<1> SUFFICES ASSUME TypeOK, [Next]_vars PROVE TypeOK'
  OBVIOUS
<1>1. CASE UNCHANGED vars
  BY <1>1 DEF vars, treeVars, runVars, handleVars, drainVars,
              TypeOK, TreeTypeOK, ThreadTypeOK, RunTypeOK, DrainTypeOK
<1>2. ASSUME NEW a \in Killers, KillerStep(a) PROVE TypeOK'
  <2>1. CASE Probe(a)
    <3>1. \A failed \in {FALSE, ApisMayFail} : (failed \/ JobActive) \in BOOLEAN
      BY WindowsAssumption DEF JobActive
    <3> QED
      BY <2>1, <3>1, ProbeFireTyped DEF Probe
  <2>2. CASE Fire(a)
    BY <2>2, ProbeFireTyped
  <2>3. CASE TerminateJob(a)
    <3>1. ThreadTypeOK' /\ lock' \subseteq Cancellers
      BY <2>3, KillReturnsTyped DEF TerminateJob, TypeOK, RunTypeOK
    <3>2. TreeTypeOK'
      BY <2>3, CallsTyped DEF TerminateJob, TypeOK
    <3> QED
      BY <2>3, <3>1, <3>2
      DEF TerminateJob, TypeOK, RunTypeOK, DrainTypeOK, runVars, drainVars
  <2> QED
    BY <1>2, <2>1, <2>2, <2>3 DEF KillerStep
<1>3. CASE Next
  BY <1>2, <1>3, BackendTyped, RunStepTyped, ThreadStepsTyped
  DEF Next, MainStep, WaiterStep, BackendStep
<1> QED
  BY <1>1, <1>3

\* Every variable of a run on Windows keeps its type and every thread stays in
\* its own code, for all constants.
THEOREM TypeCorrect == Spec => []TypeOK
BY InitTyped, NextTyped, PTL DEF Spec

-----------------------------------------------------------------------------

\* spawn, wait() and reap_abandoned() of windows.rs keep the inductive
\* invariant of TaskRun: the child is no member of the job before it is
\* assigned, and then the guard is armed.
LEMMA BackendKeeps == TypeOK /\ IInv /\ BackendStep => IInv'
<1> SUFFICES ASSUME TypeOK, IInv, BackendStep PROVE IInv'
  OBVIOUS
<1> USE DEF IInv, GuardInv, QuietInv, HandleInv, ExitInv, FlagInv, NoLostCancel, NaturalMeansUntouched,
            Unlaunched, PastWait, KillPCs, EscalationPCs, Escalating, WasCancelled,
            treeVars, runVars, handleVars, drainVars, At
<1>1. HasExited' = HasExited /\ Reported("NaturalExit")' = Reported("NaturalExit")
  BY BackendMoves, Frame
<1>2. Root \in Procs /\ Root \in DOMAIN proc
  BY DEF Procs, TypeOK, TreeTypeOK
<1>3. ASSUME NEW q \in {"escaped", "dying"}, proc' = [proc EXCEPT ![Root] = q], UNCHANGED suid
      PROVE  Reachable' \subseteq Reachable
  BY <1>2, <1>3 DEF Reachable, Group
<1>4. CASE SpawnChild
  <2>1. /\ pc'[Main] = "assign" /\ pc'[Monitor] = pc[Monitor] /\ pc'[Waiter] = pc[Waiter]
        /\ \A c \in Cancellers : pc'[c] = pc[c]
    BY <1>4, MainMoves DEF SpawnChild
  <2>2. Reachable' \subseteq Reachable
    BY <1>3, <1>4 DEF SpawnChild
  <2> QED
    BY <1>1, <1>4, <2>1, <2>2 DEF SpawnChild
<1>5. CASE AssignJob
  <2>1. /\ pc'[Main] = "started" /\ pc'[Monitor] = pc[Monitor] /\ pc'[Waiter] = pc[Waiter]
        /\ \A c \in Cancellers : pc'[c] = pc[c]
    BY <1>5, MainMoves DEF AssignJob
  <2> QED
    BY <1>1, <1>5, <2>1 DEF AssignJob
<1>6. CASE AssignFails
  <2>1. /\ pc'[Main] = "unassigned" /\ pc'[Monitor] = pc[Monitor] /\ pc'[Waiter] = pc[Waiter]
        /\ \A c \in Cancellers : pc'[c] = pc[c]
    BY <1>6, MainMoves DEF AssignFails
  <2>2. Reachable' \subseteq Reachable
    BY <1>2, <1>6 DEF AssignFails, Reachable, Group
  <2> QED
    BY <1>1, <1>6, <2>1, <2>2 DEF AssignFails
<1>7. CASE SpawnGivesUp
  <2>1. /\ pc'[Main] = "returned" /\ pc'[Monitor] = pc[Monitor] /\ pc'[Waiter] = pc[Waiter]
        /\ \A c \in Cancellers : pc'[c] = pc[c]
    BY <1>7, MainMoves DEF SpawnGivesUp
  <2>2. Reachable' = Reachable
    BY <1>7, Frame DEF SpawnGivesUp
  <2> QED
    BY <1>1, <1>7, <2>1, <2>2 DEF SpawnGivesUp
<1>8. CASE ReapAbandoned
  <2>1. /\ pc'[Main] = "returned" /\ pc'[Monitor] = pc[Monitor] /\ pc'[Waiter] = pc[Waiter]
        /\ \A c \in Cancellers : pc'[c] = pc[c]
    BY <1>8, MainMoves DEF ReapAbandoned
  <2>2. Reachable' = Reachable
    BY <1>8, Frame DEF ReapAbandoned
  <2> QED
    BY <1>1, <1>8, <2>1, <2>2 DEF ReapAbandoned
<1>9. CASE ChildWait
  <2>1. /\ pc[Waiter] = "waitpid"
        /\ \/ pc'[Waiter] = "killpg"
           \/ pc'[Waiter] = "done" /\ wait_res' = "err"
        /\ pc'[Main] = pc[Main] /\ pc'[Monitor] = pc[Monitor]
        /\ \A c \in Cancellers : pc'[c] = pc[c]
    BY <1>9, GotoMoves, Distinct DEF ChildWait, TypeOK
  <2>2. Reachable' = Reachable
    BY <1>9, Frame DEF ChildWait
  <2> QED
    BY <1>1, <1>9, <2>1, <2>2 DEF ChildWait
<1>10. CASE TerminateInWait
  <2>1. /\ pc[Waiter] = "killpg" /\ pc'[Waiter] = "join"
        /\ pc'[Main] = pc[Main] /\ pc'[Monitor] = pc[Monitor]
        /\ \A c \in Cancellers : pc'[c] = pc[c]
    BY <1>10, GotoMoves, Distinct DEF TerminateInWait, TypeOK
  <2>2. Reachable' = {}
    BY <1>10, KillQuiets DEF TerminateInWait, TypeOK
  <2> QED
    BY <1>1, <1>10, <2>1, <2>2 DEF TerminateInWait, SigKill
<1> QED
  BY <1>4, <1>5, <1>6, <1>7, <1>8, <1>9, <1>10 DEF BackendStep

\* tree_alive() says "dead" only of a job in which nothing runs, and
\* TerminateJobObject leaves nothing running in it.
LEMMA KillerKeeps ==
    ASSUME TypeOK, IInv, NEW a \in Killers, KillerStep(a)
    PROVE  IInv'
<1>1. CASE Probe(a)
  <2>1. PICK failed \in {FALSE, ApisMayFail} : ProbeTree(a, failed \/ JobActive)
    BY <1>1 DEF Probe
  <2>2. (failed \/ JobActive) \in BOOLEAN
    BY WindowsAssumption DEF JobActive
  <2>3. ~JobActive => Reachable = {}
    BY DEF JobActive, Reachable, Group
  <2> QED
    BY <2>1, <2>2, <2>3, ProbeKeeps
<1>2. CASE Fire(a)
  BY <1>2, FireKeeps
<1>3. CASE TerminateJob(a)
  <2>1. Reachable' = {} /\ termed' = termed /\ Escalating(a)
    BY <1>3, KillQuiets DEF TerminateJob, SigKill, TypeOK, Escalating, EscalationPCs, At
  <2> QED
    BY <1>3, <2>1, KillReturnsKeeps DEF TerminateJob
<1> QED
  BY <1>1, <1>2, <1>3 DEF KillerStep

\* The inductive invariant of TaskRun holds throughout every run on Windows.
LEMMA Invariance == Spec => [](TypeOK /\ IInv)
<1>1. Init => TypeOK /\ IInv
  BY InitTyped, InitHolds
<1>2. TypeOK /\ IInv /\ UNCHANGED vars => IInv'
  <2> SUFFICES ASSUME TypeOK, IInv, UNCHANGED vars PROVE IInv'
    OBVIOUS
  <2>1. /\ HasExited' = HasExited /\ Reachable' = Reachable
        /\ Reported("NaturalExit")' = Reported("NaturalExit")
    BY Frame DEF vars, treeVars, runVars
  <2> QED
    BY <2>1
    DEF vars, treeVars, runVars, handleVars, drainVars, At, IInv, GuardInv, QuietInv, HandleInv, ExitInv,
        FlagInv, NoLostCancel, NaturalMeansUntouched, Unlaunched, PastWait, KillPCs, EscalationPCs,
        Escalating, WasCancelled
<1>3. TypeOK /\ IInv /\ Next => IInv'
  BY BackendKeeps, KillerKeeps, RunStepKeeps, ThreadStepsKeep, TreeMovesKeep
  DEF Next, MainStep, WaiterStep, BackendStep
<1>4. (TypeOK /\ IInv) /\ [Next]_vars => (TypeOK /\ IInv)'
  BY <1>2, <1>3, NextTyped
<1> QED
  BY <1>1, <1>4, PTL DEF Spec

\* When run() has returned nothing runs in the job, however many processes
\* joined it and however the threads interleave: TerminateJobObject in wait(),
\* in kill_escalating and in the guard covers every path.
THEOREM LeavesNoOrphans == Spec => []NoOrphans
<1>1. TypeOK /\ IInv => NoOrphans
  BY DEF IInv, QuietInv, NoOrphans, At
<1> QED
  BY <1>1, Invariance, PTL

\* With any number of concurrent cancel() calls, a cancel is carried out by
\* the call itself or by the wiring block, unless the job is empty.
THEOREM LosesNoCancel == Spec => []NoLostCancel
<1>1. TypeOK /\ IInv => NoLostCancel
  BY DEF IInv
<1> QED
  BY <1>1, Invariance, PTL

-----------------------------------------------------------------------------
(* The root and its exit code. *)

RootOver == proc[Root] \in {"zombie", "gone"}

\* Nobody sends SIGTERM or changes credentials; the child stays outside the
\* job until it is assigned, and one that could not be is being killed; where
\* wait() has a code the root is over; a root that is being terminated, or
\* that was, has a flag, an early return or the failed assignment to show for.
JobInv ==
    /\ suid = {} /\ termed = {}
    /\ At(Main, "idle") => proc[Root] = "none"
    /\ At(Main, "assign") => proc[Root] \in {"escaped", "gone"}
    /\ At(Main, "unassigned") => proc[Root] = "dying" \/ RootOver
    /\ pc[Waiter] \in {"killpg", "join"} \/ (At(Waiter, "done") /\ wait_res = "ok") => RootOver
    /\ pc[Main] \in PastWait \/ HasExited => RootOver
    /\ proc[Root] = "dying" \/ (RootOver /\ status = Killed) =>
           At(Main, "unassigned") \/ timed_out \/ WasCancelled \/ ret # "none"
    /\ ret = "SpawnFailed" => At(Main, "returned")
    /\ FailedSpawnLeavesNoRoot
    /\ NaturalMeansOwnCode

\* What a step of kill_escalating or of the probe before it does.
LEMMA KillerMoves ==
    ASSUME TypeOK, NEW a \in Killers, KillerStep(a)
    PROVE  /\ pc[a] \in EscalationPCs
           /\ pc'[a] \in {"fire", "escalate", AfterKill(a)}
           /\ \A u \in Threads : u # a => pc'[u] = pc[u]
           /\ UNCHANGED proc \/ (At(a, "escalate") /\ SigKill)
           /\ UNCHANGED <<termed, suid, status, holds, pipe, cfg, runVars, cancelled, kill, wait_res,
                          drainVars>>
           /\ timed_out => timed_out'
           /\ kill_fired => kill_fired'
<1> USE DEF At, EscalationPCs, treeVars, runVars, handleVars, drainVars
<1>1. a \in Threads /\ AfterKill(a) \in {"monitor", "reap", "done"}
  BY Distinct DEF AfterKill
<1>2. CASE Probe(a)
  BY <1>1, <1>2, GotoMoves DEF Probe, ProbeTree, KillReturns, TypeOK
<1>3. CASE Fire(a)
  BY <1>1, <1>3, GotoMoves DEF Fire, TypeOK
<1>4. CASE TerminateJob(a)
  BY <1>1, <1>4, GotoMoves DEF TerminateJob, SigKill, KillReturns, TypeOK
<1> QED
  BY <1>2, <1>3, <1>4 DEF KillerStep

\* Where a killer's step leaves the caller's and the waiting thread.
LEMMA KillerLeads ==
    ASSUME TypeOK, NEW a \in Killers, KillerStep(a)
    PROVE  /\ pc'[Waiter] = pc[Waiter]
           /\ \/ pc'[Main] = pc[Main]
              \/ pc[Main] \in EscalationPCs /\ pc'[Main] \in EscalationPCs \union {AfterKill(Main)}
<1>1. CASE a = Main
  BY <1>1, KillerMoves, Distinct DEF EscalationPCs
<1>2. CASE a # Main
  BY <1>2, KillerMoves, Distinct
<1> QED
  BY <1>1, <1>2

\* Every step keeps it.
LEMMA JobKeeps == TypeOK /\ IInv /\ JobInv /\ [Next]_vars => JobInv'
<1> SUFFICES ASSUME TypeOK, IInv, JobInv, [Next]_vars PROVE JobInv'
  OBVIOUS
<1> USE DEF JobInv, RootOver, FailedSpawnLeavesNoRoot, NaturalMeansOwnCode, At, PastWait, WasCancelled,
            treeVars, runVars, handleVars
<1>r. Root \in Procs /\ Root \in DOMAIN proc
  BY DEF Procs, TypeOK, TreeTypeOK
<1>n. Reported("NaturalExit") => HasExited
  BY DEF Reported, HasExited
<1>u. pc[Main] \in Unlaunched => ret = "none" /\ At(Waiter, "off") /\ ~HasExited
  BY DEF IInv, GuardInv, QuietInv, ExitInv, Unlaunched, KillPCs
<1>1. CASE SpawnChild
  BY <1>1, <1>r, <1>n, <1>u, BackendMoves, MainMoves, Frame DEF SpawnChild, BackendStep, Unlaunched
<1>2. CASE AssignJob
  BY <1>2, <1>r, <1>n, <1>u, BackendMoves, MainMoves, Frame DEF AssignJob, BackendStep, Unlaunched
<1>3. CASE AssignFails
  BY <1>3, <1>r, <1>n, <1>u, BackendMoves, MainMoves, Frame DEF AssignFails, BackendStep, Unlaunched
<1>4. CASE SpawnGivesUp
  BY <1>4, <1>r, <1>n, <1>u, MainMoves, Frame DEF SpawnGivesUp, WaitpidReady, Unlaunched
<1>5. CASE SpawnFails
  BY <1>5, <1>r, <1>n, <1>u, MainMoves, Frame DEF SpawnFails, Unlaunched
<1>6. CASE ReapAbandoned
  BY <1>6, <1>n, MainMoves, Frame DEF ReapAbandoned
<1>7. CASE ChildWait
  <2>1. /\ pc'[Main] = pc[Main]
        /\ \/ pc'[Waiter] = "killpg" /\ RootOver
           \/ pc'[Waiter] = "done" /\ wait_res' = "err"
    BY <1>7, GotoMoves, Distinct DEF ChildWait, WaitpidReady, TypeOK
  <2> QED
    BY <1>7, <2>1, Frame DEF ChildWait
<1>8. CASE TerminateInWait
  <2>1. pc'[Main] = pc[Main] /\ pc[Waiter] = "killpg" /\ pc'[Waiter] = "join"
    BY <1>8, GotoMoves, Distinct DEF TerminateInWait, TypeOK
  <2>2. proc'[Root] = proc[Root]
    BY <1>8, <1>r, <2>1 DEF TerminateInWait, SigKill, Reachable
  <2> QED
    BY <1>8, <2>1, <2>2, Frame DEF TerminateInWait, SigKill
<1>9. CASE RunStep
  <2>1. ret = "none" /\ pc[Main] \notin Unlaunched
    BY <1>9, RunStepMoves DEF IInv, GuardInv, KillPCs, EscalationPCs
  <2>2. pc'[Main] \notin Unlaunched /\ ret' # "SpawnFailed" /\ UNCHANGED treeVars
    BY <1>9, RunStepMoves
  <2>3. UNCHANGED <<proc, termed, suid, status, cfg, timed_out, kill_fired, wait_res>>
    BY <1>9, RunStepMoves
  <2>4. (pc[Main] \in PastWait \/ HasExited)' => RootOver
    BY <1>9, RunStepMoves, RunStepReports
  <2>5. Reported("NaturalExit")' => status # Killed
    BY <1>9, <2>1, RunStepReports DEF Reason, Unlaunched
  <2>6. pc'[Waiter] \in {pc[Waiter], "drains"}
    BY <1>9, RunStepMoves
  <2> QED
    BY <2>1, <2>2, <2>3, <2>4, <2>5, <2>6 DEF Unlaunched
<1>10. CASE \/ MonitorStep \/ StartDrains \/ JoinDrains
            \/ \E c \in Cancellers : CancelStep(c)
            \/ \E s \in Streams : DrainStep(s)
  BY <1>10, ThreadStepsMove, Frame
<1>11. ASSUME NEW a \in Killers, KillerStep(a) PROVE JobInv'
  <2>1. /\ RootOver => proc'[Root] = proc[Root]
        /\ proc[Root] \in {"none", "escaped", "dying"} => proc'[Root] = proc[Root]
        /\ proc'[Root] \in {"zombie", "gone"} => proc[Root] = proc'[Root]
        /\ proc'[Root] = "dying" => proc[Root] = "dying" \/ At(a, "escalate")
    BY <1>11, <1>r, KillerMoves DEF SigKill, Reachable
  <2>2. At(a, "escalate") => timed_out \/ WasCancelled \/ ret # "none"
    BY DEF IInv, FlagInv, KillPCs, Killers
  <2>3. AfterKill(Main) \in {"monitor", "reap"}
    BY DEF AfterKill
  <2> QED
    BY <1>11, <2>1, <2>2, <2>3, KillerMoves, KillerLeads, Frame DEF EscalationPCs
<1>12. CASE TreeMoves
  BY <1>12, <1>n, RootStays, RootEnds, WindowsAssumption, Frame DEF TreeMoves, ChildWrites, TypeOK
<1>13. CASE Done \/ UNCHANGED vars
  BY <1>13, Frame DEF Done, vars
<1> QED
  BY <1>1, <1>2, <1>3, <1>4, <1>5, <1>6, <1>7, <1>8, <1>9, <1>10, <1>11, <1>12, <1>13
  DEF Next, MainStep, WaiterStep

\* It holds throughout every run.
LEMMA JobInvariance == Spec => []JobInv
<1>1. Init => JobInv
  <2> SUFFICES ASSUME Init PROVE JobInv
    OBVIOUS
  <2>1. pc[Main] = "idle" /\ pc[Waiter] = "off" /\ proc[Root] = "none"
    BY Distinct DEF Init, TreeInit, Procs
  <2>2. ~HasExited /\ ~Reported("NaturalExit")
    BY DEF Init, HasExited, Reported
  <2> QED
    BY <2>1, <2>2 DEF Init, TreeInit, JobInv, RootOver, FailedSpawnLeavesNoRoot, NaturalMeansOwnCode,
                      At, PastWait
<1>2. (TypeOK /\ IInv) /\ JobInv /\ [Next]_vars => JobInv'
  BY JobKeeps
<1> QED
  BY <1>1, <1>2, Invariance, PTL DEF Spec

\* A NaturalExit carries an exit code of the program's own, whoever called
\* TerminateJobObject and when: a terminated root is reported as timed out or
\* cancelled, or not at all.
THEOREM NaturalIsOwnCode == Spec => []NaturalMeansOwnCode
<1>1. JobInv => NaturalMeansOwnCode
  BY DEF JobInv
<1> QED
  BY <1>1, JobInvariance, PTL

\* A spawn that fails, at the creation or at the assignment to the job, leaves
\* no root running: the unassigned child is killed and waited for.
THEOREM FailedSpawnIsClean == Spec => []FailedSpawnLeavesNoRoot
<1>1. JobInv => FailedSpawnLeavesNoRoot
  BY DEF JobInv
<1> QED
  BY <1>1, JobInvariance, PTL

-----------------------------------------------------------------------------
(* The output of a run. *)

\* The calls of windows.rs leave the drain threads and the channel alone; a
\* failed wait() skips the joins but then has no code to return.
LEMMA BackendDrains ==
    ASSUME TypeOK, IInv, IInv', DrainInv
    PROVE  /\ BackendStep => DrainInv'
           /\ \A a \in Killers : KillerStep(a) => DrainInv'
<1> USE DEF At, treeVars, runVars, handleVars, drainVars
<1>e. UNCHANGED <<pipe, holds>> => \A s \in Streams : EOF(s) => EOF(s)'
  BY DEF EOF
<1>p. /\ pc[Main] \in {"probe", "fire"} => ret = "none"
      /\ pc'[Main] \in {"probe", "fire"} => ret' = "none"
  BY DEF IInv, GuardInv, KillPCs
<1>1. ASSUME SpawnChild \/ AssignJob \/ AssignFails \/ SpawnGivesUp PROVE DrainInv'
  <2>1. /\ pc[Main] \in Unlaunched /\ pc'[Main] \in Unlaunched \union {"started", "returned"}
        /\ pc'[Waiter] = pc[Waiter] /\ HasExited' = HasExited /\ ~HasExited
        /\ UNCHANGED <<drain, chan, cfg, wait_res>>
        /\ pc'[Main] = "returned" => ret' # "none"
    BY <1>1, MainMoves, Frame
    DEF SpawnChild, AssignJob, AssignFails, SpawnGivesUp, Unlaunched, IInv, ExitInv
  <2>2. At(Waiter, "off") /\ \A s \in Streams : drain[s] = "off"
    BY <2>1 DEF DrainInv, BeforeWait
  <2> QED
    BY <2>1, <2>2 DEF DrainInv, Unlaunched, BeforeWait, PastWait, KillPCs, SendersDropped
<1>2. ASSUME ReapAbandoned PROVE DrainInv'
  <2>1. pc'[Main] = "returned" /\ pc'[Waiter] = pc[Waiter]
    BY <1>2, MainMoves DEF ReapAbandoned
  <2> QED
    BY <1>2, <1>e, <1>p, <2>1, DrainFrame DEF ReapAbandoned
<1>3. ASSUME ChildWait \/ TerminateInWait PROVE DrainInv'
  <2>1. /\ pc[Waiter] \in {"waitpid", "killpg"} /\ pc'[Main] = pc[Main]
        /\ \/ pc'[Waiter] \in {"killpg", "join"}
           \/ pc'[Waiter] = "done" /\ wait_res' = "err"
    BY <1>3, GotoMoves, Distinct DEF ChildWait, TerminateInWait, TypeOK
  <2>2. HasExited' = HasExited /\ UNCHANGED <<pipe, holds, drain, chan, cfg, ret>>
    BY <1>3, Frame DEF ChildWait, TerminateInWait, SigKill
  <2> QED
    BY <1>e, <2>1, <2>2
    DEF DrainInv, Unlaunched, BeforeWait, PastWait, KillPCs, SendersDropped
<1>4. ASSUME NEW a \in Killers, KillerStep(a) PROVE DrainInv'
  <2>1. UNCHANGED <<events, cfg, ret, chan, drain, wait_res, pipe, holds>>
    BY <1>4, KillerMoves
  <2> QED
    BY <1>4, <1>e, <1>p, <2>1, KillerLeads, DrainFrame
<1> QED
  BY <1>1, <1>2, <1>3, <1>4 DEF BackendStep

\* Every step keeps what is known of the drain threads and of the log.
LEMMA OutputInvariance == Spec => [](DrainInv /\ LogInv)
<1>1. TypeOK /\ IInv /\ IInv' /\ DrainInv /\ [Next]_vars => DrainInv'
  BY BackendDrains, RunStepDrains, ThreadStepsDrain DEF Next, MainStep, WaiterStep, BackendStep
<1>2. ASSUME TypeOK, LogInv, BackendStep, ~SpawnGivesUp PROVE LogInv'
  <2>1. UNCHANGED ret
    BY <1>2 DEF BackendStep, SpawnChild, AssignJob, AssignFails, ReapAbandoned, ChildWait,
                TerminateInWait, runVars
  <2> QED
    BY <1>2, <2>1, BackendMoves, LogFrame DEF drainVars
<1>3. ASSUME TypeOK, IInv, LogInv, SpawnGivesUp PROVE LogInv'
  <2>1. ret = "none" /\ UNCHANGED <<events, chan, seq>>
    BY <1>3 DEF SpawnGivesUp, IInv, GuardInv, At, KillPCs, drainVars
  <2>2. Log' = Log /\ seq' = seq
    BY <2>1 DEF Log
  <2> QED
    BY <1>3, <2>1, <2>2 DEF LogInv
<1>4. ASSUME TypeOK, LogInv, NEW a \in Killers, KillerStep(a) PROVE LogInv'
  BY <1>4, LogFrame, KillerMoves DEF runVars, drainVars
<1>5. TypeOK /\ IInv /\ DrainInv /\ LogInv /\ [Next]_vars => LogInv'
  BY <1>2, <1>3, <1>4, RunStepLog, ThreadStepsLog DEF Next, MainStep, WaiterStep, BackendStep
<1> QED
  BY <1>1, <1>5, OutputInit, Invariance, PTL DEF Spec

-----------------------------------------------------------------------------
(* The contract of run(). *)

\* Every step keeps what is known of the events and of the result.
LEMMA EmitKeeps == TypeOK /\ IInv /\ IInv' /\ EmitInv /\ [Next]_vars => EmitInv'
<1> SUFFICES ASSUME TypeOK, IInv, IInv', EmitInv, [Next]_vars PROVE EmitInv'
  OBVIOUS
<1> USE DEF At, runVars
<1>1. CASE SpawnChild \/ AssignJob \/ AssignFails
  <2>1. pc[Main] \in Unlaunched /\ pc'[Main] \in Unlaunched \union {"started"}
    BY <1>1, MainMoves DEF SpawnChild, AssignJob, AssignFails, Unlaunched
  <2> QED
    BY <1>1, <2>1, EmitFrame DEF SpawnChild, AssignJob, AssignFails
<1>2. CASE SpawnFails \/ SpawnGivesUp
  BY <1>2, MainMoves DEF SpawnFails, SpawnGivesUp, EmitInv, Unlaunched, KillPCs
<1>3. CASE RunStep
  BY <1>3, RunStepEmits
<1>4. CASE ReapAbandoned
  BY <1>4, MainMoves, EmitFrame DEF ReapAbandoned
<1>5. CASE ChildWait \/ TerminateInWait
  <2>1. pc'[Main] = pc[Main]
    BY <1>5, GotoMoves, Distinct DEF ChildWait, TerminateInWait, TypeOK
  <2> QED
    BY <1>5, <2>1, EmitFrame DEF ChildWait, TerminateInWait
<1>6. CASE \/ MonitorStep \/ StartDrains \/ JoinDrains
           \/ \E c \in Cancellers : CancelStep(c)
           \/ \E s \in Streams : DrainStep(s)
  BY <1>6, ThreadStepsMove, EmitFrame
<1>7. ASSUME NEW a \in Killers, KillerStep(a) PROVE EmitInv'
  BY <1>7, KillerMoves, KillerLeads, EmitFrame
<1>8. CASE TreeMoves
  BY <1>8, EmitFrame DEF TreeMoves
<1>9. CASE Done \/ UNCHANGED vars
  BY <1>9, EmitFrame DEF Done, vars
<1> QED
  BY <1>1, <1>2, <1>3, <1>4, <1>5, <1>6, <1>7, <1>8, <1>9 DEF Next, MainStep, WaiterStep

\* Every step is a step of the contract or leaves what it speaks of alone: the
\* launch is the assignment to the job, and a child that could not be assigned
\* is a refused spawn.
LEMMA StepKeepsContract ==
    TypeOK /\ IInv /\ DrainInv /\ LogInv /\ EmitInv /\ [Next]_vars => ContractStep
<1> SUFFICES ASSUME TypeOK, IInv, DrainInv, LogInv, EmitInv, [Next]_vars PROVE ContractStep
  OBVIOUS
<1> USE DEF At, treeVars, runVars
<1>k. ASSUME SigKill PROVE Reachable' = {}
  BY <1>k, KillQuiets DEF TypeOK
<1>1. CASE SpawnChild \/ AssignFails
  <2>1. {pc[Main], pc'[Main]} \subseteq Unlaunched
    BY <1>1, MainMoves DEF SpawnChild, AssignFails, Unlaunched
  <2>2. Reachable' \subseteq Reachable
    BY <1>1 DEF SpawnChild, AssignFails, Reachable, Group, TypeOK, TreeTypeOK
  <2> QED
    BY <1>1, <2>1, <2>2, ContractFrame DEF SpawnChild, AssignFails
<1>2. CASE AssignJob
  BY <1>2, MainMoves, ContractSpawn DEF AssignJob, Unlaunched
<1>3. CASE SpawnGivesUp
  BY <1>3, MainMoves, ContractSpawn DEF SpawnGivesUp, Unlaunched
<1>4. CASE RunStep
  BY <1>4, RunStepContract
<1>5. CASE ReapAbandoned
  BY <1>5, MainMoves, Frame, ContractAbort DEF ReapAbandoned
<1>6. CASE ChildWait \/ TerminateInWait
  <2>1. pc'[Main] = pc[Main]
    BY <1>6, GotoMoves, Distinct DEF ChildWait, TerminateInWait, TypeOK
  <2> QED
    BY <1>6, <1>k, <2>1, Frame, ContractFrame DEF ChildWait, TerminateInWait
<1>7. ASSUME NEW a \in Killers, KillerStep(a) PROVE ContractStep
  <2>1. Reachable = {} => Reachable' = {}
    BY <1>7, <1>k, KillerMoves, Frame
  <2>2. AfterKill(Main) \in {"monitor", "reap"}
    BY DEF AfterKill
  <2>3. UNCHANGED <<events, ret>>
    BY <1>7, KillerMoves
  <2>4. \/ pc'[Main] = pc[Main]
        \/ {pc[Main], pc'[Main]} \intersect (Unlaunched \union {"returned"}) = {}
    BY <1>7, <2>2, KillerLeads DEF EscalationPCs, Unlaunched
  <2> QED
    BY <2>1, <2>3, <2>4, ContractFrame
<1>8. CASE UNCHANGED vars
  BY <1>8, Frame, ContractFrame DEF vars
<1> QED
  BY <1>1, <1>2, <1>3, <1>4, <1>5, <1>6, <1>7, <1>8, ThreadStepsContract DEF Next, MainStep, WaiterStep

\* A run on Windows is a run of RunContract too, with the job for the tree:
\* the same promises hold on both platforms, for all constants.
THEOREM RefinesContract == Spec => KeepsContract
<1>1. Init => Contract!Init
  BY ContractInit
<1>2. Init => EmitInv
  BY ContractInit
<1>3. TypeOK /\ IInv /\ IInv' /\ EmitInv /\ [Next]_vars => EmitInv'
  BY EmitKeeps
<1>4. TypeOK /\ IInv /\ DrainInv /\ LogInv /\ EmitInv /\ [Next]_vars
        => [Contract!Next]_(Contract!contractVars)
  BY StepKeepsContract DEF ContractStep
<1> QED
  BY <1>1, <1>2, <1>3, <1>4, Invariance, OutputInvariance, PTL DEF Spec, KeepsContract, Contract!Spec
=============================================================================
