--------------------------- MODULE UnixTaskProofs ---------------------------
(***************************************************************************)
(* A run on Unix keeps its types and leaves no orphan, loses no cancel,    *)
(* reports no killed tree as a natural exit and sends no signal for a      *)
(* cancel after Exited: for every tree, every number of cancellers and     *)
(* every configuration.                                                    *)
(***************************************************************************)
EXTENDS UnixTask, TaskRunProofs

\* The calls of unix.rs keep the types of the run.
LEMMA BackendTyped ==
    ASSUME TypeOK
    PROVE  /\ Spawn => TypeOK'
           /\ ReapAbandoned => TypeOK'
           /\ ChildWait \/ KillGroup => TypeOK'
           /\ \A p \in Procs, s \in Streams : WriterDies(p, s) => TypeOK'
           /\ \A a \in Killers : SigtermGroup(a) \/ Poll(a) \/ SigkillGroup(a) => TypeOK'
<1> USE DEF TypeOK, treeVars, runVars, handleVars, drainVars
<1>1. ASSUME Spawn PROVE TypeOK'
  <2>1. ThreadTypeOK'
    BY <1>1, GotoTyped, Distinct DEF Spawn, MainPCs
  <2>2. TreeTypeOK'
    BY <1>1 DEF Spawn, CreateRoot, TreeTypeOK, Procs, ProcStates
  <2> QED
    BY <2>1, <2>2, <1>1 DEF Spawn, RunTypeOK, DrainTypeOK
<1>2. ASSUME ReapAbandoned PROVE TypeOK'
  <2>1. ThreadTypeOK'
    BY <1>2, GotoTyped, Distinct DEF ReapAbandoned, MainPCs
  <2> QED
    BY <2>1, <1>2, CallsTyped DEF ReapAbandoned, RunTypeOK, DrainTypeOK
<1>3. ASSUME ChildWait \/ KillGroup PROVE TypeOK'
  <2>1. ThreadTypeOK'
    BY <1>3, GotoTyped, Distinct DEF ChildWait, KillGroup, WaiterPCs
  <2> QED
    BY <2>1, <1>3, CallsTyped DEF ChildWait, KillGroup, RunTypeOK, DrainTypeOK
<1>4. ASSUME NEW a \in Killers, SigtermGroup(a) \/ Poll(a) \/ SigkillGroup(a) PROVE TypeOK'
  <2>1. ASSUME NEW l \in {"poll", "sigkill"}, Goto(a, l) PROVE ThreadTypeOK'
    BY <2>1, GotoTyped, Distinct
    DEF Killers, Threads, MainPCs, MonitorPCs, CancelPCs, EscalationPCs
  <2>2. ThreadTypeOK' /\ lock' \subseteq Cancellers
    BY <1>4, <2>1, KillReturnsTyped DEF SigtermGroup, Poll, SigkillGroup, RunTypeOK
  <2>3. TreeTypeOK'
    BY <1>4, CallsTyped DEF SigtermGroup, Poll, SigkillGroup, TreeTypeOK
  <2> QED
    BY <2>2, <2>3, <1>4 DEF SigtermGroup, Poll, SigkillGroup, RunTypeOK, DrainTypeOK
<1>5. ASSUME NEW p \in Procs, NEW s \in Streams, WriterDies(p, s) PROVE TypeOK'
  BY <1>5, CallsTyped DEF WriterDies, ThreadTypeOK, RunTypeOK, DrainTypeOK
<1> QED
  BY <1>1, <1>2, <1>3, <1>4, <1>5

\* Every step keeps the types.
LEMMA NextTyped == TypeOK /\ [Next]_vars => TypeOK'
<1> SUFFICES ASSUME TypeOK, [Next]_vars PROVE TypeOK'
  OBVIOUS
<1>1. CASE UNCHANGED vars
  BY <1>1 DEF vars, treeVars, runVars, handleVars, drainVars,
              TypeOK, TreeTypeOK, ThreadTypeOK, RunTypeOK, DrainTypeOK
<1>2. ASSUME NEW a \in Killers, KillerStep(a) PROVE TypeOK'
  <2>1. TreeAlive \in BOOLEAN
    BY DEF TreeAlive, ESRCH
  <2> QED
    BY <1>2, <2>1, ProbeFireTyped, BackendTyped DEF KillerStep, Probe
<1>3. CASE Next
  BY <1>2, <1>3, BackendTyped, RunStepTyped, ThreadStepsTyped DEF Next, MainStep, WaiterStep
<1> QED
  BY <1>1, <1>3

\* Every variable of a run keeps its type and every thread stays in its own
\* code, for all constants: the type invariant of run_impl, cancel(), the
\* monitor, wait() and the drain threads on Unix.
THEOREM TypeCorrect == Spec => []TypeOK
BY InitTyped, NextTyped, PTL DEF Spec

-----------------------------------------------------------------------------

\* spawn, wait() and reap_abandoned() of unix.rs keep it.
LEMMA BackendKeeps ==
    ASSUME TypeOK, IInv
    PROVE  /\ Spawn => IInv'
           /\ ReapAbandoned => IInv'
           /\ ChildWait => IInv'
           /\ KillGroup => IInv'
           /\ \A p \in Procs, s \in Streams : WriterDies(p, s) => IInv'
<1> USE DEF IInv, GuardInv, QuietInv, HandleInv, ExitInv, FlagInv, NoLostCancel, NaturalMeansUntouched,
            Unlaunched, PastWait, KillPCs, EscalationPCs, Escalating, WasCancelled,
            treeVars, runVars, handleVars, drainVars, At
<1>1. ASSUME Spawn PROVE IInv'
  <2>1. /\ pc'[Main] = "started" /\ pc'[Monitor] = pc[Monitor] /\ pc'[Waiter] = pc[Waiter]
        /\ \A c \in Cancellers : pc'[c] = pc[c]
    BY <1>1, MainMoves DEF Spawn
  <2>2. HasExited' = HasExited /\ Reported("NaturalExit")' = Reported("NaturalExit")
    BY <1>1, Frame DEF Spawn
  <2>3. GuardInv' /\ QuietInv'
    BY <1>1, <2>1, <2>2 DEF Spawn, CreateRoot
  <2>4. HandleInv'
    BY <1>1, <2>1, <2>2 DEF Spawn, CreateRoot
  <2>5. ExitInv' /\ FlagInv'
    BY <1>1, <2>1, <2>2 DEF Spawn, CreateRoot
  <2>6. NoLostCancel' /\ NaturalMeansUntouched'
    BY <1>1, <2>1, <2>2 DEF Spawn, CreateRoot
  <2> QED
    BY <2>3, <2>4, <2>5, <2>6
<1>2. ASSUME Waitpid PROVE Reachable' \subseteq Reachable
  BY <1>2 DEF Waitpid, WaitpidReady, Reachable, Group, TypeOK, TreeTypeOK
<1>3. ASSUME ReapAbandoned PROVE IInv'
  <2>1. /\ pc'[Main] = "returned" /\ pc'[Monitor] = pc[Monitor] /\ pc'[Waiter] = pc[Waiter]
        /\ \A c \in Cancellers : pc'[c] = pc[c]
    BY <1>3, MainMoves DEF ReapAbandoned
  <2>2. HasExited' = HasExited /\ Reported("NaturalExit")' = Reported("NaturalExit")
    BY <1>3, Frame DEF ReapAbandoned
  <2>3. Reachable' \subseteq Reachable
    BY <1>2, <1>3 DEF ReapAbandoned
  <2>4. GuardInv' /\ QuietInv'
    BY <1>3, <2>1, <2>2, <2>3 DEF ReapAbandoned, Waitpid
  <2>5. HandleInv'
    BY <1>3, <2>1, <2>2, <2>3 DEF ReapAbandoned, Waitpid
  <2>6. ExitInv' /\ FlagInv'
    BY <1>3, <2>1, <2>2, <2>3 DEF ReapAbandoned, Waitpid
  <2>7. NoLostCancel' /\ NaturalMeansUntouched'
    BY <1>3, <2>1, <2>2, <2>3 DEF ReapAbandoned, Waitpid
  <2> QED
    BY <2>4, <2>5, <2>6, <2>7
<1>4. ASSUME ChildWait PROVE IInv'
  <2>1. /\ pc[Waiter] = "waitpid" /\ pc'[Waiter] = "killpg"
        /\ pc'[Main] = pc[Main] /\ pc'[Monitor] = pc[Monitor]
        /\ \A c \in Cancellers : pc'[c] = pc[c]
    BY <1>4, GotoMoves, Distinct DEF ChildWait, TypeOK
  <2>2. HasExited' = HasExited /\ Reported("NaturalExit")' = Reported("NaturalExit")
    BY <1>4, Frame DEF ChildWait
  <2>3. Reachable' \subseteq Reachable
    BY <1>2, <1>4 DEF ChildWait
  <2>4. GuardInv' /\ QuietInv'
    BY <1>4, <2>1, <2>2, <2>3 DEF ChildWait, Waitpid
  <2>5. HandleInv'
    BY <1>4, <2>1, <2>2, <2>3 DEF ChildWait, Waitpid
  <2>6. ExitInv' /\ FlagInv'
    BY <1>4, <2>1, <2>2, <2>3 DEF ChildWait, Waitpid
  <2>7. NoLostCancel' /\ NaturalMeansUntouched'
    BY <1>4, <2>1, <2>2, <2>3 DEF ChildWait, Waitpid
  <2> QED
    BY <2>4, <2>5, <2>6, <2>7
<1>5. ASSUME KillGroup PROVE IInv'
  <2>1. /\ pc[Waiter] = "killpg" /\ pc'[Waiter] = "join"
        /\ pc'[Main] = pc[Main] /\ pc'[Monitor] = pc[Monitor]
        /\ \A c \in Cancellers : pc'[c] = pc[c]
    BY <1>5, GotoMoves, Distinct DEF KillGroup, TypeOK
  <2>2. HasExited' = HasExited /\ Reported("NaturalExit")' = Reported("NaturalExit")
    BY <1>5, Frame DEF KillGroup
  <2>3. Reachable' = {}
    BY <1>5, KillQuiets DEF KillGroup, TypeOK
  <2>4. GuardInv' /\ QuietInv'
    BY <1>5, <2>1, <2>2, <2>3 DEF KillGroup, SigKill
  <2>5. HandleInv'
    BY <1>5, <2>1, <2>2, <2>3 DEF KillGroup, SigKill
  <2>6. ExitInv' /\ FlagInv'
    BY <1>5, <2>1, <2>2, <2>3 DEF KillGroup, SigKill
  <2>7. NoLostCancel' /\ NaturalMeansUntouched'
    BY <1>5, <2>1, <2>2, <2>3 DEF KillGroup, SigKill
  <2> QED
    BY <2>4, <2>5, <2>6, <2>7
<1>6. ASSUME NEW p \in Procs, NEW s \in Streams, WriterDies(p, s) PROVE IInv'
  <2>1. HasExited' = HasExited /\ Reported("NaturalExit")' = Reported("NaturalExit")
    BY <1>6, Frame DEF WriterDies
  <2>2. Reachable = {} => Reachable' = {}
    BY <1>6, QuietStable DEF WriterDies, TypeOK
  <2>3. termed' = termed
    BY <1>6 DEF WriterDies, BrokenPipe, Ends
  <2>4. GuardInv' /\ QuietInv'
    BY <1>6, <2>1, <2>2, <2>3 DEF WriterDies
  <2>5. HandleInv'
    BY <1>6, <2>1, <2>2, <2>3 DEF WriterDies
  <2>6. ExitInv' /\ FlagInv'
    BY <1>6, <2>1, <2>2, <2>3 DEF WriterDies
  <2>7. NoLostCancel' /\ NaturalMeansUntouched'
    BY <1>6, <2>1, <2>2, <2>3 DEF WriterDies
  <2> QED
    BY <2>4, <2>5, <2>6, <2>7
<1> QED
  BY <1>1, <1>3, <1>4, <1>5, <1>6

\* Whoever signals has raised its flag, and a dead tree gets no signal.
LEMMA KillerKeeps ==
    ASSUME TypeOK, IInv, NEW a \in Killers, KillerStep(a)
    PROVE  IInv'
<1> USE DEF IInv, GuardInv, QuietInv, HandleInv, ExitInv, FlagInv, NoLostCancel, NaturalMeansUntouched,
            Unlaunched, PastWait, KillPCs, EscalationPCs, Escalating, WasCancelled,
            treeVars, runVars, handleVars, drainVars, At
<1>1. CASE Probe(a)
  BY <1>1, ProbeKeeps, KillQuiets DEF Probe, TreeAlive, TypeOK, ESRCH
<1>2. CASE Fire(a)
  BY <1>2, FireKeeps
<1>3. Main \in Killers /\ Monitor \in Killers /\ Cancellers \subseteq Killers
  BY DEF Killers
<1>4. CASE SigtermGroup(a)
  <2>1. Reachable' = Reachable /\ HasExited' = HasExited
        /\ Reported("NaturalExit")' = Reported("NaturalExit")
    BY <1>4, Frame DEF SigtermGroup, SigTerm
  <2>2. CASE EPERM
    <3>1. Reachable = {} /\ termed' = termed
      BY <1>4, <2>2, KillQuiets DEF SigtermGroup, SigTerm, TypeOK
    <3> QED
      BY <1>4, <2>1, <2>2, <3>1, KillReturnsKeeps DEF SigtermGroup
  <2>3. CASE ~EPERM
    <3>1. /\ pc[a] = "escalate" /\ pc'[a] = "poll" /\ pc'[Waiter] = pc[Waiter] /\ lock' = lock
          /\ \A b \in Killers : b # a => pc'[b] = pc[b]
      BY <1>4, <2>3, GotoMoves, Distinct DEF SigtermGroup, TypeOK
    <3>2. Reported("NaturalExit") => Reachable = {}
      BY DEF Reported, HasExited
    <3>3. termed' = termed \union Reachable
      BY <1>4 DEF SigtermGroup, SigTerm
    <3>4. timed_out \/ WasCancelled \/ ret # "none"
      BY <3>1 DEF Killers
    <3>5. GuardInv' /\ QuietInv'
      BY <1>3, <1>4, <2>1, <3>1, <3>2, <3>3, <3>4, Distinct DEF SigtermGroup
    <3>6. HandleInv'
      BY <1>3, <1>4, <2>1, <3>1, <3>2, <3>3, <3>4, Distinct DEF SigtermGroup
    <3>7. ExitInv' /\ FlagInv'
      BY <1>3, <1>4, <2>1, <3>1, <3>2, <3>3, <3>4, Distinct DEF SigtermGroup
    <3>8. NoLostCancel' /\ NaturalMeansUntouched'
      BY <1>3, <1>4, <2>1, <3>1, <3>2, <3>3, <3>4, Distinct DEF SigtermGroup
    <3> QED
      BY <3>5, <3>6, <3>7, <3>8
  <2> QED
    BY <2>2, <2>3
<1>5. CASE Poll(a)
  <2>1. Reachable' = Reachable /\ HasExited' = HasExited
        /\ Reported("NaturalExit")' = Reported("NaturalExit")
    BY <1>5, Frame DEF Poll
  <2>2. CASE ~TreeAlive
    <3>1. Reachable = {}
      BY <2>2, KillQuiets DEF TreeAlive, TypeOK
    <3> QED
      BY <1>5, <2>1, <2>2, <3>1, KillReturnsKeeps DEF Poll
  <2>3. CASE TreeAlive
    <3>1. /\ pc[a] = "poll" /\ pc'[a] = "sigkill" /\ pc'[Waiter] = pc[Waiter] /\ lock' = lock
          /\ \A b \in Killers : b # a => pc'[b] = pc[b]
      BY <1>5, <2>3, GotoMoves, Distinct DEF Poll, TypeOK
    <3>2. GuardInv' /\ QuietInv'
      BY <1>3, <1>5, <2>1, <3>1, Distinct DEF Poll
    <3>3. HandleInv'
      BY <1>3, <1>5, <2>1, <3>1, Distinct DEF Poll
    <3>4. ExitInv' /\ FlagInv'
      BY <1>3, <1>5, <2>1, <3>1, Distinct DEF Poll
    <3>5. NoLostCancel' /\ NaturalMeansUntouched'
      BY <1>3, <1>5, <2>1, <3>1, Distinct DEF Poll
    <3> QED
      BY <3>2, <3>3, <3>4, <3>5
  <2> QED
    BY <2>2, <2>3
<1>6. CASE SigkillGroup(a)
  <2>1. Reachable' = {} /\ termed' = termed
    BY <1>6, KillQuiets DEF SigkillGroup, SigKill, TypeOK
  <2> QED
    BY <1>6, <2>1, KillReturnsKeeps DEF SigkillGroup
<1> QED
  BY <1>1, <1>2, <1>4, <1>5, <1>6 DEF KillerStep

\* Every step of the run and of its process tree keeps it.
LEMMA NextKeeps == TypeOK /\ IInv /\ [Next]_vars => IInv'
<1> SUFFICES ASSUME TypeOK, IInv, [Next]_vars PROVE IInv'
  OBVIOUS
<1>1. CASE UNCHANGED vars
  <2>1. /\ HasExited' = HasExited /\ Reachable' = Reachable
        /\ Reported("NaturalExit")' = Reported("NaturalExit")
    BY <1>1, Frame DEF vars, treeVars, runVars
  <2> QED
    BY <1>1, <2>1
    DEF vars, treeVars, runVars, handleVars, drainVars, At, IInv, GuardInv, QuietInv, HandleInv, ExitInv, FlagInv, NoLostCancel, NaturalMeansUntouched,
        Unlaunched, PastWait, KillPCs, EscalationPCs, Escalating, WasCancelled
<1>2. CASE Next
  BY <1>2, BackendKeeps, KillerKeeps, RunStepKeeps, ThreadStepsKeep, TreeMovesKeep
  DEF Next, MainStep, WaiterStep
<1> QED
  BY <1>1, <1>2

\* The inductive invariant holds throughout every run.
LEMMA Invariance == Spec => [](TypeOK /\ IInv)
<1>1. Init => TypeOK /\ IInv
  BY InitTyped, InitHolds
<1>2. (TypeOK /\ IInv) /\ [Next]_vars => (TypeOK /\ IInv)'
  BY NextTyped, NextKeeps
<1> QED
  BY <1>1, <1>2, PTL DEF Spec

\* However many descendants the tree grows and however the threads interleave,
\* when run() has returned no reachable process of the group is running:
\* kill_escalating, wait()'s killpg and the guard cover every path.
THEOREM LeavesNoOrphans == Spec => []NoOrphans
<1>1. TypeOK /\ IInv => NoOrphans
  BY DEF IInv, QuietInv, NoOrphans, At
<1> QED
  BY <1>1, Invariance, PTL

\* With any number of concurrent cancel() calls, a cancel is carried out by
\* the call itself or by the wiring block, unless there is nothing to kill.
THEOREM LosesNoCancel == Spec => []NoLostCancel
<1>1. TypeOK /\ IInv => NoLostCancel
  BY DEF IInv
<1> QED
  BY <1>1, Invariance, PTL

\* A run that reports NaturalExit sent no process of the tree a SIGTERM.
THEOREM NaturalIsUntouched == Spec => []NaturalMeansUntouched
<1>1. TypeOK /\ IInv => NaturalMeansUntouched
  BY DEF IInv
<1> QED
  BY <1>1, Invariance, PTL

\* After Exited no cancel() is between taking the kill handle and the end of
\* its kill: the mutex and the clearing of the handle order the two.
THEOREM NoLateCancelKill == Spec => []NoCancelKillAfterExited
<1>1. TypeOK /\ IInv => NoCancelKillAfterExited
  BY DEF IInv, ExitInv, HandleInv, NoCancelKillAfterExited
<1> QED
  BY <1>1, Invariance, PTL

-----------------------------------------------------------------------------
(* The root: who reaps it, and what it is sent first. *)

\* There is no root before the spawn, nobody waits for it twice, and where
\* wait() has returned or run_impl is past it the root is reaped.
RootInv ==
    /\ pc[Main] \in Unlaunched => proc[Root] = "none" /\ At(Monitor, "off")
    /\ pc[Waiter] \in {"killpg", "join", "done"} => proc[Root] = "gone"
    /\ pc[Main] \in PastWait => proc[Root] = "gone"
    /\ RootReaped

\* A kill past its SIGTERM delivered it to the root, unless the root did not
\* run then or had changed its credentials; neither is ever undone.
TermInv ==
    \A a \in Killers :
        pc[a] \in {"poll", "sigkill"} =>
            Root \in termed \/ Root \in suid \/ proc[Root] # "running"

\* What a step of kill_escalating or of the probe before it does.
LEMMA KillerMoves ==
    ASSUME TypeOK, NEW a \in Killers, KillerStep(a)
    PROVE  /\ pc[a] \in EscalationPCs
           /\ pc'[a] \in {"fire", "escalate", "poll", "sigkill", AfterKill(a)}
           /\ pc'[a] = "fire" => At(a, "probe")
           /\ pc'[a] = "escalate" => At(a, "fire")
           /\ pc'[a] = "poll" => At(a, "escalate") /\ SigTerm
           /\ pc'[a] = "sigkill" => At(a, "poll") /\ UNCHANGED treeVars
           /\ \A u \in Threads : u # a => pc'[u] = pc[u]
           /\ \/ UNCHANGED <<proc, termed>>
              \/ At(a, "escalate") /\ SigTerm
              \/ At(a, "sigkill") /\ SigKill
           /\ UNCHANGED <<suid, status, holds, pipe, cfg, runVars, cancelled, kill, wait_res, drainVars>>
           /\ \/ UNCHANGED <<kill_fired, timed_out>>
              \/ At(a, "fire") /\ IF a = Monitor THEN timed_out' = TRUE /\ UNCHANGED kill_fired
                                                 ELSE kill_fired' = TRUE /\ UNCHANGED timed_out
<1> USE DEF At, EscalationPCs, treeVars, runVars, handleVars, drainVars
<1>1. a \in Threads /\ AfterKill(a) \in {"monitor", "reap", "done"}
  BY Distinct DEF AfterKill
<1>2. CASE Probe(a)
  BY <1>1, <1>2, GotoMoves DEF Probe, ProbeTree, KillReturns, TypeOK
<1>3. CASE Fire(a)
  BY <1>1, <1>3, GotoMoves DEF Fire, TypeOK
<1>4. CASE SigtermGroup(a)
  BY <1>1, <1>4, GotoMoves DEF SigtermGroup, SigTerm, KillReturns, TypeOK
<1>5. CASE Poll(a)
  BY <1>1, <1>5, GotoMoves DEF Poll, KillReturns, TypeOK
<1>6. CASE SigkillGroup(a)
  BY <1>1, <1>6, GotoMoves DEF SigkillGroup, SigKill, KillReturns, TypeOK
<1> QED
  BY <1>2, <1>3, <1>4, <1>5, <1>6 DEF KillerStep

\* Where a killer's step leaves the caller's and the waiting thread.
LEMMA KillerLeads ==
    ASSUME TypeOK, NEW a \in Killers, KillerStep(a)
    PROVE  /\ pc'[Waiter] = pc[Waiter]
           /\ \/ pc'[Main] = pc[Main]
              \/ pc[Main] \in EscalationPCs /\ pc'[Main] \in EscalationPCs \union {AfterKill(Main)}
<1>1. CASE a = Main
  BY <1>1, KillerMoves, Distinct DEF EscalationPCs
<1>2. CASE a # Main
  BY <1>2, KillerMoves, Distinct
<1> QED
  BY <1>1, <1>2

\* Every step keeps what is known of the root.
LEMMA RootKeeps == TypeOK /\ IInv /\ RootInv /\ [Next]_vars => RootInv'
<1> SUFFICES ASSUME TypeOK, IInv, RootInv, [Next]_vars PROVE RootInv'
  OBVIOUS
<1> USE DEF RootInv, RootReaped, At, Unlaunched, PastWait, treeVars
<1>r. Root \in Procs /\ Root \in DOMAIN proc
  BY DEF Procs, TypeOK, TreeTypeOK
<1>1. CASE Spawn
  <2>1. /\ pc'[Main] = "started" /\ pc'[Monitor] = pc[Monitor] /\ pc'[Waiter] = pc[Waiter]
    BY <1>1, MainMoves DEF Spawn
  <2> QED
    BY <1>1, <2>1 DEF Spawn, IInv, QuietInv
<1>2. CASE SpawnFails
  <2>1. /\ pc'[Main] = "returned" /\ pc'[Monitor] = pc[Monitor] /\ pc'[Waiter] = pc[Waiter]
    BY <1>2, MainMoves DEF SpawnFails
  <2> QED
    BY <1>2, <2>1 DEF SpawnFails
<1>3. CASE RunStep
  BY <1>3, RunStepMoves
<1>4. CASE ReapAbandoned
  <2>1. /\ pc'[Main] = "returned" /\ pc'[Monitor] = pc[Monitor] /\ pc'[Waiter] = pc[Waiter]
    BY <1>4, MainMoves DEF ReapAbandoned
  <2> QED
    BY <1>4, <1>r, <2>1 DEF ReapAbandoned, Waitpid
<1>5. CASE \/ MonitorStep \/ StartDrains \/ JoinDrains
           \/ \E c \in Cancellers : CancelStep(c)
           \/ \E s \in Streams : DrainStep(s)
  BY <1>5, ThreadStepsMove
<1>6. CASE ChildWait
  <2>1. pc'[Waiter] = "killpg" /\ pc'[Main] = pc[Main] /\ pc'[Monitor] = pc[Monitor]
    BY <1>6, GotoMoves, Distinct DEF ChildWait, TypeOK
  <2>2. proc'[Root] = "gone" /\ proc[Root] # "none"
    BY <1>6, <1>r DEF ChildWait, Waitpid, WaitpidReady
  <2> QED
    BY <2>1, <2>2
<1>7. CASE KillGroup
  <2>1. /\ pc[Waiter] = "killpg" /\ pc'[Waiter] = "join"
        /\ pc'[Main] = pc[Main] /\ pc'[Monitor] = pc[Monitor]
    BY <1>7, GotoMoves, Distinct DEF KillGroup, TypeOK
  <2>2. proc'[Root] = proc[Root]
    BY <1>7, <1>r, <2>1 DEF KillGroup, SigKill, Reachable
  <2> QED
    BY <2>1, <2>2
<1>8. ASSUME NEW a \in Killers, KillerStep(a) PROVE RootInv'
  <2>1. proc[Root] \in {"none", "gone"} => proc'[Root] = proc[Root]
    BY <1>8, <1>r, KillerMoves DEF SigTerm, SigKill, Reachable
  <2>2. /\ pc'[Waiter] = pc[Waiter] /\ (At(Monitor, "off") => pc'[Monitor] = "off")
        /\ pc'[Main] = pc[Main] \/ pc'[Main] \notin PastWait \union Unlaunched \union {"returned"}
    <3>1. CASE a = Main
      <4>1. AfterKill(a) \in {"monitor", "reap"}
        BY <3>1 DEF AfterKill
      <4> QED
        BY <1>8, <3>1, <4>1, KillerMoves, Distinct
    <3>2. CASE a # Main
      BY <1>8, <3>2, KillerMoves, Distinct DEF EscalationPCs
    <3> QED
      BY <3>1, <3>2
  <2> QED
    BY <2>1, <2>2
<1>9. CASE TreeMoves
  BY <1>9, RootStays DEF TreeMoves, ChildWrites, TypeOK
<1>10. CASE \E p \in Procs, s \in Streams : WriterDies(p, s)
  BY <1>10, RootStays DEF WriterDies, TypeOK
<1>11. CASE Done \/ UNCHANGED vars
  BY <1>11 DEF Done, vars
<1> QED
  BY <1>1, <1>2, <1>3, <1>4, <1>5, <1>6, <1>7, <1>8, <1>9, <1>10, <1>11
  DEF Next, MainStep, WaiterStep

\* Every step keeps what is known of the SIGTERM to the root.
LEMMA TermKeeps == TypeOK /\ IInv /\ RootInv /\ TermInv /\ [Next]_vars => TermInv'
<1> SUFFICES ASSUME TypeOK, IInv, RootInv, TermInv, [Next]_vars,
                    NEW a \in Killers, pc'[a] \in {"poll", "sigkill"}
             PROVE  (Root \in termed \/ Root \in suid \/ proc[Root] # "running")'
  BY DEF TermInv
<1> USE DEF At, treeVars
<1>r. Root \in Procs /\ Root \in DOMAIN proc
  BY DEF Procs, TypeOK, TreeTypeOK
<1>k. a \in Threads /\ a # Waiter /\ (a = Main \/ a = Monitor \/ a \in Cancellers)
  BY Distinct DEF Killers
<1>0. ASSUME pc'[a] = pc[a], proc'[Root] = "running" => proc[Root] = "running",
             suid \subseteq suid', termed \subseteq termed'
      PROVE  (Root \in termed \/ Root \in suid \/ proc[Root] # "running")'
  BY <1>0 DEF TermInv
<1>1. CASE Spawn
  <2>1. /\ pc'[Main] = "started" /\ pc'[Monitor] = pc[Monitor]
        /\ \A c \in Cancellers : pc'[c] = pc[c]
    BY <1>1, MainMoves DEF Spawn
  <2> QED
    BY <1>1, <1>k, <2>1 DEF Spawn, RootInv, Unlaunched, IInv, HandleInv, Escalating, EscalationPCs
<1>2. CASE SpawnFails
  BY <1>0, <1>2, <1>k, MainMoves DEF SpawnFails
<1>3. CASE RunStep
  <2>1. a # Main /\ pc'[a] = pc[a]
    BY <1>3, <1>k, RunStepMoves
  <2> QED
    BY <1>0, <1>3, <2>1, RunStepMoves
<1>4. CASE ReapAbandoned \/ ChildWait
  <2>1. pc'[a] = pc[a]
    BY <1>4, <1>k, GotoMoves, Distinct DEF ReapAbandoned, ChildWait, TypeOK
  <2>2. UNCHANGED <<suid, termed>> /\ proc'[Root] = "gone"
    BY <1>4, <1>r DEF ReapAbandoned, ChildWait, Waitpid
  <2> QED
    BY <1>0, <2>1, <2>2
<1>5. CASE \/ MonitorStep \/ StartDrains \/ JoinDrains
           \/ \E c \in Cancellers : CancelStep(c)
           \/ \E s \in Streams : DrainStep(s)
  <2>1. pc'[a] = pc[a]
    BY <1>5, <1>k, ThreadStepsMove
  <2> QED
    BY <1>0, <1>5, <2>1, ThreadStepsMove
<1>6. CASE KillGroup
  <2>1. pc'[a] = pc[a]
    BY <1>6, <1>k, GotoMoves, Distinct DEF KillGroup, TypeOK
  <2> QED
    BY <1>0, <1>6, <1>r, <2>1 DEF KillGroup, SigKill
<1>7. ASSUME NEW b \in Killers, KillerStep(b)
      PROVE  (Root \in termed \/ Root \in suid \/ proc[Root] # "running")'
  <2>1. /\ proc'[Root] = "running" => proc[Root] = "running"
        /\ suid \subseteq suid' /\ termed \subseteq termed'
    BY <1>7, <1>r, KillerMoves DEF SigTerm, SigKill
  <2>2. CASE pc'[a] = pc[a]
    BY <1>0, <2>1, <2>2
  <2>3. CASE pc'[a] # pc[a]
    <3>1. a = b
      BY <1>7, <1>k, <2>3, KillerMoves
    <3>2. CASE pc'[a] = "poll"
      BY <1>7, <1>r, <3>1, <3>2, KillerMoves DEF SigTerm, Reachable, Group
    <3>3. CASE pc'[a] = "sigkill"
      BY <1>7, <2>1, <3>1, <3>3, KillerMoves DEF TermInv
    <3> QED
      BY <3>2, <3>3
  <2> QED
    BY <2>2, <2>3
<1>8. CASE TreeMoves
  BY <1>0, <1>8, RootStays DEF TreeMoves, ChildWrites, TypeOK
<1>9. CASE \E p \in Procs, s \in Streams : WriterDies(p, s)
  BY <1>0, <1>9, RootStays DEF WriterDies, TypeOK
<1>10. CASE Done \/ UNCHANGED vars
  BY <1>0, <1>10 DEF Done, vars
<1> QED
  BY <1>1, <1>2, <1>3, <1>4, <1>5, <1>6, <1>7, <1>8, <1>9, <1>10
  DEF Next, MainStep, WaiterStep

\* Both hold from the start.
LEMMA RootInvariance == Spec => [](RootInv /\ TermInv)
<1>1. Init => RootInv /\ TermInv
  <2> SUFFICES ASSUME Init PROVE RootInv /\ TermInv
    OBVIOUS
  <2>1. /\ pc[Main] = "idle" /\ pc[Monitor] = "off" /\ pc[Waiter] = "off"
        /\ \A c \in Cancellers : pc[c] = "idle"
    BY Distinct DEF Init
  <2>2. proc[Root] = "none"
    BY DEF Init, TreeInit, Procs
  <2> QED
    BY <2>1, <2>2 DEF RootInv, RootReaped, TermInv, At, Unlaunched, PastWait, Killers
<1>2. (TypeOK /\ IInv) /\ (RootInv /\ TermInv) /\ [Next]_vars => (RootInv /\ TermInv)'
  BY RootKeeps, TermKeeps
<1> QED
  BY <1>1, <1>2, Invariance, PTL DEF Spec

\* On no path is the root left as a zombie: when run() has returned, wait(),
\* reap_abandoned() or the host has collected it, or it was never created.
THEOREM ReapsTheRoot == Spec => []RootReaped
<1>1. RootInv /\ TermInv => RootReaped
  BY DEF RootInv
<1> QED
  BY <1>1, RootInvariance, PTL

\* However many escalations overlap, and whatever wait()'s own killpg does
\* meanwhile, no SIGKILL reaches a running root that had no SIGTERM before.
THEOREM TermsTheRootFirst == Spec => RootTermedFirst
<1>1. /\ TypeOK /\ IInv /\ RootInv /\ TermInv /\ [Next]_vars
      => [proc[Root] = "running" /\ proc'[Root] = "dying" => Root \in termed]_vars
  <2> SUFFICES ASSUME TypeOK, IInv, RootInv, TermInv, Next,
                      proc[Root] = "running", proc'[Root] = "dying"
               PROVE  Root \in termed
    OBVIOUS
  <2> USE DEF At, treeVars
  <2>r. Root \in Procs /\ Root \in DOMAIN proc
    BY DEF Procs, TypeOK, TreeTypeOK
  <2>1. ASSUME NEW a \in Killers, KillerStep(a) PROVE Root \in termed
    BY <2>1, <2>r, KillerMoves DEF TermInv, SigTerm, SigKill, Reachable, Group
  <2>2. CASE Spawn \/ ReapAbandoned \/ ChildWait
    BY <2>2, <2>r DEF Spawn, CreateRoot, ReapAbandoned, ChildWait, Waitpid
  <2>3. CASE KillGroup
    BY <2>3 DEF KillGroup, RootInv
  <2>4. CASE SpawnFails \/ Done
    BY <2>4 DEF SpawnFails, Done, vars
  <2>5. CASE RunStep
    BY <2>5, RunStepMoves
  <2>6. CASE \/ MonitorStep \/ StartDrains \/ JoinDrains
             \/ \E c \in Cancellers : CancelStep(c)
             \/ \E s \in Streams : DrainStep(s)
    BY <2>6, ThreadStepsMove
  <2>7. CASE TreeMoves
    BY <2>7, RootStays DEF TreeMoves, ChildWrites, TypeOK
  <2>8. CASE \E p \in Procs, s \in Streams : WriterDies(p, s)
    BY <2>8, RootStays DEF WriterDies, TypeOK
  <2> QED
    BY <2>1, <2>2, <2>3, <2>4, <2>5, <2>6, <2>7, <2>8 DEF Next, MainStep, WaiterStep
<1> QED
  BY <1>1, Invariance, RootInvariance, PTL DEF Spec, RootTermedFirst

-----------------------------------------------------------------------------
(* A handle that carried out its cancel in an earlier run. *)

\* No cancel() gets past its swap and the wiring block finds the kill done;
\* the caller's thread kills only for an early return, whose result is no
\* Cancelled.
SpentInv ==
    /\ pc[Main] \in KillPCs \union {"reap"} => ret # "Cancelled"
    /\ cfg.spent =>
        /\ WasCancelled /\ cancelled
        /\ \A c \in Cancellers : pc[c] \in {"idle", "done"}
        /\ pc[Main] \notin {"probe", "fire"}
        /\ pc[Main] \in KillPCs => ret # "none"
    /\ SpentHandleIsInert

\* Every step keeps it.
LEMMA SpentKeeps == TypeOK /\ IInv /\ SpentInv /\ [Next]_vars => SpentInv'
<1> SUFFICES ASSUME TypeOK, IInv, SpentInv, [Next]_vars PROVE SpentInv'
  OBVIOUS
<1> USE DEF SpentInv, SpentHandleIsInert, WasCancelled, KillPCs, At, treeVars, runVars, handleVars
<1>0. ASSUME UNCHANGED <<cfg, ret, events, timed_out, kill_fired, cancelled, termed>>,
             pc'[Main] = pc[Main] \/ pc'[Main] \in {"returned"},
             \A c \in Cancellers : pc'[c] = pc[c]
      PROVE  SpentInv'
  BY <1>0, Frame
<1>1. CASE Spawn
  BY <1>1, MainMoves, Frame DEF Spawn, CreateRoot
<1>2. CASE SpawnFails
  <2>1. ret = "none" /\ ret' = "SpawnFailed" /\ pc'[Main] = "returned" /\ \A c \in Cancellers : pc'[c] = pc[c]
    BY <1>2, MainMoves DEF SpawnFails, IInv, GuardInv
  <2> QED
    BY <1>2, <2>1, Frame DEF SpawnFails
<1>3. CASE RunStep
  <2>1. ret = "none"
    BY <1>3, RunStepMoves DEF IInv, GuardInv, EscalationPCs
  <2> QED
    BY <1>3, <2>1, RunStepMoves
<1>4. CASE ReapAbandoned \/ ChildWait \/ KillGroup
  <2>1. /\ pc'[Main] = pc[Main] \/ pc'[Main] \in {"returned"}
        /\ \A c \in Cancellers : pc'[c] = pc[c]
    BY <1>4, GotoMoves, Distinct DEF ReapAbandoned, ChildWait, KillGroup, TypeOK
  <2> QED
    BY <1>0, <1>4, <2>1 DEF ReapAbandoned, ChildWait, KillGroup, Waitpid, SigKill
<1>5. CASE \/ MonitorStep \/ StartDrains \/ JoinDrains
           \/ \E c \in Cancellers : CancelStep(c)
           \/ \E s \in Streams : DrainStep(s)
  BY <1>5, ThreadStepsMove, Frame
<1>6. ASSUME NEW a \in Killers, KillerStep(a) PROVE SpentInv'
  <2>1. CASE a = Main
    <3>1. /\ AfterKill(a) \in {"monitor", "reap"} /\ (ret # "none" => AfterKill(a) = "reap")
          /\ \A c \in Cancellers : pc'[c] = pc[c]
      BY <1>6, <2>1, KillerMoves, Distinct DEF AfterKill
    <3>2. cfg.spent /\ ret = "none" => pc[Main] \notin EscalationPCs
      BY DEF EscalationPCs
    <3>3. pc[Main] \in {"probe", "fire"} => ret = "none"
      BY DEF IInv, GuardInv
    <3> QED
      BY <1>6, <2>1, <3>1, <3>2, <3>3, KillerMoves, Frame DEF EscalationPCs
  <2>2. CASE a = Monitor
    <3>1. pc'[Main] = pc[Main] /\ \A c \in Cancellers : pc'[c] = pc[c]
      BY <1>6, <2>2, KillerMoves, Distinct
    <3>2. termed' # termed => timed_out
      BY <1>6, <2>2, KillerMoves DEF SigTerm, SigKill, IInv, FlagInv
    <3> QED
      BY <1>6, <2>2, <3>1, <3>2, KillerMoves, Frame
  <2>3. CASE a \in Cancellers
    <3>1. pc'[Main] = pc[Main] /\ ~cfg.spent
      BY <1>6, <2>3, KillerMoves, Distinct DEF EscalationPCs
    <3> QED
      BY <1>6, <2>3, <3>1, KillerMoves
  <2> QED
    BY <2>1, <2>2, <2>3 DEF Killers
<1>7. CASE TreeMoves \/ \E p \in Procs, s \in Streams : WriterDies(p, s)
  <2>1. termed' = termed
    BY <1>7, RootStays DEF TreeMoves, ChildWrites, WriterDies, TypeOK
  <2> QED
    BY <1>0, <1>7, <2>1 DEF TreeMoves, WriterDies
<1>8. CASE Done \/ UNCHANGED vars
  BY <1>0, <1>8 DEF Done, vars
<1> QED
  BY <1>1, <1>2, <1>3, <1>4, <1>5, <1>6, <1>7, <1>8
  DEF Next, MainStep, WaiterStep

\* A handle whose kill fired in an earlier run signals nothing in this one,
\* with any number of further cancel() calls: only the timeout and the guard
\* of an early return do.
THEOREM SpentHandleKillsNothing == Spec => []SpentHandleIsInert
<1>1. Init => SpentInv
  <2> SUFFICES ASSUME Init PROVE SpentInv
    OBVIOUS
  <2>1. pc[Main] = "idle" /\ \A c \in Cancellers : pc[c] = "idle"
    BY Distinct DEF Init
  <2>2. cfg.spent => cfg.cancel
    BY ConfigAssumption DEF Init, Config
  <2>3. termed = {}
    BY DEF Init, TreeInit
  <2> QED
    BY <2>1, <2>2, <2>3 DEF Init, SpentInv, SpentHandleIsInert, WasCancelled, KillPCs
<1>2. (TypeOK /\ IInv) /\ SpentInv /\ [Next]_vars => SpentInv'
  BY SpentKeeps
<1>3. SpentInv => SpentHandleIsInert
  BY DEF SpentInv
<1> QED
  BY <1>1, <1>2, <1>3, Invariance, PTL DEF Spec

-----------------------------------------------------------------------------
(* The output of a run. *)

\* The calls of unix.rs leave the drain threads and the channel alone.
LEMMA BackendDrains ==
    ASSUME TypeOK, IInv, IInv', DrainInv
    PROVE  /\ Spawn => DrainInv'
           /\ ReapAbandoned \/ ChildWait \/ KillGroup => DrainInv'
           /\ \A p \in Procs, s \in Streams : WriterDies(p, s) => DrainInv'
           /\ \A a \in Killers : KillerStep(a) => DrainInv'
<1> USE DEF At, treeVars, runVars, handleVars, drainVars
<1>e. UNCHANGED <<pipe, holds>> => \A s \in Streams : EOF(s) => EOF(s)'
  BY DEF EOF
<1>p. /\ pc[Main] \in {"probe", "fire"} => ret = "none"
      /\ pc'[Main] \in {"probe", "fire"} => ret' = "none"
  BY DEF IInv, GuardInv, KillPCs
<1>1. ASSUME Spawn PROVE DrainInv'
  <2>1. pc'[Main] = "started" /\ pc'[Waiter] = pc[Waiter] /\ HasExited' = HasExited
    BY <1>1, MainMoves, Frame DEF Spawn
  <2> QED
    BY <1>1, <2>1 DEF Spawn, DrainInv, Unlaunched, BeforeWait, PastWait, KillPCs, SendersDropped
<1>2. ASSUME ReapAbandoned PROVE DrainInv'
  <2>1. pc'[Main] = "returned" /\ pc'[Waiter] = pc[Waiter]
    BY <1>2, MainMoves DEF ReapAbandoned
  <2> QED
    BY <1>2, <1>e, <1>p, <2>1, DrainFrame DEF ReapAbandoned, Waitpid
<1>3. ASSUME ChildWait \/ KillGroup PROVE DrainInv'
  <2>1. /\ pc[Waiter] \in {"waitpid", "killpg"} /\ pc'[Waiter] \in {"killpg", "join"}
        /\ pc'[Main] = pc[Main]
    BY <1>3, GotoMoves, Distinct DEF ChildWait, KillGroup, TypeOK
  <2>2. HasExited' = HasExited /\ UNCHANGED <<pipe, holds, drain, chan, cfg, ret>>
    BY <1>3, Frame DEF ChildWait, KillGroup, Waitpid, SigKill
  <2> QED
    BY <1>e, <2>1, <2>2
    DEF DrainInv, Unlaunched, BeforeWait, PastWait, KillPCs, SendersDropped
<1>4. ASSUME NEW p \in Procs, NEW s \in Streams, WriterDies(p, s) PROVE DrainInv'
  <2>1. \A r \in Streams : EOF(r) => EOF(r)'
    BY <1>4, EOFStable DEF WriterDies, TypeOK
  <2> QED
    BY <1>4, <1>p, <2>1, DrainFrame DEF WriterDies
<1>5. ASSUME NEW a \in Killers, KillerStep(a) PROVE DrainInv'
  <2>1. /\ pc'[Waiter] = pc[Waiter]
        /\ \/ pc'[Main] = pc[Main]
           \/ pc[Main] \in EscalationPCs /\ pc'[Main] \in EscalationPCs \union {AfterKill(Main)}
    BY <1>5, KillerLeads
  <2>2. UNCHANGED <<events, cfg, ret, chan, drain, wait_res, pipe, holds>>
    BY <1>5, KillerMoves
  <2> QED
    BY <1>e, <1>p, <2>1, <2>2, DrainFrame
<1> QED
  BY <1>1, <1>2, <1>3, <1>4, <1>5

\* Every step keeps both parts.
LEMMA OutputInvariance == Spec => [](DrainInv /\ LogInv)
<1>1. TypeOK /\ IInv /\ IInv' /\ DrainInv /\ [Next]_vars => DrainInv'
  BY BackendDrains, RunStepDrains, ThreadStepsDrain DEF Next, MainStep, WaiterStep
<1>2. ASSUME TypeOK, LogInv, Spawn \/ ReapAbandoned \/ ChildWait \/ KillGroup PROVE LogInv'
  BY <1>2, LogFrame DEF Spawn, ReapAbandoned, ChildWait, KillGroup, runVars, drainVars
<1>3. ASSUME TypeOK, LogInv, NEW p \in Procs, NEW s \in Streams, WriterDies(p, s) PROVE LogInv'
  BY <1>3, LogFrame DEF WriterDies, runVars, drainVars
<1>4. ASSUME TypeOK, LogInv, NEW a \in Killers, KillerStep(a) PROVE LogInv'
  BY <1>4, LogFrame, KillerMoves DEF runVars, drainVars
<1>5. TypeOK /\ IInv /\ DrainInv /\ LogInv /\ [Next]_vars => LogInv'
  BY <1>2, <1>3, <1>4, RunStepLog, ThreadStepsLog DEF Next, MainStep, WaiterStep
<1> QED
  BY <1>1, <1>5, OutputInit, Invariance, PTL DEF Spec

\* The chunks of a stream are numbered from 0 without gap, repetition or
\* inversion, whatever the two drain threads, a failing read, a panic in the
\* callback and the receiver do.
THEOREM NumbersChunks == Spec => []ChunksInOrder
<1>1. TypeOK /\ IInv /\ DrainInv /\ LogInv => ChunksInOrder
  BY OutputFollows
<1> QED
  BY <1>1, Invariance, OutputInvariance, PTL

\* When Exited is emitted every chunk that was read has been delivered, and
\* each pipe is at end of file unless its own drain failed.
THEOREM DeliversAllOutput == Spec => []OutputComplete
<1>1. TypeOK /\ IInv /\ DrainInv /\ LogInv => OutputComplete
  BY OutputFollows
<1> QED
  BY <1>1, Invariance, OutputInvariance, PTL

-----------------------------------------------------------------------------
(* The contract of run(). *)

\* Every step keeps what is known of the events and of the result.
LEMMA EmitKeeps == TypeOK /\ IInv /\ IInv' /\ EmitInv /\ [Next]_vars => EmitInv'
<1> SUFFICES ASSUME TypeOK, IInv, IInv', EmitInv, [Next]_vars PROVE EmitInv'
  OBVIOUS
<1> USE DEF At, runVars
<1>1. CASE Spawn
  BY <1>1, MainMoves, EmitFrame DEF Spawn, Unlaunched
<1>2. CASE SpawnFails
  BY <1>2, MainMoves DEF SpawnFails, EmitInv, Unlaunched, KillPCs
<1>3. CASE RunStep
  BY <1>3, RunStepEmits
<1>4. CASE ReapAbandoned
  BY <1>4, MainMoves, EmitFrame DEF ReapAbandoned
<1>5. CASE ChildWait \/ KillGroup
  <2>1. pc'[Main] = pc[Main]
    BY <1>5, GotoMoves, Distinct DEF ChildWait, KillGroup, TypeOK
  <2> QED
    BY <1>5, <2>1, EmitFrame DEF ChildWait, KillGroup
<1>6. CASE \/ MonitorStep \/ StartDrains \/ JoinDrains
           \/ \E c \in Cancellers : CancelStep(c)
           \/ \E s \in Streams : DrainStep(s)
  BY <1>6, ThreadStepsMove, EmitFrame
<1>7. ASSUME NEW a \in Killers, KillerStep(a) PROVE EmitInv'
  BY <1>7, KillerMoves, KillerLeads, EmitFrame
<1>8. CASE TreeMoves \/ \E p \in Procs, s \in Streams : WriterDies(p, s)
  BY <1>8, EmitFrame DEF TreeMoves, WriterDies
<1>9. CASE Done \/ UNCHANGED vars
  BY <1>9, EmitFrame DEF Done, vars
<1> QED
  BY <1>1, <1>2, <1>3, <1>4, <1>5, <1>6, <1>7, <1>8, <1>9 DEF Next, MainStep, WaiterStep

\* Every step is a step of the contract or leaves what it speaks of alone.
LEMMA StepKeepsContract ==
    TypeOK /\ IInv /\ DrainInv /\ LogInv /\ EmitInv /\ [Next]_vars => ContractStep
<1> SUFFICES ASSUME TypeOK, IInv, DrainInv, LogInv, EmitInv, [Next]_vars PROVE ContractStep
  OBVIOUS
<1> USE DEF At, treeVars, runVars
<1>w. ASSUME Waitpid PROVE Reachable' \subseteq Reachable
  BY <1>w DEF Waitpid, WaitpidReady, Reachable, Group, TypeOK, TreeTypeOK
<1>k. ASSUME SigKill PROVE Reachable' = {}
  BY <1>k, KillQuiets DEF TypeOK
<1>1. CASE Spawn
  BY <1>1, MainMoves, ContractSpawn DEF Spawn, Unlaunched
<1>2. CASE RunStep
  BY <1>2, RunStepContract
<1>3. CASE ReapAbandoned
  BY <1>3, <1>w, MainMoves, ContractAbort DEF ReapAbandoned
<1>4. CASE ChildWait \/ KillGroup
  <2>1. pc'[Main] = pc[Main]
    BY <1>4, GotoMoves, Distinct DEF ChildWait, KillGroup, TypeOK
  <2> QED
    BY <1>4, <1>w, <1>k, <2>1, ContractFrame DEF ChildWait, KillGroup
<1>5. ASSUME NEW a \in Killers, KillerStep(a) PROVE ContractStep
  <2>1. Reachable = {} => Reachable' = {}
    BY <1>5, <1>k, KillerMoves, Frame DEF SigTerm
  <2>2. AfterKill(Main) \in {"monitor", "reap"}
    BY DEF AfterKill
  <2>3. UNCHANGED <<events, ret>>
    BY <1>5, KillerMoves
  <2>4. \/ pc'[Main] = pc[Main]
        \/ {pc[Main], pc'[Main]} \intersect (Unlaunched \union {"returned"}) = {}
    BY <1>5, <2>2, KillerLeads DEF EscalationPCs, Unlaunched
  <2> QED
    BY <2>1, <2>3, <2>4, ContractFrame
<1>6. CASE \E p \in Procs, s \in Streams : WriterDies(p, s)
  <2>1. Reachable = {} => Reachable' = {}
    BY <1>6, QuietStable DEF WriterDies, TypeOK
  <2> QED
    BY <1>6, <2>1, ContractFrame DEF WriterDies
<1>7. CASE UNCHANGED vars
  BY <1>7, Frame, ContractFrame DEF vars
<1> QED
  BY <1>1, <1>2, <1>3, <1>4, <1>5, <1>6, <1>7, ThreadStepsContract DEF Next, MainStep, WaiterStep

\* A run on Unix is a run of RunContract, for every tree, every number of
\* cancellers and every configuration: Started, numbered chunks, Exited only
\* with nothing live, a result that follows from the reason, nothing live
\* after an early return, and no process comes alive in a dead tree.
THEOREM RefinesContract == Spec => KeepsContract
<1>1. Init => Contract!Init
  BY ContractInit
<1>2. Init => EmitInv
  BY ContractInit
<1>3. TypeOK /\ IInv /\ IInv' /\ EmitInv /\ [Next]_vars => EmitInv'
  BY EmitKeeps
<1>4. TypeOK /\ IInv /\ DrainInv /\ LogInv /\ EmitInv /\ [Next]_vars
        => [Contract!Next]_(Contract!contractVars)
  BY StepKeepsContract DEF ContractStep
<1> QED
  BY <1>1, <1>2, <1>3, <1>4, Invariance, OutputInvariance, PTL DEF Spec, KeepsContract, Contract!Spec
=============================================================================
