---------------------------- MODULE TaskRunProofs ----------------------------
(***************************************************************************)
(* The steps of a run that do not depend on the platform keep the types    *)
(* and the inductive invariant of TaskRun.  UnixTaskProofs and             *)
(* WindowsTaskProofs add the steps of the two backends.                    *)
(***************************************************************************)
EXTENDS TaskRun, ProcessTreeProofs, FiniteSetTheorems, FunctionTheorems

\* Moving one thread along its own code keeps every thread in its own code.
LEMMA GotoTyped ==
    ASSUME ThreadTypeOK, NEW t \in Threads, NEW l, Goto(t, l),
           t = Main => l \in MainPCs, t = Monitor => l \in MonitorPCs,
           t = Waiter => l \in WaiterPCs, t \in Cancellers => l \in CancelPCs
    PROVE  ThreadTypeOK'
BY ThreadAssumption DEF ThreadTypeOK, Goto, Threads

\* What a jump does: t is at l, the others have not moved.
LEMMA GotoMoves ==
    ASSUME ThreadTypeOK, NEW t \in Threads, NEW l, Goto(t, l)
    PROVE  pc'[t] = l /\ \A u \in Threads : u # t => pc'[u] = pc[u]
BY DEF ThreadTypeOK, Goto

\* A run begins in its types.
LEMMA InitTyped == Init => TypeOK
<1> SUFFICES ASSUME Init PROVE TypeOK
  OBVIOUS
<1>1. TreeTypeOK
  BY PipeAssumption DEF Init, TreeInit, TreeTypeOK, ProcStates, Killed
<1>2. ThreadTypeOK
  BY ThreadAssumption
  DEF Init, ThreadTypeOK, Threads, MainPCs, MonitorPCs, CancelPCs, WaiterPCs
<1>3. events \in Seq(Events) /\ chan \in Seq(Chunks)
  BY DEF Init
<1>4. drain \in [Streams -> {"off", "running", "done", "failed"}] /\ seq \in [Streams -> Nat]
  BY DEF Init
<1>5. cfg \in Config /\ cfg.spent \in BOOLEAN
  BY ConfigAssumption DEF Init, Config
<1> QED
  BY <1>1, <1>2, <1>3, <1>4, <1>5 DEF Init, TypeOK, RunTypeOK, DrainTypeOK, Results

\* What the callback is given, and what the channel carries, is typed.
LEMMA EventsTyped ==
    ASSUME TypeOK
    PROVE  /\ Append(events, Started) \in Seq(Events)
           /\ Append(events, Exited(ExitCode, Reason)) \in Seq(Events)
           /\ chan # <<>> => /\ Append(events, Head(chan)) \in Seq(Events)
                             /\ Tail(chan) \in Seq(Chunks)
           /\ \A s \in Streams : Append(chan, Chunk(s, seq[s])) \in Seq(Chunks)
<1>1. Started \in Events
  BY DEF Started, Events
<1>2. Exited(ExitCode, Reason) \in Events
  BY DEF TypeOK, TreeTypeOK, Exited, Events, ExitCode, Reason, ExitReasons, WasCancelled
<1>3. \A s \in Streams : Chunk(s, seq[s]) \in Chunks
  BY DEF TypeOK, DrainTypeOK, Chunk, Chunks
<1>4. Chunks \subseteq Events
  BY DEF Events
<1> QED
  BY <1>1, <1>2, <1>3, <1>4 DEF TypeOK, RunTypeOK, DrainTypeOK

\* Leaving early is typed, from wherever it happens.
LEMMA UnwindTyped ==
    ASSUME TypeOK, NEW r \in Results, Unwind(r)
    PROVE  ThreadTypeOK' /\ ret' \in Results /\ stopped' \in BOOLEAN /\ chan' \in Seq(Chunks)
<1>1. ThreadTypeOK'
  BY GotoTyped, ThreadAssumption DEF TypeOK, Unwind, MainPCs, EscalationPCs, Threads
<1> QED
  BY <1>1 DEF Unwind

-----------------------------------------------------------------------------
(* Types. *)

\* Every step of run_impl keeps the types.
LEMMA RunStepTyped == TypeOK /\ RunStep => TypeOK'
<1> SUFFICES ASSUME TypeOK, RunStep PROVE TypeOK'
  OBVIOUS
<1> USE DEF TypeOK, treeVars, runVars, handleVars, drainVars
<1>m. ASSUME NEW l \in MainPCs, Goto(Main, l) PROVE ThreadTypeOK'
  BY <1>m, GotoTyped, ThreadAssumption DEF Threads
<1>r. {"Ok", "TimedOut", "Cancelled", "WaitFailed", "InvalidStateTransition", "Panic"} \subseteq Results
  BY DEF Results
<1>1. CASE EmitStarted
  <2>1. ThreadTypeOK' /\ RunTypeOK' /\ DrainTypeOK'
    BY <1>1, <1>m, <1>r, EventsTyped, UnwindTyped DEF EmitStarted, MainPCs, RunTypeOK, DrainTypeOK
  <2> QED
    BY <2>1, <1>1 DEF EmitStarted, TreeTypeOK
<1>2. CASE Wire
  BY <1>2, <1>m DEF Wire, MainPCs, RunTypeOK, DrainTypeOK, TreeTypeOK
<1>3. CASE CheckCancelled
  BY <1>3, <1>m DEF CheckCancelled, MainPCs, EscalationPCs, RunTypeOK, DrainTypeOK, TreeTypeOK
<1>4. CASE StartMonitor
  <2>1. ThreadTypeOK'
    BY <1>4, <1>r, UnwindTyped, ThreadAssumption
    DEF StartMonitor, ThreadTypeOK, Threads, MainPCs, MonitorPCs
  <2>2. RunTypeOK' /\ DrainTypeOK'
    BY <1>4, <1>r, UnwindTyped DEF StartMonitor, RunTypeOK, DrainTypeOK
  <2> QED
    BY <2>1, <2>2, <1>4 DEF StartMonitor, TreeTypeOK
<1>5. CASE StartWait
  <2>1. ThreadTypeOK'
    BY <1>5, <1>r, UnwindTyped, ThreadAssumption
    DEF StartWait, ThreadTypeOK, Threads, MainPCs, WaiterPCs
  <2>2. RunTypeOK' /\ DrainTypeOK'
    BY <1>5, <1>r, UnwindTyped DEF StartWait, RunTypeOK, DrainTypeOK
  <2> QED
    BY <2>1, <2>2, <1>5 DEF StartWait, TreeTypeOK
<1>6. CASE DeliverChunk
  <2>1. ThreadTypeOK'
    BY <1>6, <1>r, UnwindTyped DEF DeliverChunk, ThreadTypeOK
  <2>2. RunTypeOK' /\ DrainTypeOK'
    BY <1>6, <1>r, EventsTyped, UnwindTyped DEF DeliverChunk, RunTypeOK, DrainTypeOK
  <2> QED
    BY <2>1, <2>2, <1>6 DEF DeliverChunk, TreeTypeOK
<1>7. CASE RecvEnds
  BY <1>7, <1>m DEF RecvEnds, MainPCs, RunTypeOK, DrainTypeOK, TreeTypeOK
<1>8. CASE WaitReturns
  <2>1. ThreadTypeOK' /\ RunTypeOK' /\ DrainTypeOK'
    BY <1>8, <1>m, <1>r, UnwindTyped DEF WaitReturns, MainPCs, RunTypeOK, DrainTypeOK
  <2> QED
    BY <2>1, <1>8 DEF WaitReturns, TreeTypeOK
<1>9. CASE ClearKill
  BY <1>9, <1>m DEF ClearKill, MainPCs, RunTypeOK, DrainTypeOK, TreeTypeOK
<1>10. CASE StopMonitor
  BY <1>10, <1>m DEF StopMonitor, MainPCs, RunTypeOK, DrainTypeOK, TreeTypeOK
<1>11. CASE EmitExited
  <2>1. Outcome \in Results
    BY <1>r DEF Outcome
  <2>2. ThreadTypeOK' /\ RunTypeOK' /\ DrainTypeOK'
    BY <1>11, <1>m, <1>r, <2>1, EventsTyped, UnwindTyped
    DEF EmitExited, MainPCs, RunTypeOK, DrainTypeOK
  <2> QED
    BY <2>2, <1>11 DEF EmitExited, TreeTypeOK
<1> QED
  BY <1>1, <1>2, <1>3, <1>4, <1>5, <1>6, <1>7, <1>8, <1>9, <1>10, <1>11 DEF RunStep

\* So do the steps of cancel(), the monitor, wait() and the drain threads.
LEMMA ThreadStepsTyped ==
    ASSUME TypeOK
    PROVE  /\ SpawnFails => TypeOK'
           /\ MonitorStep => TypeOK'
           /\ \A c \in Cancellers : CancelStep(c) => TypeOK'
           /\ StartDrains \/ JoinDrains => TypeOK'
           /\ \A s \in Streams : DrainStep(s) => TypeOK'
           /\ TreeMoves => TypeOK'
           /\ Done => TypeOK'
<1> USE DEF TypeOK, treeVars, runVars, handleVars, drainVars
<1>1. ASSUME SpawnFails PROVE TypeOK'
  <2>1. ThreadTypeOK'
    BY <1>1, GotoTyped, ThreadAssumption DEF SpawnFails, MainPCs, Threads
  <2> QED
    BY <2>1, <1>1 DEF SpawnFails, Results, RunTypeOK, DrainTypeOK, TreeTypeOK
<1>2. ASSUME MonitorStep PROVE TypeOK'
  <2>1. ThreadTypeOK'
    BY <1>2, GotoTyped, ThreadAssumption
    DEF MonitorStep, Deadline, MonitorStops, MonitorPCs, EscalationPCs, Threads
  <2> QED
    BY <2>1, <1>2 DEF MonitorStep, Deadline, MonitorStops, RunTypeOK, DrainTypeOK, TreeTypeOK
<1>3. ASSUME NEW c \in Cancellers, CancelStep(c) PROVE TypeOK'
  <2>1. ThreadTypeOK'
    BY <1>3, GotoTyped, ThreadAssumption
    DEF CancelStep, Swap, TakeKill, CancelPCs, EscalationPCs, Threads
  <2> QED
    BY <2>1, <1>3 DEF CancelStep, Swap, TakeKill, RunTypeOK, DrainTypeOK, TreeTypeOK
<1>4. ASSUME StartDrains \/ JoinDrains PROVE TypeOK'
  <2>1. ThreadTypeOK'
    BY <1>4, GotoTyped, ThreadAssumption DEF StartDrains, JoinDrains, WaiterPCs, Threads
  <2>2. drain' \in [Streams -> {"off", "running", "done", "failed"}]
    BY <1>4 DEF StartDrains, JoinDrains, DrainTypeOK
  <2> QED
    BY <2>1, <2>2, <1>4 DEF StartDrains, JoinDrains, RunTypeOK, DrainTypeOK, TreeTypeOK
<1>5. ASSUME NEW s \in Streams, DrainStep(s) PROVE TypeOK'
  <2>1. TreeTypeOK'
    BY <1>5, CallsTyped DEF DrainStep, ReadFails, Read, DrainEnds, TreeTypeOK
  <2>2. DrainTypeOK'
    <3>1. seq' \in [Streams -> Nat]
      BY <1>5 DEF DrainStep, ReadFails, Read, DrainEnds, DrainTypeOK
    <3>2. chan' \in Seq(Chunks)
      BY <1>5, EventsTyped DEF DrainStep, ReadFails, Read, DrainEnds, DrainTypeOK
    <3>3. drain' \in [Streams -> {"off", "running", "done", "failed"}]
      BY <1>5 DEF DrainStep, ReadFails, Read, DrainEnds, DrainTypeOK
    <3> QED
      BY <3>1, <3>2, <3>3 DEF DrainTypeOK
  <2> QED
    BY <2>1, <2>2, <1>5 DEF DrainStep, ReadFails, Read, DrainEnds, RunTypeOK, ThreadTypeOK
<1>6. ASSUME TreeMoves PROVE TypeOK'
  <2>1. TreeTypeOK'
    BY <1>6, TreeStepTyped, CallsTyped DEF TreeMoves, ChildWrites
  <2> QED
    BY <2>1, <1>6 DEF TreeMoves, RunTypeOK, DrainTypeOK, ThreadTypeOK
<1>7. ASSUME Done PROVE TypeOK'
  BY <1>7 DEF Done, vars, RunTypeOK, DrainTypeOK, ThreadTypeOK, TreeTypeOK
<1> QED
  BY <1>1, <1>2, <1>3, <1>4, <1>5, <1>6, <1>7

\* The shared parts of a kill: the probe, the flag, the return.
LEMMA KillReturnsTyped ==
    ASSUME TypeOK, NEW a \in Killers, KillReturns(a)
    PROVE  ThreadTypeOK' /\ lock' \subseteq Cancellers
BY GotoTyped, ThreadAssumption
DEF TypeOK, RunTypeOK, KillReturns, AfterKill, Killers, Threads, MainPCs, MonitorPCs, CancelPCs

\* The probe and the flag before a kill keep the types.
LEMMA ProbeFireTyped ==
    ASSUME TypeOK, NEW a \in Killers
    PROVE  /\ \A alive \in BOOLEAN : ProbeTree(a, alive) => TypeOK'
           /\ Fire(a) => TypeOK'
<1> USE DEF TypeOK, treeVars, runVars, handleVars, drainVars
<1>0. ASSUME NEW l \in EscalationPCs, Goto(a, l) PROVE ThreadTypeOK'
  BY <1>0, GotoTyped, ThreadAssumption
  DEF Killers, Threads, MainPCs, MonitorPCs, CancelPCs
<1>1. ASSUME NEW alive \in BOOLEAN, ProbeTree(a, alive) PROVE TypeOK'
  <2>1. ThreadTypeOK' /\ lock' \subseteq Cancellers
    BY <1>0, <1>1, KillReturnsTyped DEF ProbeTree, EscalationPCs, RunTypeOK
  <2> QED
    BY <2>1, <1>1 DEF ProbeTree, RunTypeOK, DrainTypeOK, TreeTypeOK
<1>2. ASSUME Fire(a) PROVE TypeOK'
  <2>1. ThreadTypeOK'
    BY <1>0, <1>2 DEF Fire, EscalationPCs
  <2> QED
    BY <2>1, <1>2 DEF Fire, RunTypeOK, DrainTypeOK, TreeTypeOK
<1> QED
  BY <1>1, <1>2

-----------------------------------------------------------------------------
(* The inductive invariant. *)

\* A step that calls no callback and leaves the processes alone.
LEMMA Frame ==
    /\ UNCHANGED events => /\ HasExited' = HasExited
                           /\ Reported("NaturalExit")' = Reported("NaturalExit")
    /\ UNCHANGED <<proc, suid>> => Reachable' = Reachable
BY DEF HasExited, Reported, Reachable, Group

\* What on_event was called with stays, and the new event comes last.
LEMMA AppendEvent ==
    ASSUME TypeOK, NEW e, events' = Append(events, e)
    PROVE  /\ e.type # "Exited" => /\ HasExited' = HasExited
                                   /\ Reported("NaturalExit")' = Reported("NaturalExit")
           /\ e.type = "Exited" /\ e.reason # "NaturalExit" =>
                 Reported("NaturalExit")' = Reported("NaturalExit")
BY DEF TypeOK, RunTypeOK, HasExited, Reported

\* Where only the caller's thread moves.
LEMMA MainMoves ==
    ASSUME TypeOK, NEW l, Goto(Main, l)
    PROVE  /\ pc'[Main] = l /\ pc'[Monitor] = pc[Monitor] /\ pc'[Waiter] = pc[Waiter]
           /\ \A c \in Cancellers : pc'[c] = pc[c]
BY GotoMoves, ThreadAssumption DEF Threads, TypeOK

\* Leaving early, from any place where the guard is armed.
LEMMA UnwindKeeps ==
    ASSUME TypeOK, IInv, NEW r \in Results, Unwind(r),
           pc[Main] \in {"started", "monitor", "startwait", "recv", "inwait"},
           UNCHANGED <<treeVars, cfg, guard, handleVars, timed_out, wait_res>>,
           HasExited' = HasExited, Reported("NaturalExit")' = Reported("NaturalExit")
    PROVE  IInv'
<1> USE DEF IInv, GuardInv, QuietInv, HandleInv, ExitInv, FlagInv, NoLostCancel, NaturalMeansUntouched, Unlaunched, PastWait, KillPCs, EscalationPCs, Escalating, WasCancelled,
            treeVars, handleVars, At
<1>1. guard /\ r # "none" /\ ret' = r
  BY DEF Unwind, Results
<1>2. /\ pc'[Main] = "escalate" /\ pc'[Monitor] = pc[Monitor] /\ pc'[Waiter] = pc[Waiter]
      /\ \A c \in Cancellers : pc'[c] = pc[c]
  BY <1>1, MainMoves DEF Unwind
<1>3. Reachable' = Reachable
  BY Frame
<1>4. GuardInv' /\ QuietInv'
  BY <1>1, <1>2, <1>3
<1>5. HandleInv'
  BY <1>1, <1>2, <1>3
<1>6. ExitInv' /\ FlagInv'
  BY <1>1, <1>2, <1>3
<1>7. NoLostCancel' /\ NaturalMeansUntouched'
  BY <1>1, <1>2, <1>3
<1> QED
  BY <1>4, <1>5, <1>6, <1>7 DEF IInv

\* run_impl keeps the inductive invariant, on its way and when it unwinds.
LEMMA RunStepKeeps == TypeOK /\ IInv /\ RunStep => IInv'
<1> SUFFICES ASSUME TypeOK, IInv, RunStep PROVE IInv'
  OBVIOUS
<1> USE DEF IInv, GuardInv, QuietInv, HandleInv, ExitInv, FlagInv, NoLostCancel, NaturalMeansUntouched,
            Unlaunched, PastWait, KillPCs, EscalationPCs, Escalating, WasCancelled,
            treeVars, runVars, handleVars, drainVars, At
<1>r. {"WaitFailed", "InvalidStateTransition", "Panic"} \subseteq Results
  BY DEF Results
<1>q. \A c \in Cancellers : c \in Threads /\ c # Main /\ c # Monitor /\ c # Waiter
  BY ThreadAssumption DEF Threads
<1>1. CASE EmitStarted
  <2>1. HasExited' = HasExited /\ Reported("NaturalExit")' = Reported("NaturalExit")
    BY <1>1, AppendEvent, Frame DEF EmitStarted, Started
  <2>2. CASE \E r \in Results : Unwind(r)
    BY <1>1, <2>1, <2>2, UnwindKeeps DEF EmitStarted
  <2>3. CASE Goto(Main, IF cfg.cancel THEN "wire" ELSE "monitor") /\ UNCHANGED ret
    <3>1. /\ pc'[Main] = IF cfg.cancel THEN "wire" ELSE "monitor"
          /\ pc'[Monitor] = pc[Monitor] /\ pc'[Waiter] = pc[Waiter]
          /\ \A c \in Cancellers : pc'[c] = pc[c]
      BY <2>3, MainMoves
    <3>2. Reachable' = Reachable
      BY <1>1, Frame DEF EmitStarted
    <3>3. GuardInv' /\ QuietInv'
      BY <1>1, <2>1, <2>3, <3>1, <3>2 DEF EmitStarted
    <3>4. HandleInv'
      BY <1>1, <2>1, <2>3, <3>1, <3>2 DEF EmitStarted
    <3>5. ExitInv' /\ FlagInv'
      BY <1>1, <2>1, <2>3, <3>1, <3>2 DEF EmitStarted
    <3>6. NoLostCancel' /\ NaturalMeansUntouched'
      BY <1>1, <2>1, <2>3, <3>1, <3>2 DEF EmitStarted
    <3> QED
      BY <3>3, <3>4, <3>5, <3>6
  <2> QED
    BY <1>1, <1>r, <2>2, <2>3 DEF EmitStarted
<1>2. CASE Wire
  <2>1. /\ pc'[Main] = "check" /\ pc'[Monitor] = pc[Monitor] /\ pc'[Waiter] = pc[Waiter]
        /\ \A c \in Cancellers : pc'[c] = pc[c]
    BY <1>2, MainMoves DEF Wire
  <2>2. /\ HasExited' = HasExited /\ Reachable' = Reachable
        /\ Reported("NaturalExit")' = Reported("NaturalExit")
    BY <1>2, Frame DEF Wire
  <2>3. GuardInv' /\ QuietInv'
    BY <1>2, <2>1, <2>2 DEF Wire
  <2>4. HandleInv'
    BY <1>2, <2>1, <2>2 DEF Wire
  <2>5. ExitInv' /\ FlagInv'
    BY <1>2, <2>1, <2>2 DEF Wire
  <2>6. NoLostCancel' /\ NaturalMeansUntouched'
    BY <1>2, <2>1, <2>2 DEF Wire
  <2> QED
    BY <2>3, <2>4, <2>5, <2>6
<1>3. CASE CheckCancelled
  <2> DEFINE l == IF cancelled /\ ~kill_fired THEN "probe" ELSE "monitor"
  <2>0. Goto(Main, l)
    BY <1>3 DEF CheckCancelled
  <2>1. /\ pc'[Main] = l /\ pc'[Monitor] = pc[Monitor] /\ pc'[Waiter] = pc[Waiter]
        /\ \A c \in Cancellers : pc'[c] = pc[c]
    <3> HIDE DEF l
    <3> QED BY <2>0, MainMoves
  <2>l. l \in {"probe", "monitor"} /\ (l = "monitor" => ~cancelled \/ kill_fired)
    OBVIOUS
  <2>2. /\ HasExited' = HasExited /\ Reachable' = Reachable
        /\ Reported("NaturalExit")' = Reported("NaturalExit")
    BY <1>3, Frame DEF CheckCancelled
  <2> HIDE DEF l
  <2>3. GuardInv' /\ QuietInv'
    BY <1>3, <2>1, <2>l, <2>2 DEF CheckCancelled
  <2>4. HandleInv'
    BY <1>3, <2>1, <2>l, <2>2 DEF CheckCancelled
  <2>5. ExitInv' /\ FlagInv'
    BY <1>3, <2>1, <2>l, <2>2 DEF CheckCancelled
  <2>6. NoLostCancel' /\ NaturalMeansUntouched'
    BY <1>3, <2>1, <2>l, <2>2 DEF CheckCancelled
  <2> QED
    BY <2>3, <2>4, <2>5, <2>6
<1>4. CASE StartMonitor
  <2>1. /\ HasExited' = HasExited /\ Reachable' = Reachable
        /\ Reported("NaturalExit")' = Reported("NaturalExit")
    BY <1>4, Frame DEF StartMonitor
  <2>2. CASE Unwind("Panic")
    BY <1>4, <1>r, <2>1, <2>2, UnwindKeeps DEF StartMonitor
  <2>3. CASE ~Unwind("Panic")
    <3>1. /\ pc'[Main] = "startwait"
          /\ pc'[Monitor] \in {"waiting", "off"} /\ pc'[Waiter] = pc[Waiter]
          /\ \A c \in Cancellers : pc'[c] = pc[c]
          /\ UNCHANGED ret
      BY <1>4, <1>q, <2>3, ThreadAssumption DEF StartMonitor, TypeOK, ThreadTypeOK, Threads
    <3>2. GuardInv' /\ QuietInv'
      BY <1>4, <2>1, <3>1 DEF StartMonitor
    <3>3. HandleInv'
      BY <1>4, <2>1, <3>1 DEF StartMonitor
    <3>4. ExitInv' /\ FlagInv'
      BY <1>4, <2>1, <3>1 DEF StartMonitor
    <3>5. NoLostCancel' /\ NaturalMeansUntouched'
      BY <1>4, <2>1, <3>1 DEF StartMonitor
    <3> QED
      BY <3>2, <3>3, <3>4, <3>5
  <2> QED
    BY <2>2, <2>3
<1>5. CASE StartWait
  <2>1. /\ HasExited' = HasExited /\ Reachable' = Reachable
        /\ Reported("NaturalExit")' = Reported("NaturalExit")
    BY <1>5, Frame DEF StartWait
  <2>2. CASE Unwind("Panic")
    BY <1>5, <1>r, <2>1, <2>2, UnwindKeeps DEF StartWait
  <2>3. CASE ~Unwind("Panic")
    <3>1. /\ pc'[Main] = IF cfg.capture THEN "recv" ELSE "inwait"
          /\ pc'[Monitor] = pc[Monitor] /\ pc'[Waiter] = "drains"
          /\ \A c \in Cancellers : pc'[c] = pc[c]
          /\ UNCHANGED ret
      BY <1>5, <1>q, <2>3, ThreadAssumption DEF StartWait, TypeOK, ThreadTypeOK, Threads
    <3>2. GuardInv' /\ QuietInv'
      BY <1>5, <2>1, <3>1 DEF StartWait
    <3>3. HandleInv'
      BY <1>5, <2>1, <3>1 DEF StartWait
    <3>4. ExitInv' /\ FlagInv'
      BY <1>5, <2>1, <3>1 DEF StartWait
    <3>5. NoLostCancel' /\ NaturalMeansUntouched'
      BY <1>5, <2>1, <3>1 DEF StartWait
    <3> QED
      BY <3>2, <3>3, <3>4, <3>5
  <2> QED
    BY <2>2, <2>3
<1>6. CASE DeliverChunk
  <2>1. HasExited' = HasExited /\ Reported("NaturalExit")' = Reported("NaturalExit")
    <3>1. Head(chan) \in Chunks
      BY <1>6 DEF DeliverChunk, TypeOK, DrainTypeOK
    <3>2. Head(chan).type # "Exited"
      BY <3>1 DEF Chunks
    <3> QED
      BY <1>6, <3>2, AppendEvent DEF DeliverChunk
  <2>2. CASE Unwind("Panic")
    BY <1>6, <1>r, <2>1, <2>2, UnwindKeeps DEF DeliverChunk
  <2>3. CASE ~Unwind("Panic")
    <3>1. UNCHANGED <<pc, ret>> /\ Reachable' = Reachable
      BY <1>6, <2>3, Frame DEF DeliverChunk
    <3>2. GuardInv' /\ QuietInv'
      BY <1>6, <2>1, <3>1 DEF DeliverChunk
    <3>3. HandleInv'
      BY <1>6, <2>1, <3>1 DEF DeliverChunk
    <3>4. ExitInv' /\ FlagInv'
      BY <1>6, <2>1, <3>1 DEF DeliverChunk
    <3>5. NoLostCancel' /\ NaturalMeansUntouched'
      BY <1>6, <2>1, <3>1 DEF DeliverChunk
    <3> QED
      BY <3>2, <3>3, <3>4, <3>5
  <2> QED
    BY <2>2, <2>3
<1>7. CASE RecvEnds
  <2>1. /\ pc'[Main] = "inwait" /\ pc'[Monitor] = pc[Monitor] /\ pc'[Waiter] = pc[Waiter]
        /\ \A c \in Cancellers : pc'[c] = pc[c]
    BY <1>7, MainMoves DEF RecvEnds
  <2>2. /\ HasExited' = HasExited /\ Reachable' = Reachable
        /\ Reported("NaturalExit")' = Reported("NaturalExit")
    BY <1>7, Frame DEF RecvEnds
  <2>3. GuardInv' /\ QuietInv'
    BY <1>7, <2>1, <2>2 DEF RecvEnds
  <2>4. HandleInv'
    BY <1>7, <2>1, <2>2 DEF RecvEnds
  <2>5. ExitInv' /\ FlagInv'
    BY <1>7, <2>1, <2>2 DEF RecvEnds
  <2>6. NoLostCancel' /\ NaturalMeansUntouched'
    BY <1>7, <2>1, <2>2 DEF RecvEnds
  <2> QED
    BY <2>3, <2>4, <2>5, <2>6
<1>8. CASE WaitReturns
  <2>1. /\ HasExited' = HasExited /\ Reachable' = Reachable
        /\ Reported("NaturalExit")' = Reported("NaturalExit")
    BY <1>8, Frame DEF WaitReturns
  <2>2. CASE ~(At(Waiter, "done") /\ wait_res = "ok")
    BY <1>8, <1>r, <2>1, <2>2, UnwindKeeps DEF WaitReturns
  <2>3. CASE At(Waiter, "done") /\ wait_res = "ok"
    <3>1. /\ pc'[Main] = IF cfg.cancel THEN "clear" ELSE "stop"
          /\ pc'[Monitor] = pc[Monitor] /\ pc'[Waiter] = pc[Waiter]
          /\ \A c \in Cancellers : pc'[c] = pc[c]
          /\ guard' = FALSE /\ UNCHANGED ret
      BY <1>8, <2>3, MainMoves DEF WaitReturns
    <3>2. GuardInv' /\ QuietInv'
      BY <1>8, <2>1, <2>3, <3>1 DEF WaitReturns
    <3>3. HandleInv'
      BY <1>8, <2>1, <2>3, <3>1 DEF WaitReturns
    <3>4. ExitInv' /\ FlagInv'
      BY <1>8, <2>1, <2>3, <3>1 DEF WaitReturns
    <3>5. NoLostCancel' /\ NaturalMeansUntouched'
      BY <1>8, <2>1, <2>3, <3>1 DEF WaitReturns
    <3> QED
      BY <3>2, <3>3, <3>4, <3>5
  <2> QED
    BY <2>2, <2>3
<1>9. CASE ClearKill
  <2>1. /\ pc'[Main] = "stop" /\ pc'[Monitor] = pc[Monitor] /\ pc'[Waiter] = pc[Waiter]
        /\ \A c \in Cancellers : pc'[c] = pc[c]
    BY <1>9, MainMoves DEF ClearKill
  <2>2. /\ HasExited' = HasExited /\ Reachable' = Reachable
        /\ Reported("NaturalExit")' = Reported("NaturalExit")
    BY <1>9, Frame DEF ClearKill
  <2>3. GuardInv' /\ QuietInv'
    BY <1>9, <2>1, <2>2 DEF ClearKill
  <2>4. HandleInv'
    BY <1>9, <2>1, <2>2 DEF ClearKill
  <2>5. ExitInv' /\ FlagInv'
    BY <1>9, <2>1, <2>2 DEF ClearKill
  <2>6. NoLostCancel' /\ NaturalMeansUntouched'
    BY <1>9, <2>1, <2>2 DEF ClearKill
  <2> QED
    BY <2>3, <2>4, <2>5, <2>6
<1>10. CASE StopMonitor
  <2>1. /\ pc'[Main] = "exited" /\ pc'[Monitor] = pc[Monitor] /\ pc'[Waiter] = pc[Waiter]
        /\ \A c \in Cancellers : pc'[c] = pc[c]
    BY <1>10, MainMoves DEF StopMonitor
  <2>2. /\ HasExited' = HasExited /\ Reachable' = Reachable
        /\ Reported("NaturalExit")' = Reported("NaturalExit")
    BY <1>10, Frame DEF StopMonitor
  <2>3. GuardInv' /\ QuietInv'
    BY <1>10, <2>1, <2>2 DEF StopMonitor
  <2>4. HandleInv'
    BY <1>10, <2>1, <2>2 DEF StopMonitor
  <2>5. ExitInv' /\ FlagInv'
    BY <1>10, <2>1, <2>2 DEF StopMonitor
  <2>6. NoLostCancel' /\ NaturalMeansUntouched'
    BY <1>10, <2>1, <2>2 DEF StopMonitor
  <2> QED
    BY <2>3, <2>4, <2>5, <2>6
<1>11. CASE EmitExited
  <2>1. /\ pc'[Main] = "returned" /\ pc'[Monitor] = pc[Monitor] /\ pc'[Waiter] = pc[Waiter]
        /\ \A c \in Cancellers : pc'[c] = pc[c]
    BY <1>11, MainMoves DEF EmitExited, Unwind
  <2>2. Reachable' = Reachable /\ ret = "none" /\ ~kill /\ ~HasExited
    BY <1>11, Frame DEF EmitExited
  <2>3. Reported("NaturalExit")' => termed' = {}
    <3>1. CASE UNCHANGED events
      BY <1>11, <3>1, Frame DEF EmitExited
    <3>2. CASE events' = Append(events, Exited(ExitCode, Reason))
      <4>1. Exited(ExitCode, Reason).type = "Exited" /\ Exited(ExitCode, Reason).reason = Reason
        BY DEF Exited
      <4>2. Reason = "NaturalExit" => termed = {}
        BY <2>2 DEF Reason
      <4> QED
        BY <1>11, <3>2, <4>1, <4>2, AppendEvent DEF EmitExited
    <3> QED
      BY <1>11, <3>1, <3>2 DEF EmitExited
  <2>4. GuardInv' /\ QuietInv'
    BY <1>11, <2>1, <2>2, <2>3 DEF EmitExited
  <2>5. HandleInv'
    BY <1>11, <2>1, <2>2, <2>3 DEF EmitExited
  <2>6. ExitInv' /\ FlagInv'
    BY <1>11, <2>1, <2>2, <2>3 DEF EmitExited
  <2>7. NoLostCancel' /\ NaturalMeansUntouched'
    BY <1>11, <2>1, <2>2, <2>3 DEF EmitExited
  <2> QED
    BY <2>4, <2>5, <2>6, <2>7
<1> QED
  BY <1>1, <1>2, <1>3, <1>4, <1>5, <1>6, <1>7, <1>8, <1>9, <1>10, <1>11 DEF RunStep

\* The threads in play are distinct.
LEMMA Distinct ==
    /\ Main \in Threads /\ Monitor \in Threads /\ Waiter \in Threads
    /\ Main # Monitor /\ Main # Waiter /\ Monitor # Waiter
    /\ \A c \in Cancellers : c \in Threads /\ c # Main /\ c # Monitor /\ c # Waiter
    /\ \A a \in Killers : a \in Threads /\ a # Waiter
BY ThreadAssumption DEF Threads, Killers

\* The inductive invariant holds before the spawn.
LEMMA InitHolds == Init => IInv
<1> SUFFICES ASSUME Init PROVE IInv
  OBVIOUS
<1> USE DEF IInv, GuardInv, QuietInv, HandleInv, ExitInv, FlagInv, NoLostCancel, NaturalMeansUntouched,
            Unlaunched, PastWait, KillPCs, EscalationPCs, Escalating, WasCancelled,
            treeVars, runVars, handleVars, drainVars, At
<1>1. /\ pc[Main] = "idle" /\ pc[Monitor] = "off" /\ pc[Waiter] = "off"
      /\ \A c \in Cancellers : pc[c] = "idle"
  BY Distinct DEF Init
<1>c. cfg.spent => cfg.cancel
  BY ConfigAssumption DEF Init, Config
<1>2. Reachable = {} /\ termed = {}
  BY DEF Init, TreeInit, Reachable, Group
<1>3. ~HasExited /\ ~Reported("NaturalExit")
  BY DEF Init, HasExited, Reported
<1> QED
  BY <1>1, <1>c, <1>2, <1>3 DEF Init

\* cancel(), the monitor, wait() and the drain threads keep it.
LEMMA ThreadStepsKeep ==
    ASSUME TypeOK, IInv
    PROVE  /\ SpawnFails => IInv'
           /\ MonitorStep => IInv'
           /\ \A c \in Cancellers : CancelStep(c) => IInv'
           /\ StartDrains \/ JoinDrains => IInv'
           /\ \A s \in Streams : DrainStep(s) => IInv'
           /\ Done => IInv'
<1> USE DEF IInv, GuardInv, QuietInv, HandleInv, ExitInv, FlagInv, NoLostCancel, NaturalMeansUntouched,
            Unlaunched, PastWait, KillPCs, EscalationPCs, Escalating, WasCancelled,
            treeVars, runVars, handleVars, drainVars, At
<1>f. UNCHANGED <<events, proc, suid>> =>
          /\ HasExited' = HasExited /\ Reachable' = Reachable
          /\ Reported("NaturalExit")' = Reported("NaturalExit")
  BY Frame
<1>1. ASSUME SpawnFails PROVE IInv'
  <2>1. /\ pc'[Main] = "returned" /\ pc'[Monitor] = pc[Monitor] /\ pc'[Waiter] = pc[Waiter]
        /\ \A c \in Cancellers : pc'[c] = pc[c]
    BY <1>1, MainMoves DEF SpawnFails
  <2>2. GuardInv' /\ QuietInv'
    BY <1>1, <1>f, <2>1 DEF SpawnFails
  <2>3. HandleInv'
    BY <1>1, <1>f, <2>1 DEF SpawnFails
  <2>4. ExitInv' /\ FlagInv'
    BY <1>1, <1>f, <2>1 DEF SpawnFails
  <2>5. NoLostCancel' /\ NaturalMeansUntouched'
    BY <1>1, <1>f, <2>1 DEF SpawnFails
  <2> QED
    BY <2>2, <2>3, <2>4, <2>5
<1>2. ASSUME MonitorStep PROVE IInv'
  <2>1. /\ pc'[Main] = pc[Main] /\ pc'[Monitor] \in {"probe", "done"} /\ pc'[Waiter] = pc[Waiter]
        /\ \A c \in Cancellers : pc'[c] = pc[c]
    BY <1>2, GotoMoves, Distinct DEF MonitorStep, Deadline, MonitorStops, TypeOK
  <2>2. GuardInv' /\ QuietInv'
    BY <1>2, <1>f, <2>1 DEF MonitorStep, Deadline, MonitorStops
  <2>3. HandleInv'
    BY <1>2, <1>f, <2>1 DEF MonitorStep, Deadline, MonitorStops
  <2>4. ExitInv' /\ FlagInv'
    BY <1>2, <1>f, <2>1 DEF MonitorStep, Deadline, MonitorStops
  <2>5. NoLostCancel' /\ NaturalMeansUntouched'
    BY <1>2, <1>f, <2>1 DEF MonitorStep, Deadline, MonitorStops
  <2> QED
    BY <2>2, <2>3, <2>4, <2>5
<1>3. ASSUME NEW c \in Cancellers, Swap(c) PROVE IInv'
  <2>1. /\ pc'[Main] = pc[Main] /\ pc'[Monitor] = pc[Monitor] /\ pc'[Waiter] = pc[Waiter]
        /\ pc'[c] \in {"lock", "done"} /\ (~cancelled => pc'[c] = "lock")
        /\ \A d \in Cancellers : d # c => pc'[d] = pc[d]
    <3>1. CASE cancelled
      BY <1>3, <3>1, GotoMoves, Distinct DEF Swap, TypeOK
    <3>2. CASE ~cancelled
      BY <1>3, <3>2, GotoMoves, Distinct DEF Swap, TypeOK
    <3> QED
      BY <3>1, <3>2
  <2>2. GuardInv' /\ QuietInv'
    BY <1>3, <1>f, <2>1 DEF Swap
  <2>3. HandleInv'
    BY <1>3, <1>f, <2>1 DEF Swap
  <2>4. ExitInv' /\ FlagInv'
    BY <1>3, <1>f, <2>1 DEF Swap
  <2>5. NoLostCancel' /\ NaturalMeansUntouched'
    BY <1>3, <1>f, <2>1 DEF Swap
  <2> QED
    BY <2>2, <2>3, <2>4, <2>5
<1>4. ASSUME NEW c \in Cancellers, TakeKill(c) PROVE IInv'
  <2>1. /\ pc'[Main] = pc[Main] /\ pc'[Monitor] = pc[Monitor] /\ pc'[Waiter] = pc[Waiter]
        /\ \/ pc'[c] = "probe" /\ lock' = {c} /\ kill
           \/ pc'[c] = "done" /\ lock' = lock /\ ~kill
        /\ \A d \in Cancellers : d # c => pc'[d] = pc[d]
    BY <1>4, GotoMoves, Distinct DEF TakeKill, TypeOK
  <2>2. GuardInv' /\ QuietInv'
    BY <1>4, <1>f, <2>1 DEF TakeKill
  <2>3. HandleInv'
    BY <1>4, <1>f, <2>1 DEF TakeKill
  <2>4. ExitInv' /\ FlagInv'
    BY <1>4, <1>f, <2>1 DEF TakeKill
  <2>5. NoLostCancel' /\ NaturalMeansUntouched'
    BY <1>4, <1>f, <2>1 DEF TakeKill
  <2> QED
    BY <2>2, <2>3, <2>4, <2>5
<1>5. ASSUME StartDrains \/ JoinDrains PROVE IInv'
  <2>1. /\ pc'[Main] = pc[Main] /\ pc'[Monitor] = pc[Monitor]
        /\ pc[Waiter] # "off" /\ pc'[Waiter] # "join"
        /\ pc'[Waiter] = "done" => pc[Waiter] = "join"
        /\ \A c \in Cancellers : pc'[c] = pc[c]
    BY <1>5, GotoMoves, Distinct DEF StartDrains, JoinDrains, TypeOK
  <2>2. GuardInv' /\ QuietInv'
    BY <1>5, <1>f, <2>1 DEF StartDrains, JoinDrains
  <2>3. HandleInv'
    BY <1>5, <1>f, <2>1 DEF StartDrains, JoinDrains
  <2>4. ExitInv' /\ FlagInv'
    BY <1>5, <1>f, <2>1 DEF StartDrains, JoinDrains
  <2>5. NoLostCancel' /\ NaturalMeansUntouched'
    BY <1>5, <1>f, <2>1 DEF StartDrains, JoinDrains
  <2> QED
    BY <2>2, <2>3, <2>4, <2>5
<1>6. ASSUME NEW s \in Streams, DrainStep(s) PROVE IInv'
  <2>1. GuardInv' /\ QuietInv'
    BY <1>6, <1>f DEF DrainStep, ReadFails, Read, DrainEnds, ReadUnit, CloseRead
  <2>2. HandleInv'
    BY <1>6, <1>f DEF DrainStep, ReadFails, Read, DrainEnds, ReadUnit, CloseRead
  <2>3. ExitInv' /\ FlagInv'
    BY <1>6, <1>f DEF DrainStep, ReadFails, Read, DrainEnds, ReadUnit, CloseRead
  <2>4. NoLostCancel' /\ NaturalMeansUntouched'
    BY <1>6, <1>f DEF DrainStep, ReadFails, Read, DrainEnds, ReadUnit, CloseRead
  <2> QED
    BY <2>1, <2>2, <2>3, <2>4
<1>7. ASSUME Done PROVE IInv'
  <2>1. GuardInv' /\ QuietInv'
    BY <1>7, <1>f DEF Done, vars
  <2>2. HandleInv'
    BY <1>7, <1>f DEF Done, vars
  <2>3. ExitInv' /\ FlagInv'
    BY <1>7, <1>f DEF Done, vars
  <2>4. NoLostCancel' /\ NaturalMeansUntouched'
    BY <1>7, <1>f DEF Done, vars
  <2> QED
    BY <2>1, <2>2, <2>3, <2>4
<1> QED
  BY <1>1, <1>2, <1>3, <1>4, <1>5, <1>6, <1>7 DEF CancelStep

\* What the processes do on their own: nothing comes alive in a dead tree.
LEMMA TreeMovesKeep == TypeOK /\ IInv /\ TreeMoves => IInv'
<1> SUFFICES ASSUME TypeOK, IInv, TreeMoves PROVE IInv'
  OBVIOUS
<1> USE DEF IInv, GuardInv, QuietInv, HandleInv, ExitInv, FlagInv, NoLostCancel, NaturalMeansUntouched,
            Unlaunched, PastWait, KillPCs, EscalationPCs, Escalating, WasCancelled,
            treeVars, runVars, handleVars, drainVars, At
<1>1. HasExited' = HasExited /\ Reported("NaturalExit")' = Reported("NaturalExit")
  BY Frame DEF TreeMoves
<1>2. Reachable = {} => Reachable' = {}
  <2>1. CASE TreeStep
    BY <2>1, QuietStable DEF TypeOK
  <2>2. CASE \E p \in Procs, s \in Streams : ChildWrites(p, s)
    BY <2>2, Frame DEF ChildWrites, Write
  <2> QED
    BY <2>1, <2>2 DEF TreeMoves
<1>3. termed' = termed
  BY DEF TreeMoves, TreeStep, Fork, Escape, Setuid, Close, Exit, TermEnds, KillEnds, Ends, ReapDesc,
         HostReap, ChildWrites, Write
<1>4. GuardInv' /\ QuietInv'
  BY <1>1, <1>2, <1>3 DEF TreeMoves
<1>5. HandleInv'
  BY <1>1, <1>2, <1>3 DEF TreeMoves
<1>6. ExitInv' /\ FlagInv'
  BY <1>1, <1>2, <1>3 DEF TreeMoves
<1>7. NoLostCancel' /\ NaturalMeansUntouched'
  BY <1>1, <1>2, <1>3 DEF TreeMoves
<1> QED
  BY <1>4, <1>5, <1>6, <1>7

\* The end of a kill that left nothing running.
LEMMA KillReturnsKeeps ==
    ASSUME TypeOK, IInv, NEW a \in Killers, Escalating(a), KillReturns(a), Reachable' = {},
           UNCHANGED <<termed, cfg, runVars, cancelled, kill_fired, kill, timed_out, wait_res>>
    PROVE  IInv'
<1> USE DEF IInv, GuardInv, QuietInv, HandleInv, ExitInv, FlagInv, NoLostCancel, NaturalMeansUntouched,
            Unlaunched, PastWait, KillPCs, EscalationPCs, Escalating, WasCancelled,
            treeVars, runVars, handleVars, drainVars, At
<1>1. /\ pc'[a] = AfterKill(a) /\ pc'[Waiter] = pc[Waiter]
      /\ \A b \in Killers : b # a => pc'[b] = pc[b]
  BY GotoMoves, Distinct DEF KillReturns, TypeOK
<1>2. HasExited' = HasExited /\ Reported("NaturalExit")' = Reported("NaturalExit")
  BY Frame
<1>3. lock' = lock \ {a}
  BY DEF KillReturns
<1>4. CASE a = Main
  <2>1. /\ pc'[Main] = IF ret = "none" THEN "monitor" ELSE "reap"
        /\ pc'[Monitor] = pc[Monitor] /\ \A c \in Cancellers : pc'[c] = pc[c]
        /\ lock' = lock
    BY <1>1, <1>3, <1>4, Distinct DEF AfterKill, Killers, TypeOK, RunTypeOK
  <2>2. GuardInv' /\ QuietInv'
    BY <1>1, <1>2, <1>4, <2>1
  <2>3. HandleInv'
    BY <1>1, <1>2, <1>4, <2>1
  <2>4. ExitInv' /\ FlagInv'
    BY <1>1, <1>2, <1>4, <2>1
  <2>5. NoLostCancel' /\ NaturalMeansUntouched'
    BY <1>1, <1>2, <1>4, <2>1
  <2> QED
    BY <2>2, <2>3, <2>4, <2>5
<1>5. CASE a = Monitor
  <2>1. /\ pc'[Main] = pc[Main] /\ pc'[Monitor] = "done"
        /\ \A c \in Cancellers : pc'[c] = pc[c]
        /\ lock' = lock
    BY <1>1, <1>3, <1>5, Distinct DEF AfterKill, Killers, TypeOK, RunTypeOK
  <2>2. GuardInv' /\ QuietInv'
    BY <1>1, <1>2, <1>5, <2>1
  <2>3. HandleInv'
    BY <1>1, <1>2, <1>5, <2>1
  <2>4. ExitInv' /\ FlagInv'
    BY <1>1, <1>2, <1>5, <2>1
  <2>5. NoLostCancel' /\ NaturalMeansUntouched'
    BY <1>1, <1>2, <1>5, <2>1
  <2> QED
    BY <2>2, <2>3, <2>4, <2>5
<1>6. CASE a \in Cancellers
  <2>1. /\ pc'[Main] = pc[Main] /\ pc'[Monitor] = pc[Monitor] /\ pc'[a] = "done"
        /\ \A c \in Cancellers : c # a => pc'[c] = pc[c]
    BY <1>1, <1>6, Distinct DEF AfterKill, Killers
  <2>2. GuardInv' /\ QuietInv'
    BY <1>1, <1>2, <1>3, <1>6, <2>1
  <2>3. HandleInv'
    BY <1>1, <1>2, <1>3, <1>6, <2>1
  <2>4. ExitInv' /\ FlagInv'
    BY <1>1, <1>2, <1>3, <1>6, <2>1
  <2>5. NoLostCancel' /\ NaturalMeansUntouched'
    BY <1>1, <1>2, <1>3, <1>6, <2>1
  <2> QED
    BY <2>2, <2>3, <2>4, <2>5
<1> QED
  BY <1>4, <1>5, <1>6 DEF Killers

\* The probe: skipping the kill is safe when "dead" is only answered for a
\* tree with nothing running.
LEMMA ProbeKeeps ==
    ASSUME TypeOK, IInv, NEW a \in Killers, NEW alive \in BOOLEAN, ProbeTree(a, alive),
           ~alive => Reachable = {}
    PROVE  IInv'
<1> USE DEF IInv, GuardInv, QuietInv, HandleInv, ExitInv, FlagInv, NoLostCancel, NaturalMeansUntouched,
            Unlaunched, PastWait, KillPCs, EscalationPCs, Escalating, WasCancelled,
            treeVars, runVars, handleVars, drainVars, At
<1>1. /\ HasExited' = HasExited /\ Reachable' = Reachable
      /\ Reported("NaturalExit")' = Reported("NaturalExit")
  BY Frame DEF ProbeTree
<1>2. CASE ~alive
  BY <1>1, <1>2, KillReturnsKeeps DEF ProbeTree
<1>3. CASE alive
  <2>1. /\ pc[a] = "probe" /\ pc'[a] = "fire" /\ pc'[Waiter] = pc[Waiter] /\ lock' = lock
        /\ \A b \in Killers : b # a => pc'[b] = pc[b]
    BY <1>3, GotoMoves, Distinct DEF ProbeTree, TypeOK
  <2>2. Main \in Killers /\ Monitor \in Killers /\ Cancellers \subseteq Killers
    BY DEF Killers
  <2>3. GuardInv' /\ QuietInv'
    BY <1>1, <2>1, <2>2, Distinct DEF ProbeTree
  <2>4. HandleInv'
    BY <1>1, <2>1, <2>2, Distinct DEF ProbeTree
  <2>5. ExitInv' /\ FlagInv'
    BY <1>1, <2>1, <2>2, Distinct DEF ProbeTree
  <2>6. NoLostCancel' /\ NaturalMeansUntouched'
    BY <1>1, <2>1, <2>2, Distinct DEF ProbeTree
  <2> QED
    BY <2>3, <2>4, <2>5, <2>6
<1> QED
  BY <1>2, <1>3

\* The flag goes up before the first signal.
LEMMA FireKeeps ==
    ASSUME TypeOK, IInv, NEW a \in Killers, Fire(a)
    PROVE  IInv'
<1> USE DEF IInv, GuardInv, QuietInv, HandleInv, ExitInv, FlagInv, NoLostCancel, NaturalMeansUntouched,
            Unlaunched, PastWait, KillPCs, EscalationPCs, Escalating, WasCancelled,
            treeVars, runVars, handleVars, drainVars, At
<1>1. /\ HasExited' = HasExited /\ Reachable' = Reachable
      /\ Reported("NaturalExit")' = Reported("NaturalExit")
  BY Frame DEF Fire
<1>2. /\ pc[a] = "fire" /\ pc'[a] = "escalate" /\ pc'[Waiter] = pc[Waiter]
      /\ \A b \in Killers : b # a => pc'[b] = pc[b]
  BY GotoMoves, Distinct DEF Fire, TypeOK
<1>3. Main \in Killers /\ Monitor \in Killers /\ Cancellers \subseteq Killers
  BY DEF Killers
<1>4. /\ a = Monitor => timed_out' = TRUE /\ kill_fired' = kill_fired
      /\ a # Monitor => kill_fired' = TRUE /\ timed_out' = timed_out
  BY DEF Fire
<1>5. GuardInv' /\ QuietInv'
  BY <1>1, <1>2, <1>3, <1>4, Distinct DEF Fire, Killers
<1>6. HandleInv'
  BY <1>1, <1>2, <1>3, <1>4, Distinct DEF Fire, Killers
<1>7. ExitInv' /\ FlagInv'
  BY <1>1, <1>2, <1>3, <1>4, Distinct DEF Fire, Killers
<1>8. NoLostCancel' /\ NaturalMeansUntouched'
  BY <1>1, <1>2, <1>3, <1>4, Distinct DEF Fire, Killers
<1> QED
  BY <1>5, <1>6, <1>7, <1>8

-----------------------------------------------------------------------------
(* What one step of run_impl can do, for the invariants of the next parts. *)

\* Where a step of run_impl leads: it is in the run before and after, comes
\* past the wait only when wait() is done, returns only from its last step,
\* and is on its way to a kill only for the wiring block or with an error.
LEMMA RunStepMoves ==
    ASSUME TypeOK, IInv, RunStep
    PROVE  /\ pc[Main] \notin Unlaunched \union EscalationPCs \union {"reap", "returned"}
           /\ pc'[Main] \notin Unlaunched \union {"started", "fire", "poll", "sigkill", "reap"}
           /\ pc'[Main] \in PastWait => pc[Main] \in PastWait \/ (At(Waiter, "done") /\ wait_res = "ok")
           /\ pc'[Main] = "returned" => At(Main, "exited")
           /\ pc'[Main] = "probe" => cancelled /\ ~kill_fired
           /\ pc'[Main] = "escalate" => ret' \in {"WaitFailed", "InvalidStateTransition", "Panic"}
           /\ ret' # "SpawnFailed"
           /\ pc'[Waiter] \in {pc[Waiter], "drains"}
           /\ pc'[Monitor] \in {pc[Monitor], "off", "waiting"}
           /\ \A c \in Cancellers : pc'[c] = pc[c]
           /\ UNCHANGED <<treeVars, cfg, cancelled, kill_fired, lock, timed_out, wait_res, drain, seq>>
<1> USE DEF At, Unlaunched, PastWait, EscalationPCs, treeVars, runVars, handleVars, drainVars
<1> DEFINE Goal ==
           /\ pc[Main] \notin Unlaunched \union EscalationPCs \union {"reap", "returned"}
           /\ pc'[Main] \notin Unlaunched \union {"started", "fire", "poll", "sigkill", "reap"}
           /\ pc'[Main] \in PastWait => pc[Main] \in PastWait \/ (At(Waiter, "done") /\ wait_res = "ok")
           /\ pc'[Main] = "returned" => At(Main, "exited")
           /\ pc'[Main] = "probe" => cancelled /\ ~kill_fired
           /\ pc'[Main] = "escalate" => ret' \in {"WaitFailed", "InvalidStateTransition", "Panic"}
           /\ pc'[Waiter] \in {pc[Waiter], "drains"}
           /\ pc'[Monitor] \in {pc[Monitor], "off", "waiting"}
           /\ \A c \in Cancellers : pc'[c] = pc[c]
<1>u. ASSUME NEW r \in {"WaitFailed", "InvalidStateTransition", "Panic"}, Unwind(r),
             pc[Main] \in {"started", "monitor", "startwait", "recv", "inwait", "exited"}
      PROVE  Goal
  <2>1. pc[Main] # "exited" => guard
    BY <1>u DEF IInv, GuardInv
  <2>2. /\ pc'[Main] = (IF guard THEN "escalate" ELSE "returned") /\ pc'[Monitor] = pc[Monitor]
        /\ pc'[Waiter] = pc[Waiter] /\ \A c \in Cancellers : pc'[c] = pc[c]
    BY <1>u, MainMoves DEF Unwind
  <2> QED
    BY <1>u, <2>1, <2>2 DEF Unwind
<1>g. ASSUME NEW l \in {"wire", "check", "probe", "monitor", "inwait", "clear", "stop", "exited",
                        "returned"}, Goto(Main, l)
      PROVE  /\ pc'[Main] = l /\ pc'[Monitor] = pc[Monitor] /\ pc'[Waiter] = pc[Waiter]
             /\ \A c \in Cancellers : pc'[c] = pc[c]
  BY <1>g, MainMoves
<1>s. ret' # "SpawnFailed"
  <2>1. ret = "none"
    BY DEF RunStep, EmitStarted, Wire, CheckCancelled, StartMonitor, StartWait, DeliverChunk,
           RecvEnds, WaitReturns, ClearKill, StopMonitor, EmitExited, IInv, GuardInv, KillPCs
  <2> QED
    BY <2>1 DEF RunStep, EmitStarted, Wire, CheckCancelled, StartMonitor, StartWait, DeliverChunk,
                RecvEnds, WaitReturns, ClearKill, StopMonitor, EmitExited, Unwind, Outcome
<1>1. CASE EmitStarted
  BY <1>s, <1>1, <1>u, <1>g DEF EmitStarted
<1>2. CASE Wire
  BY <1>s, <1>2, <1>g DEF Wire
<1>3. CASE CheckCancelled
  BY <1>s, <1>3, <1>g DEF CheckCancelled
<1>4. CASE StartMonitor
  BY <1>s, <1>4, <1>u, Distinct DEF StartMonitor, TypeOK, ThreadTypeOK
<1>5. CASE StartWait
  BY <1>s, <1>5, <1>u, Distinct DEF StartWait, TypeOK, ThreadTypeOK
<1>6. CASE DeliverChunk
  BY <1>s, <1>6, <1>u DEF DeliverChunk
<1>7. CASE RecvEnds
  BY <1>s, <1>7, <1>g DEF RecvEnds
<1>8. CASE WaitReturns
  BY <1>s, <1>8, <1>u, <1>g DEF WaitReturns
<1>9. CASE ClearKill
  BY <1>s, <1>9, <1>g DEF ClearKill
<1>10. CASE StopMonitor
  BY <1>s, <1>10, <1>g DEF StopMonitor
<1>11. CASE EmitExited
  BY <1>s, <1>11, <1>u, <1>g DEF EmitExited
<1>12. UNCHANGED <<treeVars, cfg, cancelled, kill_fired, lock, timed_out, wait_res, drain, seq>>
  BY DEF RunStep, EmitStarted, Wire, CheckCancelled, StartMonitor, StartWait, DeliverChunk,
         RecvEnds, WaitReturns, ClearKill, StopMonitor, EmitExited
<1> QED
  BY <1>1, <1>2, <1>3, <1>4, <1>5, <1>6, <1>7, <1>8, <1>9, <1>10, <1>11, <1>12 DEF RunStep

\* A step of cancel(), the monitor, the ends of wait() and the drain threads
\* leaves the caller's thread and the processes alone.
LEMMA ThreadStepsMove ==
    ASSUME TypeOK,
           \/ MonitorStep \/ StartDrains \/ JoinDrains
           \/ \E c \in Cancellers : CancelStep(c)
           \/ \E s \in Streams : DrainStep(s)
    PROVE  /\ pc'[Main] = pc[Main]
           /\ pc'[Waiter] # pc[Waiter] =>
                  \/ At(Waiter, "drains") /\ pc'[Waiter] \in {"waitpid", "dead"}
                  \/ At(Waiter, "join") /\ pc'[Waiter] = "done"
           /\ pc'[Monitor] # pc[Monitor] => At(Monitor, "waiting") /\ pc'[Monitor] \in {"probe", "done"}
           /\ \A c \in Cancellers : pc'[c] # pc[c] =>
                  \/ At(c, "idle") /\ pc'[c] \in {"lock", "done"} /\ (cancelled => pc'[c] = "done")
                  \/ At(c, "lock") /\ pc'[c] \in {"probe", "done"}
           /\ UNCHANGED <<proc, termed, suid, status, holds, cfg, runVars, kill_fired, timed_out, wait_res>>
           /\ cancelled => cancelled'
<1> USE DEF At, treeVars, runVars, handleVars, drainVars
<1>1. CASE MonitorStep
  BY <1>1, GotoMoves, Distinct DEF MonitorStep, Deadline, MonitorStops, TypeOK
<1>2. CASE StartDrains \/ JoinDrains
  <2>1. /\ \A u \in Threads : u # Waiter => pc'[u] = pc[u]
        /\ \/ At(Waiter, "drains") /\ pc'[Waiter] \in {"waitpid", "dead"}
           \/ At(Waiter, "join") /\ pc'[Waiter] = "done"
    BY <1>2, GotoMoves, Distinct DEF StartDrains, JoinDrains, TypeOK
  <2>2. /\ UNCHANGED <<proc, termed, suid, status, holds, cfg, runVars, kill_fired, timed_out, wait_res>>
        /\ UNCHANGED cancelled
    BY <1>2 DEF StartDrains, JoinDrains
  <2>3. pc'[Main] = pc[Main] /\ pc'[Monitor] = pc[Monitor] /\ \A c \in Cancellers : pc'[c] = pc[c]
    BY <2>1, Distinct
  <2> QED
    BY <2>1, <2>2, <2>3
<1>3. ASSUME NEW c \in Cancellers, Swap(c)
      PROVE  /\ \A u \in Threads : u # c => pc'[u] = pc[u]
             /\ At(c, "idle") /\ pc'[c] \in {"lock", "done"} /\ (cancelled => pc'[c] = "done")
  <2>1. CASE cancelled
    BY <1>3, <2>1, GotoMoves, Distinct DEF Swap, TypeOK
  <2>2. CASE ~cancelled
    BY <1>3, <2>2, GotoMoves, Distinct DEF Swap, TypeOK
  <2> QED
    BY <2>1, <2>2
<1>4. ASSUME NEW c \in Cancellers, TakeKill(c)
      PROVE  /\ \A u \in Threads : u # c => pc'[u] = pc[u]
             /\ At(c, "lock") /\ pc'[c] \in {"probe", "done"}
  BY <1>4, GotoMoves, Distinct DEF TakeKill, TypeOK
<1>5. CASE \E c \in Cancellers : CancelStep(c)
  <2>1. PICK c \in Cancellers : Swap(c) \/ TakeKill(c)
    BY <1>5 DEF CancelStep
  <2>2. CASE Swap(c)
    BY <1>3, <2>2, Distinct DEF Swap
  <2>3. CASE TakeKill(c)
    BY <1>4, <2>3, Distinct DEF TakeKill
  <2> QED
    BY <2>1, <2>2, <2>3
<1>6. CASE \E s \in Streams : DrainStep(s)
  BY <1>6 DEF DrainStep, ReadFails, Read, DrainEnds, ReadUnit, CloseRead
<1> QED
  BY <1>1, <1>2, <1>5, <1>6

\* A run says NaturalExit only where the flags it reads allow for it.
LEMMA RunStepReports ==
    ASSUME TypeOK, RunStep
    PROVE  /\ HasExited => HasExited'
           /\ HasExited' => HasExited \/ At(Main, "exited")
           /\ Reported("NaturalExit")' => \/ Reported("NaturalExit")
                                          \/ At(Main, "exited") /\ Reason = "NaturalExit"
<1> USE DEF runVars
<1>1. CASE UNCHANGED events
  BY <1>1, Frame
<1>2. ASSUME NEW e, events' = Append(events, e), e.type # "Exited"
      PROVE  HasExited' = HasExited /\ Reported("NaturalExit")' = Reported("NaturalExit")
  BY <1>2, AppendEvent
<1>3. CASE EmitStarted
  BY <1>1, <1>2, <1>3 DEF EmitStarted, Started
<1>4. CASE DeliverChunk
  <2>0. Head(chan) \in Chunks
    BY <1>4 DEF DeliverChunk, TypeOK, DrainTypeOK
  <2>1. Head(chan).type = "Chunk"
    BY <2>0 DEF Chunks
  <2> QED
    BY <1>2, <1>4, <2>1 DEF DeliverChunk
<1>5. CASE EmitExited
  <2>1. CASE events' = Append(events, Exited(ExitCode, Reason))
    <3> DEFINE e == Exited(ExitCode, Reason)
    <3>1. e.type = "Exited" /\ e.reason = Reason
      BY DEF Exited
    <3> HIDE DEF e
    <3>2. /\ HasExited => HasExited'
          /\ Reported("NaturalExit")' => Reported("NaturalExit") \/ e.reason = "NaturalExit"
      BY <2>1 DEF e, TypeOK, RunTypeOK, HasExited, Reported
    <3> QED
      BY <1>5, <3>1, <3>2 DEF EmitExited
  <2> QED
    BY <1>1, <1>5, <2>1 DEF EmitExited
<1> QED
  BY <1>1, <1>3, <1>4, <1>5
  DEF RunStep, Wire, CheckCancelled, StartMonitor, StartWait, RecvEnds, WaitReturns, ClearKill,
      StopMonitor

-----------------------------------------------------------------------------
(* The output: what the drain threads and the channel promise. *)

BeforeWait == Unlaunched \union {"started", "wire", "check", "probe", "fire", "monitor", "startwait"}

\* The drain threads exist only once wait() has started them; the channel is
\* empty unless run_impl is receiving, and where it has stopped no sender is
\* left; wait() returns a code only after both drains have ended; a drain that
\* saw end of file left nothing behind, for ever.
DrainInv ==
    /\ pc[Waiter] \in {"off", "drains"} => \A s \in Streams : drain[s] = "off"
    /\ pc[Main] \in BeforeWait \/ (pc[Main] \in KillPCs /\ ret = "none") => At(Waiter, "off")
    /\ pc[Main] \in {"reap", "returned"} => ret # "none"
    /\ chan # <<>> => At(Main, "recv")
    /\ cfg.capture /\ pc[Main] \in {"inwait"} \union PastWait => SendersDropped
    /\ At(Waiter, "done") /\ wait_res = "ok" => \A s \in Streams : drain[s] \in {"done", "failed"}
    /\ pc[Main] \in PastWait \/ HasExited => At(Waiter, "done") /\ wait_res = "ok"
    /\ \A s \in Streams : drain[s] = "done" => EOF(s)

\* Leaving early keeps it.
LEMMA UnwindDrains ==
    ASSUME TypeOK, IInv, DrainInv, NEW r \in {"WaitFailed", "InvalidStateTransition", "Panic"}, Unwind(r),
           pc[Main] \in {"started", "monitor", "startwait", "recv", "inwait", "exited"},
           HasExited' => HasExited \/ At(Main, "exited"),
           UNCHANGED <<treeVars, wait_res, drain>>
    PROVE  DrainInv'
<1> USE DEF At, Unlaunched, BeforeWait, PastWait, KillPCs, SendersDropped, EOF, treeVars
<1>1. /\ pc'[Main] \in {"escalate", "returned"} /\ pc'[Waiter] = pc[Waiter]
      /\ ret' = r /\ r # "none" /\ chan' = <<>>
  BY MainMoves DEF Unwind
<1> QED
  BY <1>1 DEF DrainInv

\* run_impl keeps it.
LEMMA RunStepDrains == TypeOK /\ IInv /\ DrainInv /\ RunStep => DrainInv'
<1> SUFFICES ASSUME TypeOK, IInv, DrainInv, RunStep PROVE DrainInv'
  OBVIOUS
<1> USE DEF At, Unlaunched, BeforeWait, PastWait, KillPCs, SendersDropped, EOF, treeVars, runVars, drainVars
<1>x. HasExited' => HasExited \/ At(Main, "exited")
  BY RunStepReports
<1>u. \A r \in {"WaitFailed", "InvalidStateTransition", "Panic"} :
         /\ Unwind(r) /\ pc[Main] \in {"started", "monitor", "startwait", "recv", "inwait", "exited"}
         /\ UNCHANGED <<treeVars, wait_res, drain>>
         => DrainInv'
  BY <1>x, UnwindDrains
<1>g. ASSUME NEW l, Goto(Main, l) PROVE pc'[Main] = l /\ pc'[Waiter] = pc[Waiter]
  BY <1>g, MainMoves
<1>r. ret = "none"
  BY RunStepMoves DEF IInv, GuardInv, EscalationPCs
<1>1. CASE EmitStarted
  BY <1>1, <1>x, <1>u, <1>g DEF EmitStarted, DrainInv
<1>2. CASE Wire \/ CheckCancelled
  BY <1>2, <1>x, <1>g DEF Wire, CheckCancelled, DrainInv
<1>3. CASE StartMonitor
  BY <1>3, <1>x, <1>u, Distinct DEF StartMonitor, DrainInv, TypeOK, ThreadTypeOK
<1>4. CASE StartWait
  BY <1>4, <1>x, <1>u, Distinct DEF StartWait, DrainInv, TypeOK, ThreadTypeOK
<1>5. CASE DeliverChunk
  BY <1>5, <1>x, <1>u DEF DeliverChunk, DrainInv
<1>6. CASE RecvEnds
  BY <1>6, <1>x, <1>g DEF RecvEnds, DrainInv
<1>7. CASE WaitReturns
  BY <1>7, <1>x, <1>u, <1>g DEF WaitReturns, DrainInv
<1>8. CASE ClearKill \/ StopMonitor
  BY <1>8, <1>x, <1>g DEF ClearKill, StopMonitor, DrainInv
<1>9. CASE EmitExited
  <2>1. ASSUME ret' = Outcome, Goto(Main, "returned") PROVE Outcome # "none" /\ pc'[Main] = "returned" /\ pc'[Waiter] = pc[Waiter]
    BY <2>1, <1>g DEF Outcome
  <2> QED
    BY <1>9, <1>x, <1>u, <2>1 DEF EmitExited, DrainInv
<1> QED
  BY <1>1, <1>2, <1>3, <1>4, <1>5, <1>6, <1>7, <1>8, <1>9 DEF RunStep

\* A step that moves only a thread other than the caller's and wait()'s, or
\* the caller's within or at the end of a kill, and leaves the output alone.
LEMMA DrainFrame ==
    ASSUME TypeOK, DrainInv, UNCHANGED <<events, cfg, ret, chan, drain>>,
           pc'[Waiter] = pc[Waiter] /\ wait_res' = wait_res,
           \/ pc'[Main] = pc[Main]
           \/ /\ pc[Main] \in EscalationPCs
              /\ pc'[Main] \in EscalationPCs \/ pc'[Main] = AfterKill(Main)
           \/ At(Main, "reap") /\ pc'[Main] = "returned",
           pc[Main] \in {"probe", "fire"} \/ pc'[Main] \in {"probe", "fire"} => ret = "none",
           \A s \in Streams : EOF(s) => EOF(s)'
    PROVE  DrainInv'
<1> USE DEF At, Unlaunched, BeforeWait, PastWait, KillPCs, EscalationPCs, SendersDropped, AfterKill
<1>1. HasExited' = HasExited
  BY Frame
<1>2. \A s \in Streams : drain[s] = "done" => EOF(s)'
  BY DEF DrainInv
<1>3. CASE pc'[Main] = pc[Main]
  BY <1>1, <1>2, <1>3 DEF DrainInv
<1>4. CASE /\ pc[Main] \in EscalationPCs
           /\ pc'[Main] \in EscalationPCs \/ pc'[Main] = AfterKill(Main)
  BY <1>1, <1>2, <1>4 DEF DrainInv
<1>5. CASE At(Main, "reap") /\ pc'[Main] = "returned"
  BY <1>1, <1>2, <1>5 DEF DrainInv
<1> QED
  BY <1>3, <1>4, <1>5

\* cancel(), the monitor, both ends of wait() and the drain threads keep it.
LEMMA ThreadStepsDrain ==
    ASSUME TypeOK, IInv, DrainInv
    PROVE  /\ SpawnFails => DrainInv'
           /\ MonitorStep => DrainInv'
           /\ \A c \in Cancellers : CancelStep(c) => DrainInv'
           /\ StartDrains \/ JoinDrains => DrainInv'
           /\ \A s \in Streams : DrainStep(s) => DrainInv'
           /\ TreeMoves => DrainInv'
           /\ Done \/ UNCHANGED vars => DrainInv'
<1> USE DEF At, treeVars, runVars, handleVars, drainVars
<1>e. UNCHANGED <<pipe, holds>> => \A s \in Streams : EOF(s) => EOF(s)'
  BY DEF EOF
<1>p. pc[Main] \in {"probe", "fire"} => ret = "none"
  BY DEF IInv, GuardInv, KillPCs
<1>1. ASSUME SpawnFails PROVE DrainInv'
  <2>1. pc'[Main] = "returned" /\ pc'[Waiter] = pc[Waiter] /\ HasExited' = HasExited
    BY <1>1, MainMoves, Frame DEF SpawnFails
  <2> QED
    BY <1>1, <1>e, <2>1
    DEF SpawnFails, DrainInv, Unlaunched, BeforeWait, PastWait, KillPCs, SendersDropped, EOF
<1>2. ASSUME MonitorStep \/ \E c \in Cancellers : CancelStep(c) PROVE DrainInv'
  <2>1. pc'[Main] = pc[Main] /\ pc'[Waiter] = pc[Waiter]
    BY <1>2, GotoMoves, Distinct
    DEF MonitorStep, Deadline, MonitorStops, CancelStep, Swap, TakeKill, TypeOK
  <2>2. UNCHANGED <<events, cfg, ret, chan, drain, wait_res, pipe, holds>>
    BY <1>2 DEF MonitorStep, Deadline, MonitorStops, CancelStep, Swap, TakeKill
  <2> QED
    BY <1>e, <1>p, <2>1, <2>2, DrainFrame
<1>3. ASSUME StartDrains PROVE DrainInv'
  <2>1. At(Waiter, "drains") /\ pc'[Main] = pc[Main] /\ pc'[Waiter] \in {"waitpid", "dead"}
    BY <1>3, GotoMoves, Distinct DEF StartDrains, TypeOK
  <2>2. HasExited' = HasExited
    BY <1>3, Frame DEF StartDrains
  <2>3. \A s \in Streams : drain'[s] # "done"
    BY <1>3 DEF StartDrains
  <2> QED
    BY <1>3, <2>1, <2>2, <2>3
    DEF StartDrains, DrainInv, Unlaunched, BeforeWait, PastWait, KillPCs, SendersDropped
<1>4. ASSUME JoinDrains PROVE DrainInv'
  <2>1. At(Waiter, "join") /\ pc'[Main] = pc[Main] /\ pc'[Waiter] = "done"
    BY <1>4, GotoMoves, Distinct DEF JoinDrains, TypeOK
  <2>2. HasExited' = HasExited
    BY <1>4, Frame DEF JoinDrains
  <2> QED
    BY <1>4, <1>e, <2>1, <2>2
    DEF JoinDrains, DrainInv, Unlaunched, BeforeWait, PastWait, KillPCs, SendersDropped
<1>5. ASSUME NEW s \in Streams, DrainStep(s) PROVE DrainInv'
  <2>1. HasExited' = HasExited /\ UNCHANGED <<cfg, pc, ret, wait_res>> /\ drain[s] = "running"
    BY <1>5, Frame DEF DrainStep, Read, DrainEnds, ReadFails
  <2>2. \A r \in Streams : drain'[r] = drain[r] \/ (r = s /\ drain'[s] \in {"done", "failed"})
    BY <1>5 DEF DrainStep, Read, DrainEnds, ReadFails, TypeOK, DrainTypeOK
  <2>3. \A r \in Streams : drain'[r] = "done" => EOF(r)'
    <3>1. CASE DrainEnds(s)
      BY <3>1 DEF DrainEnds, DrainInv, EOF, TypeOK, DrainTypeOK
    <3>2. CASE Read(s) \/ ReadFails(s)
      <4>1. \A r \in Streams : EOF(r) => EOF(r)'
        BY <3>2, EOFStable DEF Read, ReadFails, TypeOK
      <4> QED
        BY <3>2, <4>1 DEF Read, ReadFails, DrainInv, TypeOK, DrainTypeOK
    <3> QED
      BY <1>5, <3>1, <3>2 DEF DrainStep
  <2>4. chan' # <<>> => At(Main, "recv")
    <3>1. CASE UNCHANGED chan
      BY <3>1 DEF DrainInv
    <3>2. CASE cfg.capture /\ ret = "none"
      BY <3>2, <2>1
      DEF DrainInv, TypeOK, ThreadTypeOK, MainPCs, EscalationPCs, BeforeWait, Unlaunched, PastWait,
          KillPCs, SendersDropped
    <3> QED
      BY <1>5, <3>1, <3>2 DEF DrainStep, Read, DrainEnds, ReadFails
  <2> QED
    BY <2>1, <2>2, <2>3, <2>4 DEF DrainInv, SendersDropped
<1>6. ASSUME TreeMoves PROVE DrainInv'
  <2>1. \A s \in Streams : EOF(s) => EOF(s)'
    BY <1>6, EOFStable DEF TreeMoves, ChildWrites, TypeOK
  <2> QED
    BY <1>6, <1>p, <2>1, DrainFrame DEF TreeMoves
<1>7. ASSUME Done \/ UNCHANGED vars PROVE DrainInv'
  BY <1>7, <1>e, <1>p, DrainFrame DEF Done, vars
<1> QED
  BY <1>1, <1>2, <1>3, <1>4, <1>5, <1>6, <1>7

\* Delivered chunks come first, then those in the channel.
LEMMA LogAt ==
    ASSUME TypeOK
    PROVE  /\ Log \in Seq(Events) /\ DOMAIN Log = 1 .. Len(Log)
           /\ Len(Log) = Len(events) + Len(chan)
           /\ \A i \in 1 .. Len(events) : Log[i] = events[i]
           /\ \A i \in 1 .. Len(chan) : Log[Len(events) + i] = chan[i]
<1>1. events \in Seq(Events) /\ chan \in Seq(Events)
  BY DEF TypeOK, RunTypeOK, DrainTypeOK, Events
<1> QED
  BY <1>1 DEF Log

\* Delivering the head of the channel does not change the log.
LEMMA DeliverKeepsLog ==
    ASSUME TypeOK, chan # <<>>, events' = Append(events, Head(chan)), chan' = Tail(chan)
    PROVE  Log' = Log
<1>1. events \in Seq(Events) /\ chan \in Seq(Events)
  BY DEF TypeOK, RunTypeOK, DrainTypeOK, Events
<1> QED
  BY <1>1 DEF Log

\* A chunk that is sent ends up at the end of the log.
LEMMA SendExtendsLog ==
    ASSUME TypeOK, NEW c, UNCHANGED events, chan' = Append(chan, c)
    PROVE  Log' = Append(Log, c)
<1>1. events \in Seq(Events) /\ chan \in Seq(Events)
  BY DEF TypeOK, RunTypeOK, DrainTypeOK, Events
<1> QED
  BY <1>1 DEF Log

\* A sequence of events numbers the chunks of every stream in order: below
\* the counter, after all smaller numbers and after nothing else.
Numbered(L, counter) ==
    \A i \in DOMAIN L : L[i].type = "Chunk" =>
        /\ L[i].stream \in Streams /\ L[i].seq \in 0 .. counter[L[i].stream] - 1
        /\ \A m \in 0 .. L[i].seq - 1 : \E j \in 1 .. i - 1 : L[j] = Chunk(L[i].stream, m)
        /\ \A j \in 1 .. i - 1 :
              L[j].type = "Chunk" /\ L[j].stream = L[i].stream => L[j].seq < L[i].seq

\* It has every chunk up to the counter.
Complete(L, counter) ==
    \A s \in Streams : \A n \in 0 .. counter[s] - 1 : \E i \in DOMAIN L : L[i] = Chunk(s, n)

\* Cutting the log off, or counting on without it, keeps the numbering.
LEMMA NumberedPrefix ==
    ASSUME NEW L \in Seq(Events), NEW M \in Seq(Events),
           NEW b \in [Streams -> Nat], NEW c \in [Streams -> Nat],
           Numbered(L, b), Len(M) <= Len(L), \A i \in 1 .. Len(M) : M[i] = L[i],
           \A s \in Streams : b[s] <= c[s]
    PROVE  Numbered(M, c)
<1>1. DOMAIN M = 1 .. Len(M) /\ DOMAIN L = 1 .. Len(L) /\ Len(M) \in Nat /\ Len(L) \in Nat
  OBVIOUS
<1> SUFFICES ASSUME NEW i \in 1 .. Len(M), M[i].type = "Chunk"
             PROVE  /\ M[i].stream \in Streams /\ M[i].seq \in 0 .. c[M[i].stream] - 1
                    /\ \A m \in 0 .. M[i].seq - 1 : \E j \in 1 .. i - 1 : M[j] = Chunk(M[i].stream, m)
                    /\ \A j \in 1 .. i - 1 :
                          M[j].type = "Chunk" /\ M[j].stream = M[i].stream => M[j].seq < M[i].seq
  BY <1>1 DEF Numbered
<1>2. M[i] = L[i] /\ i \in DOMAIN L /\ \A j \in 1 .. i - 1 : M[j] = L[j]
  BY <1>1
<1>3. L[i].stream \in Streams /\ L[i].seq \in 0 .. b[L[i].stream] - 1
  BY <1>2 DEF Numbered
<1>4. L[i].seq \in 0 .. c[L[i].stream] - 1
  BY <1>3
<1>5. /\ \A m \in 0 .. L[i].seq - 1 : \E j \in 1 .. i - 1 : L[j] = Chunk(L[i].stream, m)
      /\ \A j \in 1 .. i - 1 : L[j].type = "Chunk" /\ L[j].stream = L[i].stream => L[j].seq < L[i].seq
  BY <1>2 DEF Numbered
<1> QED
  BY <1>2, <1>3, <1>4, <1>5

\* An event that is no chunk changes nothing.
LEMMA NumberedOther ==
    ASSUME NEW L \in Seq(Events), NEW e \in Events, e.type # "Chunk",
           NEW b \in [Streams -> Nat], Numbered(L, b)
    PROVE  Numbered(Append(L, e), b)
<1> DEFINE M == Append(L, e)
<1>1. /\ M \in Seq(Events) /\ Len(M) = Len(L) + 1 /\ Len(L) \in Nat /\ DOMAIN L = 1 .. Len(L)
      /\ DOMAIN M = 1 .. Len(M) /\ M[Len(M)] = e /\ \A i \in 1 .. Len(L) : M[i] = L[i]
  OBVIOUS
<1> HIDE DEF M
<1> SUFFICES ASSUME NEW i \in 1 .. Len(M), M[i].type = "Chunk"
             PROVE  /\ M[i].stream \in Streams /\ M[i].seq \in 0 .. b[M[i].stream] - 1
                    /\ \A m \in 0 .. M[i].seq - 1 : \E j \in 1 .. i - 1 : M[j] = Chunk(M[i].stream, m)
                    /\ \A j \in 1 .. i - 1 :
                          M[j].type = "Chunk" /\ M[j].stream = M[i].stream => M[j].seq < M[i].seq
  BY <1>1 DEF Numbered, M
<1>2. M[i] = L[i] /\ i \in DOMAIN L /\ \A j \in 1 .. i - 1 : M[j] = L[j]
  BY <1>1
<1> QED
  BY <1>2 DEF Numbered

\* The next chunk of a stream goes to the end of a log that has the others.
LEMMA NumberedNext ==
    ASSUME NEW L \in Seq(Events), NEW b \in [Streams -> Nat], NEW s \in Streams,
           Numbered(L, b), Complete(L, b)
    PROVE  /\ Numbered(Append(L, Chunk(s, b[s])), [b EXCEPT ![s] = @ + 1])
           /\ Complete(Append(L, Chunk(s, b[s])), [b EXCEPT ![s] = @ + 1])
<1> DEFINE e == Chunk(s, b[s])
           M == Append(L, e)
           c == [b EXCEPT ![s] = @ + 1]
<1>1. e \in Events /\ e.type = "Chunk" /\ e.stream = s /\ e.seq = b[s]
  BY DEF Chunk, Events, Chunks
<1>c. c \in [Streams -> Nat] /\ c[s] = b[s] + 1 /\ \A r \in Streams : r # s => c[r] = b[r]
  OBVIOUS
<1>d. \A r \in Streams : b[r] \in Nat /\ c[r] \in Nat /\ b[r] <= c[r]
  BY <1>c
<1> HIDE DEF e, c
<1>2. /\ M \in Seq(Events) /\ Len(M) = Len(L) + 1 /\ Len(L) \in Nat /\ DOMAIN L = 1 .. Len(L)
      /\ DOMAIN M = 1 .. Len(M) /\ M[Len(M)] = e /\ \A i \in 1 .. Len(L) : M[i] = L[i]
  BY <1>1
<1> HIDE DEF M
<1>3. Numbered(M, c)
  <2> SUFFICES ASSUME NEW i \in 1 .. Len(M), M[i].type = "Chunk"
               PROVE  /\ M[i].stream \in Streams /\ M[i].seq \in 0 .. c[M[i].stream] - 1
                      /\ \A m \in 0 .. M[i].seq - 1 : \E j \in 1 .. i - 1 : M[j] = Chunk(M[i].stream, m)
                      /\ \A j \in 1 .. i - 1 :
                            M[j].type = "Chunk" /\ M[j].stream = M[i].stream => M[j].seq < M[i].seq
    BY <1>2 DEF Numbered
  <2>1. CASE i \in 1 .. Len(L)
    <3>1. M[i] = L[i] /\ i \in DOMAIN L /\ \A j \in 1 .. i - 1 : M[j] = L[j]
      BY <1>2, <2>1
    <3>2. L[i].stream \in Streams /\ L[i].seq \in 0 .. b[L[i].stream] - 1
      BY <3>1 DEF Numbered
    <3>3. L[i].seq \in 0 .. c[L[i].stream] - 1
      BY <1>d, <3>2
    <3>4. /\ \A m \in 0 .. L[i].seq - 1 : \E j \in 1 .. i - 1 : L[j] = Chunk(L[i].stream, m)
          /\ \A j \in 1 .. i - 1 :
                L[j].type = "Chunk" /\ L[j].stream = L[i].stream => L[j].seq < L[i].seq
      BY <3>1 DEF Numbered
    <3> QED
      BY <3>1, <3>2, <3>3, <3>4
  <2>2. CASE i = Len(M)
    <3>1. M[i] = e /\ i - 1 = Len(L)
      BY <1>2, <2>2
    <3>2. \A m \in 0 .. b[s] - 1 : \E j \in 1 .. Len(L) : M[j] = Chunk(s, m)
      BY <1>2 DEF Complete
    <3>3. \A j \in 1 .. Len(L) : M[j].type = "Chunk" /\ M[j].stream = s => M[j].seq < b[s]
      BY <1>2 DEF Numbered
    <3> QED
      BY <1>1, <1>c, <3>1, <3>2, <3>3
  <2> QED
    BY <1>2, <2>1, <2>2
<1>4. Complete(M, c)
  <2> SUFFICES ASSUME NEW r \in Streams, NEW n \in 0 .. c[r] - 1
               PROVE  \E i \in DOMAIN M : M[i] = Chunk(r, n)
    BY DEF Complete
  <2>1. CASE n \in 0 .. b[r] - 1
    BY <1>2, <2>1 DEF Complete
  <2>2. CASE ~(n \in 0 .. b[r] - 1)
    BY <1>c, <1>2, <2>2 DEF e
  <2> QED
    BY <2>1, <2>2
<1> QED
  BY <1>3, <1>4 DEF M, e, c

\* The log is numbered, and complete unless the run was left early.
LogInv ==
    /\ Numbered(Log, seq)
    /\ ret = "none" \/ HasExited => Complete(Log, seq)

\* A step that neither emits, sends, drops nor settles the result.
LEMMA LogFrame == LogInv /\ UNCHANGED <<events, chan, seq, ret>> => LogInv'
<1> SUFFICES ASSUME LogInv, UNCHANGED <<events, chan, seq, ret>> PROVE LogInv'
  OBVIOUS
<1>1. Log' = Log /\ seq' = seq /\ ret' = ret /\ HasExited' = HasExited
  BY Frame DEF Log
<1> QED
  BY <1>1 DEF LogInv

\* run_impl keeps the log numbered, and complete until it is left early.
LEMMA RunStepLog ==
    ASSUME TypeOK, IInv, DrainInv, LogInv, RunStep
    PROVE  LogInv'
<1> USE DEF At, treeVars, runVars, drainVars
<1>t. /\ events \in Seq(Events) /\ chan \in Seq(Chunks) /\ chan \in Seq(Events)
      /\ seq \in [Streams -> Nat] /\ Log \in Seq(Events)
  BY LogAt DEF TypeOK, RunTypeOK, DrainTypeOK, Events
<1>r. ret = "none"
  BY RunStepMoves DEF IInv, GuardInv, EscalationPCs, KillPCs
<1>s. seq' = seq
  BY RunStepMoves
<1>c. Numbered(Log, seq) /\ Complete(Log, seq)
  BY <1>r DEF LogInv
<1>e. pc[Main] # "recv" => chan = <<>>
  BY DEF DrainInv
<1>1. ASSUME Log' = Log PROVE LogInv'
  BY <1>1, <1>c, <1>s DEF LogInv
<1>2. ASSUME NEW e \in Events, e.type # "Chunk", Log' = Append(Log, e) PROVE LogInv'
  <2>1. Numbered(Append(Log, e), seq)
    BY <1>t, <1>c, <1>2, NumberedOther
  <2>2. /\ DOMAIN Log \subseteq DOMAIN Append(Log, e)
        /\ \A i \in DOMAIN Log : Append(Log, e)[i] = Log[i]
    BY <1>t, <1>2
  <2>3. Complete(Append(Log, e), seq)
    BY <1>c, <2>2 DEF Complete
  <2> QED
    BY <1>2, <1>s, <2>1, <2>3 DEF LogInv
<1>3. ASSUME chan = <<>>, chan' = <<>>, UNCHANGED events PROVE LogInv'
  BY <1>1, <1>3 DEF Log
<1>4. ASSUME chan = <<>>, chan' = <<>>, NEW e \in Events, e.type # "Chunk", events' = Append(events, e)
      PROVE  LogInv'
  <2>1. Log = events /\ Log' = events'
    BY <1>t, <1>4 DEF Log
  <2> QED
    BY <1>2, <1>4, <2>1
<1>5. CASE EmitStarted
  <2>1. Started \in Events /\ Started.type # "Chunk"
    BY DEF Started, Events
  <2> QED
    BY <1>3, <1>4, <1>5, <1>e, <2>1 DEF EmitStarted, Unwind
<1>6. CASE DeliverChunk
  <2>1. CASE chan' = Tail(chan)
    BY <1>1, <1>6, <2>1, DeliverKeepsLog DEF DeliverChunk
  <2>2. CASE Unwind("Panic")
    <3>1. chan # <<>> /\ events' = Append(events, Head(chan)) /\ chan' = <<>> /\ ret' = "Panic"
      BY <1>6, <2>2 DEF DeliverChunk, Unwind
    <3>2. Head(chan) = chan[1] /\ Len(chan) \in Nat /\ Len(chan) > 0 /\ Head(chan) \in Events
      BY <1>t, <3>1
    <3>3. Log' = events' /\ events' \in Seq(Events) /\ Len(events') = Len(events) + 1
      BY <1>t, <3>1, <3>2 DEF Log
    <3>4. Len(Log') <= Len(Log)
      BY <1>t, <3>2, <3>3, LogAt
    <3>5. \A i \in 1 .. Len(Log') : Log'[i] = Log[i]
      <4> SUFFICES ASSUME NEW i \in 1 .. Len(events) + 1 PROVE events'[i] = Log[i]
        BY <3>3
      <4>1. CASE i \in 1 .. Len(events)
        BY <1>t, <3>1, <4>1, LogAt
      <4>2. CASE i = Len(events) + 1
        BY <1>t, <3>1, <3>2, <4>2, LogAt
      <4> QED
        BY <1>t, <4>1, <4>2
    <3>6. Numbered(Log', seq)
      <4>1. Log' \in Seq(Events) /\ \A s \in Streams : seq[s] <= seq[s]
        BY <1>t, <3>3
      <4> QED
        BY <1>t, <1>c, <3>4, <3>5, <4>1, NumberedPrefix
    <3>7. ~HasExited'
      BY <1>6, RunStepReports DEF DeliverChunk, IInv, ExitInv
    <3> QED
      BY <1>s, <3>1, <3>6, <3>7 DEF LogInv
  <2> QED
    BY <1>6, <2>1, <2>2 DEF DeliverChunk
<1>7. CASE EmitExited
  <2>1. Exited(ExitCode, Reason) \in Events /\ Exited(ExitCode, Reason).type # "Chunk"
    BY DEF TypeOK, TreeTypeOK, Exited, Events, ExitCode, Reason, ExitReasons, WasCancelled
  <2> QED
    BY <1>3, <1>4, <1>7, <1>e, <2>1 DEF EmitExited, Unwind
<1>8. CASE StartMonitor \/ StartWait \/ WaitReturns
  BY <1>3, <1>8, <1>e DEF StartMonitor, StartWait, WaitReturns, Unwind
<1>9. CASE Wire \/ CheckCancelled \/ RecvEnds \/ ClearKill \/ StopMonitor
  BY <1>9, LogFrame DEF Wire, CheckCancelled, RecvEnds, ClearKill, StopMonitor
<1> QED
  BY <1>5, <1>6, <1>7, <1>8, <1>9 DEF RunStep

\* The drain threads extend it; nobody else touches it.
LEMMA ThreadStepsLog ==
    ASSUME TypeOK, IInv, DrainInv, LogInv
    PROVE  /\ SpawnFails => LogInv'
           /\ MonitorStep => LogInv'
           /\ \A c \in Cancellers : CancelStep(c) => LogInv'
           /\ StartDrains \/ JoinDrains => LogInv'
           /\ \A s \in Streams : DrainStep(s) => LogInv'
           /\ TreeMoves => LogInv'
           /\ Done \/ UNCHANGED vars => LogInv'
<1> USE DEF At, runVars, drainVars
<1>t. /\ events \in Seq(Events) /\ chan \in Seq(Events)
      /\ seq \in [Streams -> Nat] /\ Log \in Seq(Events)
  BY LogAt DEF TypeOK, RunTypeOK, DrainTypeOK, Events
<1>1. ASSUME SpawnFails PROVE LogInv'
  <2>1. Log' = Log /\ seq' = seq /\ ret' = "SpawnFailed" /\ HasExited' = HasExited
    BY <1>1, Frame DEF SpawnFails, Log
  <2> QED
    BY <2>1 DEF LogInv
<1>2. ASSUME \/ MonitorStep \/ StartDrains \/ JoinDrains \/ TreeMoves \/ Done \/ UNCHANGED vars
             \/ \E c \in Cancellers : CancelStep(c)
      PROVE  LogInv'
  <2>1. UNCHANGED <<events, chan, seq, ret>>
    BY <1>2 DEF MonitorStep, Deadline, MonitorStops, StartDrains, JoinDrains, TreeMoves, Done, vars,
                CancelStep, Swap, TakeKill
  <2> QED
    BY <2>1, LogFrame
<1>3. ASSUME NEW s \in Streams, Read(s) PROVE LogInv'
  <2>1. HasExited' = HasExited /\ events' = events /\ ret' = ret
    BY <1>3, Frame DEF Read
  <2>2. ~HasExited
    BY <1>3 DEF Read, DrainInv
  <2>3. CASE cfg.capture /\ ret = "none"
    <3>1. Log' = Append(Log, Chunk(s, seq[s])) /\ seq' = [seq EXCEPT ![s] = @ + 1]
      BY <1>3, <2>1, <2>3, SendExtendsLog DEF Read
    <3>2. Numbered(Log, seq) /\ Complete(Log, seq)
      BY <2>3 DEF LogInv
    <3> QED
      BY <1>t, <3>1, <3>2, NumberedNext DEF LogInv
  <2>4. CASE cfg.capture /\ ret # "none"
    <3>1. Log' = Log /\ seq' = [seq EXCEPT ![s] = @ + 1]
      BY <1>3, <2>1, <2>4 DEF Read, Log
    <3>2. seq' \in [Streams -> Nat] /\ \A r \in Streams : seq[r] <= seq'[r]
      BY <1>t, <3>1
    <3>3. Numbered(Log, seq')
      <4>1. Numbered(Log, seq) /\ Len(Log) <= Len(Log) /\ \A i \in 1 .. Len(Log) : Log[i] = Log[i]
        BY <1>t DEF LogInv
      <4> QED
        BY <1>t, <3>2, <4>1, NumberedPrefix
    <3> QED
      BY <2>1, <2>2, <2>4, <3>1, <3>3 DEF LogInv
  <2>5. CASE ~cfg.capture
    BY <1>3, <2>1, <2>5, LogFrame DEF Read
  <2> QED
    BY <2>3, <2>4, <2>5
<1>4. ASSUME NEW s \in Streams, DrainEnds(s) \/ ReadFails(s) PROVE LogInv'
  BY <1>4, LogFrame DEF DrainEnds, ReadFails
<1> QED
  BY <1>1, <1>2, <1>3, <1>4 DEF DrainStep

\* What the two say of what the caller sees.
LEMMA OutputFollows ==
    ASSUME TypeOK, IInv, DrainInv, LogInv
    PROVE  ChunksInOrder /\ OutputComplete
<1>t. /\ events \in Seq(Events) /\ chan \in Seq(Events) /\ seq \in [Streams -> Nat]
      /\ Log \in Seq(Events) /\ DOMAIN Log = 1 .. Len(Log) /\ Len(Log) \in Nat
  BY LogAt DEF TypeOK, RunTypeOK, DrainTypeOK, Events
<1>1. ChunksInOrder
  <2> SUFFICES ASSUME NEW i \in DOMAIN Log, Log[i].type = "Chunk"
               PROVE  /\ Log[i].seq < seq[Log[i].stream]
                      /\ Log[i].seq > 0 =>
                            \E j \in 1 .. i - 1 : Log[j] = Chunk(Log[i].stream, Log[i].seq - 1)
                      /\ \A j \in DOMAIN Log : Log[j] = Log[i] => j = i
    BY DEF ChunksInOrder
  <2>1. /\ Log[i].stream \in Streams /\ Log[i].seq \in 0 .. seq[Log[i].stream] - 1
        /\ \A m \in 0 .. Log[i].seq - 1 : \E j \in 1 .. i - 1 : Log[j] = Chunk(Log[i].stream, m)
    BY DEF LogInv, Numbered
  <2>2. Log[i].seq \in Nat /\ seq[Log[i].stream] \in Nat
    BY <1>t, <2>1
  <2>3. Log[i].seq > 0 => Log[i].seq - 1 \in 0 .. Log[i].seq - 1
    BY <2>2
  <2>4. ASSUME NEW j \in DOMAIN Log, Log[j] = Log[i] PROVE j = i
    <3>1. /\ \A k \in 1 .. i - 1 : Log[k].type = "Chunk" /\ Log[k].stream = Log[i].stream
                                     => Log[k].seq < Log[i].seq
          /\ \A k \in 1 .. j - 1 : Log[k].type = "Chunk" /\ Log[k].stream = Log[j].stream
                                     => Log[k].seq < Log[j].seq
      BY <2>4 DEF LogInv, Numbered
    <3>2. ~(j < i)
      <4> SUFFICES ASSUME j < i PROVE FALSE
        OBVIOUS
      <4>1. j \in 1 .. i - 1
        BY <1>t
      <4>2. Log[j].seq < Log[i].seq
        BY <2>4, <3>1, <4>1
      <4> QED
        BY <2>2, <2>4, <4>2
    <3>3. ~(i < j)
      <4> SUFFICES ASSUME i < j PROVE FALSE
        OBVIOUS
      <4>1. i \in 1 .. j - 1
        BY <1>t
      <4>2. Log[i].seq < Log[j].seq
        BY <2>4, <3>1, <4>1
      <4> QED
        BY <2>2, <2>4, <4>2
    <3> QED
      BY <1>t, <3>2, <3>3
  <2> QED
    BY <2>1, <2>2, <2>3, <2>4
<1>2. OutputComplete
  <2> SUFFICES ASSUME HasExited, NEW s \in Streams
               PROVE  /\ EOF(s) \/ drain[s] = "failed"
                      /\ \A n \in 0 .. seq[s] - 1 : \E i \in DOMAIN events : events[i] = Chunk(s, n)
    BY DEF OutputComplete
  <2>1. EOF(s) \/ drain[s] = "failed"
    BY DEF DrainInv
  <2>2. chan = <<>>
    BY DEF DrainInv, IInv, ExitInv, At
  <2>3. Log = events
    BY <1>t, <2>2 DEF Log
  <2> QED
    BY <2>1, <2>3 DEF LogInv, Complete
<1> QED
  BY <1>1, <1>2

\* Nothing has been read before the spawn.
LEMMA OutputInit == Init => DrainInv /\ LogInv
<1> SUFFICES ASSUME Init PROVE DrainInv /\ LogInv
  OBVIOUS
<1>1. pc[Main] = "idle" /\ pc[Waiter] = "off"
  BY Distinct DEF Init
<1>2. ~HasExited
  BY DEF Init, HasExited
<1>3. Log = <<>>
  BY DEF Init, Log
<1>4. DrainInv
  BY <1>1, <1>2 DEF Init, DrainInv, At, PastWait, KillPCs
<1>5. LogInv
  BY <1>3 DEF Init, LogInv, Numbered, Complete
<1> QED
  BY <1>4, <1>5

-----------------------------------------------------------------------------
(* The contract of run(): what each step is in RunContract. *)

\* What the run has emitted and what its result can be, by where it is: no
\* edge of the state machine is ever refused.
EmitInv ==
    /\ pc[Main] \in Unlaunched \union {"started"} => machine = "Created" /\ events = <<>>
    /\ pc[Main] \notin Unlaunched \union {"started", "returned"} => Contract!Emitted("Started")
    /\ pc[Main] \notin Unlaunched \union KillPCs \union {"started", "reap", "returned"} =>
           machine = "Running"
    /\ pc[Main] \in KillPCs /\ ret = "none" => machine = "Running"
    /\ pc[Main] \in KillPCs \union {"reap"} => ret \in {"none", "WaitFailed", "Panic"}

\* The chunks of a stream that precede its chunk number n are n.
LEMMA CountBelow ==
    ASSUME NEW L \in Seq(Events), NEW counter \in [Streams -> Nat], Numbered(L, counter),
           NEW k \in 1 .. Len(L), L[k].type = "Chunk"
    PROVE  Cardinality({i \in 1 .. k - 1 : L[i].type = "Chunk" /\ L[i].stream = L[k].stream}) = L[k].seq
<1> DEFINE s == L[k].stream
           n == L[k].seq
           I == {i \in 1 .. k - 1 : L[i].type = "Chunk" /\ L[i].stream = s}
           f == [i \in I |-> L[i].seq]
<1>1. DOMAIN L = 1 .. Len(L) /\ Len(L) \in Nat /\ s \in Streams /\ n \in Nat
  BY DEF Numbered
<1>i. I \subseteq 1 .. Len(L)
  BY <1>1
<1>0. \A i \in I : i \in Nat /\ i \in DOMAIN L /\ L[i].seq \in Nat
  <2> SUFFICES ASSUME NEW i \in I PROVE i \in Nat /\ i \in DOMAIN L /\ L[i].seq \in Nat
    OBVIOUS
  <2>1. i \in Nat /\ i \in DOMAIN L /\ L[i].type = "Chunk"
    BY <1>1, <1>i
  <2> QED
    BY <2>1 DEF Numbered
<1>2. \A i \in I : L[i].seq \in 0 .. n - 1
  <2> SUFFICES ASSUME NEW i \in I PROVE L[i].seq < n
    BY <1>0, <1>1
  <2> QED
    BY <1>1 DEF Numbered
<1>3. \A i, j \in I : L[i].seq = L[j].seq => i = j
  <2>1. ASSUME NEW i \in I, NEW j \in I, i < j PROVE L[i].seq < L[j].seq
    <3>1. i \in 1 .. j - 1 /\ j \in DOMAIN L
      BY <1>0, <1>1, <2>1
    <3> QED
      BY <3>1 DEF Numbered
  <2> HIDE DEF I
  <2> SUFFICES ASSUME NEW i \in I, NEW j \in I, L[i].seq = L[j].seq, i # j PROVE FALSE
    OBVIOUS
  <2>2. i < j \/ j < i
    BY <1>0
  <2> QED
    BY <1>0, <2>1, <2>2
<1>4. \A m \in 0 .. n - 1 : \E i \in I : L[i].seq = m
  <2> SUFFICES ASSUME NEW m \in 0 .. n - 1 PROVE \E i \in I : L[i].seq = m
    OBVIOUS
  <2>1. PICK i \in 1 .. k - 1 : L[i] = Chunk(s, m)
    BY <1>1 DEF Numbered
  <2>2. L[i].type = "Chunk" /\ L[i].stream = s /\ L[i].seq = m
    BY <2>1 DEF Chunk
  <2> QED
    BY <2>2
<1>5. f \in Bijection(I, 0 .. n - 1)
  <2> HIDE DEF I, n
  <2>1. f \in [I -> 0 .. n - 1] /\ \A i \in I : f[i] = L[i].seq
    BY <1>2
  <2> HIDE DEF f
  <2> QED
    BY <1>3, <1>4, <2>1 DEF Bijection, Injection, Surjection, IsInjective
<1> HIDE DEF f, I, s, n
<1>6. IsFiniteSet(0 .. n - 1) /\ Cardinality(0 .. n - 1) = n
  <2>1. 0 \in Int /\ n - 1 \in Int /\ (IF 0 > n - 1 THEN 0 ELSE (n - 1) - 0 + 1) = n
    BY <1>1
  <2> QED
    BY <2>1, FS_Interval
<1>7. ExistsBijection(0 .. n - 1, I)
  BY <1>5, Fun_ExistsBijSymmetric DEF ExistsBijection
<1>8. Cardinality(I) = Cardinality(0 .. n - 1)
  BY <1>6, <1>7, FS_Bijection
<1> QED
  BY <1>6, <1>8 DEF I, s, n

\* What has been emitted stays emitted.
LEMMA EmittedStays ==
    ASSUME TypeOK, NEW e, UNCHANGED events \/ events' = Append(events, e), Contract!Emitted("Started")
    PROVE  Contract!Emitted("Started")'
<1>1. PICK i \in DOMAIN events : events[i].type = "Started"
  BY DEF Contract!Emitted
<1>2. i \in DOMAIN events' /\ events'[i] = events[i]
  BY DEF TypeOK, RunTypeOK
<1> QED
  BY <1>1, <1>2 DEF Contract!Emitted

\* run_impl emits Started first and takes no illegal edge.
LEMMA RunStepEmits == TypeOK /\ IInv /\ EmitInv /\ RunStep => EmitInv'
<1> SUFFICES ASSUME TypeOK, IInv, EmitInv, RunStep PROVE EmitInv'
  OBVIOUS
<1> USE DEF At, Unlaunched, KillPCs, treeVars, runVars, handleVars, drainVars
<1>r. ret = "none" /\ pc[Main] \notin Unlaunched \union KillPCs \union {"reap", "returned"}
  BY RunStepMoves DEF IInv, GuardInv, EscalationPCs
<1>m. pc'[Main] \notin Unlaunched \union {"started", "fire", "poll", "sigkill", "reap"}
  BY RunStepMoves
<1>1. CASE EmitStarted
  <2>1. machine = "Created" /\ events = <<>> /\ guard
    BY <1>1 DEF EmitStarted, EmitInv, IInv, GuardInv, PastWait
  <2>2. machine' = "Running" /\ events' = Append(events, Started) /\ ret' \in {"none", "Panic"}
        /\ (ret' = "none" => pc'[Main] \in {"wire", "monitor"})
    BY <1>1, <1>r, <2>1, MainMoves DEF EmitStarted, Legal, Unwind
  <2>3. events' = <<Started>> /\ events'[1].type = "Started" /\ 1 \in DOMAIN events'
    BY <2>1, <2>2 DEF Started
  <2>4. Contract!Emitted("Started")'
    BY <2>3 DEF Contract!Emitted
  <2> QED
    BY <1>m, <2>2, <2>4 DEF EmitInv
<1>2. CASE EmitExited
  <2>1. pc'[Main] = "returned"
    BY <1>2, MainMoves DEF EmitExited, Unwind, IInv, GuardInv, PastWait
  <2> QED
    BY <2>1 DEF EmitInv
<1>3. CASE ~EmitStarted /\ ~EmitExited
  <2>1. /\ pc[Main] # "started" /\ UNCHANGED machine
        /\ UNCHANGED events \/ events' = Append(events, Head(chan))
        /\ ret' \in {"none", "WaitFailed", "Panic"}
    BY <1>3, <1>r
    DEF RunStep, Wire, CheckCancelled, StartMonitor, StartWait, DeliverChunk, RecvEnds, WaitReturns,
        ClearKill, StopMonitor, Unwind
  <2>2. Contract!Emitted("Started")'
    BY <1>r, <2>1, EmittedStays DEF EmitInv
  <2>3. machine' = "Running"
    BY <1>r, <2>1 DEF EmitInv
  <2> QED
    BY <1>m, <2>1, <2>2, <2>3 DEF EmitInv
<1> QED
  BY <1>1, <1>2, <1>3

\* The other threads emit nothing; a kill brings the caller's thread back to
\* the run or to its early return.
LEMMA EmitFrame ==
    ASSUME TypeOK, IInv, IInv', EmitInv, UNCHANGED <<machine, events, ret>>,
           \/ pc'[Main] = pc[Main] \/ pc'[Main] = "returned"
           \/ pc[Main] \in Unlaunched /\ pc'[Main] \in Unlaunched \union {"started"}
           \/ pc[Main] \in EscalationPCs /\ pc'[Main] \in EscalationPCs \union {AfterKill(Main)}
    PROVE  EmitInv'
<1> USE DEF Unlaunched, KillPCs, EscalationPCs
<1>1. Contract!Emitted("Started") => Contract!Emitted("Started")'
  BY EmittedStays
<1>2. pc[Main] \in {"probe", "fire"} => ret = "none"
  BY DEF IInv, GuardInv
<1>3. AfterKill(Main) = IF ret = "none" THEN "monitor" ELSE "reap"
  BY DEF AfterKill
<1>4. CASE pc'[Main] = pc[Main] \/ pc'[Main] = "returned"
  BY <1>1, <1>4 DEF EmitInv
<1>5. CASE pc[Main] \in Unlaunched /\ pc'[Main] \in Unlaunched \union {"started"}
  BY <1>5 DEF EmitInv
<1>6. CASE pc[Main] \in EscalationPCs /\ pc'[Main] \in EscalationPCs \union {AfterKill(Main)}
  <2>1. Contract!Emitted("Started")' /\ (ret = "none" => machine = "Running")
    BY <1>1, <1>6 DEF EmitInv
  <2>2. ret \in {"none", "WaitFailed", "Panic"} /\ pc'[Main] \notin Unlaunched \union {"started"}
    BY <1>2, <1>3, <1>6 DEF EmitInv
  <2>3. pc'[Main] \in {"probe", "fire"} => ret = "none"
    BY DEF IInv, GuardInv
  <2> QED
    BY <1>3, <1>6, <2>1, <2>2, <2>3 DEF EmitInv
<1> QED
  BY <1>4, <1>5, <1>6

\* One step of the contract, or none.
ContractStep == [Contract!Next]_(Contract!contractVars)

\* What the other threads, the kernel and the processes do is a change of the
\* live tree, or nothing the contract sees, as long as a dead tree stays dead.
LEMMA ContractFrame ==
    ASSUME TypeOK, UNCHANGED <<events, ret>>, Reachable = {} => Reachable' = {},
           \/ pc'[Main] = pc[Main]
           \/ {pc[Main], pc'[Main]} \intersect (Unlaunched \union {"returned"}) = {}
           \/ {pc[Main], pc'[Main]} \subseteq Unlaunched
    PROVE  ContractStep
<1> USE DEF At, Launched, Unlaunched
<1>1. /\ Launched' = Launched
      /\ (IF At(Main, "returned") THEN ret ELSE "none")' = IF At(Main, "returned") THEN ret ELSE "none"
  OBVIOUS
<1>2. Reachable' \in SUBSET Procs
  BY DEF Reachable, Group
<1>3. CASE Reachable' = Reachable \/ ~Launched
  BY <1>1, <1>3 DEF ContractStep, Contract!contractVars
<1>4. CASE Reachable' # Reachable /\ Launched
  <2>1. Contract!TreeChanges
    BY <1>1, <1>2, <1>4 DEF Contract!TreeChanges
  <2> QED
    BY <2>1 DEF ContractStep, Contract!Next
<1> QED
  BY <1>3, <1>4

\* A spawn that succeeds, and one that is refused.
LEMMA ContractSpawn ==
    ASSUME TypeOK, IInv, pc[Main] \in Unlaunched, UNCHANGED events
    PROVE  /\ pc'[Main] = "started" /\ UNCHANGED ret => ContractStep
           /\ pc'[Main] = "returned" /\ ret' = "SpawnFailed" => ContractStep
<1> USE DEF At, Launched, Unlaunched
<1>1. ret = "none"
  BY DEF IInv, GuardInv, KillPCs
<1>2. Reachable' \in SUBSET Procs
  BY DEF Reachable, Group
<1>3. ASSUME pc'[Main] = "started", UNCHANGED ret PROVE ContractStep
  <2>1. Contract!Launch
    BY <1>1, <1>2, <1>3 DEF Contract!Launch
  <2> QED
    BY <2>1 DEF ContractStep, Contract!Next
<1>4. ASSUME pc'[Main] = "returned", ret' = "SpawnFailed" PROVE ContractStep
  <2>1. Contract!Refuse
    BY <1>1, <1>4 DEF Contract!Refuse
  <2> QED
    BY <2>1 DEF ContractStep, Contract!Next
<1> QED
  BY <1>3, <1>4

\* An early return after the guard's kill: it leaves nothing live behind.
LEMMA ContractAbort ==
    ASSUME TypeOK, IInv, DrainInv, EmitInv, At(Main, "reap"), pc'[Main] = "returned",
           UNCHANGED <<events, ret>>, Reachable' \subseteq Reachable
    PROVE  ContractStep
<1> USE DEF At, Launched, Unlaunched
<1>1. ret \in {"WaitFailed", "Panic"} /\ Contract!Emitted("Started") /\ Reachable = {} /\ ~HasExited
  BY DEF EmitInv, KillPCs, DrainInv, IInv, QuietInv, ExitInv
<1>2. Contract!Abort
  BY <1>1 DEF Contract!Abort, Contract!Emitted, HasExited
<1> QED
  BY <1>2 DEF ContractStep, Contract!Next

\* Every step of run_impl is an emission of the contract or none of its steps.
LEMMA RunStepContract ==
    ASSUME TypeOK, IInv, DrainInv, LogInv, EmitInv, RunStep
    PROVE  ContractStep
<1> USE DEF At, Launched, Unlaunched, treeVars, runVars, handleVars, drainVars
<1>r. ret = "none" /\ pc[Main] \notin Unlaunched \union KillPCs \union {"reap", "returned"}
  BY RunStepMoves DEF IInv, GuardInv, EscalationPCs, KillPCs
<1>m. /\ pc'[Main] \notin Unlaunched /\ ret' # "SpawnFailed"
      /\ pc'[Main] = "returned" => At(Main, "exited")
  BY RunStepMoves
<1>l. Launched /\ Launched' /\ Reachable' = Reachable
  BY <1>r, <1>m, RunStepMoves, Frame
<1>x. ~Contract!Emitted("Exited")
  BY <1>r DEF IInv, ExitInv, HasExited, Contract!Emitted
<1>1. CASE EmitStarted
  <2>1. machine = "Created" /\ events = <<>>
    BY <1>1 DEF EmitStarted, EmitInv
  <2>2. events' = Append(events, Started) /\ pc'[Main] # "returned"
    BY <1>1, <1>m, <2>1 DEF EmitStarted, Legal
  <2>3. events' = <<[type |-> "Started"]>>
    BY <2>1, <2>2 DEF Started
  <2>4. Contract!EmitStarted
    BY <1>l, <1>r, <2>1, <2>2, <2>3 DEF Contract!EmitStarted
  <2> QED
    BY <2>4 DEF ContractStep, Contract!Next
<1>2. CASE DeliverChunk
  <2>t. events \in Seq(Events) /\ chan \in Seq(Chunks) /\ seq \in [Streams -> Nat] /\ Log \in Seq(Events)
    BY LogAt DEF TypeOK, RunTypeOK, DrainTypeOK
  <2> DEFINE k == Len(events) + 1
             s == Head(chan).stream
             n == Head(chan).seq
  <2>1. /\ chan # <<>> /\ events' = Append(events, Head(chan)) /\ pc'[Main] # "returned"
        /\ Contract!Emitted("Started")
    BY <1>2, <1>m, <1>r DEF DeliverChunk, EmitInv
  <2>2. Head(chan) = chan[1] /\ Len(chan) > 0 /\ Len(chan) \in Nat /\ Len(events) \in Nat
        /\ Head(chan) \in Chunks
    BY <2>t, <2>1
  <2>3. /\ s \in Streams /\ n \in Nat
        /\ Head(chan) = [type |-> "Chunk", stream |-> s, seq |-> n]
    BY <2>2 DEF Chunks
  <2>4. /\ k \in 1 .. Len(Log) /\ Log[k] = Head(chan)
        /\ \A i \in 1 .. k - 1 : Log[i] = events[i]
        /\ DOMAIN events = 1 .. k - 1
    BY <2>t, <2>2, LogAt
  <2> HIDE DEF k
  <2>5. Cardinality({i \in 1 .. k - 1 : Log[i].type = "Chunk" /\ Log[i].stream = s}) = n
    <3>1. Numbered(Log, seq) /\ Log[k].type = "Chunk"
      BY <2>3, <2>4 DEF LogInv
    <3> QED
      BY <2>t, <2>4, <3>1, CountBelow
  <2>6. {i \in 1 .. k - 1 : Log[i].type = "Chunk" /\ Log[i].stream = s}
          = {i \in DOMAIN events : events[i].type = "Chunk" /\ events[i].stream = s}
    BY <2>4
  <2> HIDE DEF s, n
  <2>7. Contract!ChunkCount(s) = n
    BY <2>5, <2>6 DEF Contract!ChunkCount, Contract!Cardinality, Cardinality
  <2>8. Contract!EmitChunk(s)
    BY <1>l, <1>r, <1>x, <2>1, <2>3, <2>7 DEF Contract!EmitChunk
  <2> QED
    BY <2>3, <2>8 DEF ContractStep, Contract!Next
<1>3. CASE EmitExited
  <2>1. /\ machine = "Running" /\ Contract!Emitted("Started") /\ ~guard /\ Reachable = {}
    BY <1>3 DEF EmitExited, EmitInv, KillPCs, IInv, GuardInv, QuietInv, PastWait
  <2>2. /\ events' = Append(events, Exited(ExitCode, Reason))
        /\ ret' \in {Outcome, "Panic"} /\ pc'[Main] = "returned"
    BY <1>3, <2>1, MainMoves DEF EmitExited, Legal, Unwind
  <2>3. /\ ExitCode \in Codes \union {Contract!Killed}
        /\ Reason \in {"NaturalExit", "TimedOut", "CancelRequested"}
        /\ Reason # "NaturalExit" => ExitCode = Contract!Killed
    BY DEF TypeOK, TreeTypeOK, ExitCode, Reason, Killed, Contract!Killed
  <2>4. Contract!ResultOf(Reason) = Outcome
    BY DEF Contract!ResultOf, Reason, Outcome
  <2>5. Exited(ExitCode, Reason) = [type |-> "Exited", code |-> ExitCode, reason |-> Reason]
    BY DEF Exited
  <2>6. Contract!Finish(ExitCode, Reason)
    BY <1>l, <1>r, <1>x, <1>3, <2>1, <2>2, <2>3, <2>4, <2>5 DEF Contract!Finish, EmitExited
  <2> QED
    BY <2>3, <2>6 DEF ContractStep, Contract!Next
<1>4. CASE ~EmitStarted /\ ~DeliverChunk /\ ~EmitExited
  <2>1. UNCHANGED events
    BY <1>4 DEF RunStep, Wire, CheckCancelled, StartMonitor, StartWait, RecvEnds, WaitReturns,
                ClearKill, StopMonitor
  <2>2. pc'[Main] # "returned"
    BY <1>4, <1>r, <1>m DEF RunStep, Wire, CheckCancelled, StartMonitor, StartWait, RecvEnds, WaitReturns,
                ClearKill, StopMonitor
  <2> QED
    BY <1>l, <1>r, <2>1, <2>2 DEF ContractStep, Contract!contractVars
<1> QED
  BY <1>1, <1>2, <1>3, <1>4

\* So is every step of the other threads and of the processes.
LEMMA ThreadStepsContract ==
    ASSUME TypeOK, IInv
    PROVE  /\ SpawnFails => ContractStep
           /\ \/ MonitorStep \/ StartDrains \/ JoinDrains
              \/ \E c \in Cancellers : CancelStep(c)
              \/ \E s \in Streams : DrainStep(s)
              => ContractStep
           /\ TreeMoves => ContractStep
           /\ Done => ContractStep
<1> USE DEF At, Unlaunched, treeVars, runVars
<1>1. ASSUME SpawnFails PROVE ContractStep
  BY <1>1, MainMoves, ContractSpawn DEF SpawnFails
<1>2. ASSUME \/ MonitorStep \/ StartDrains \/ JoinDrains
             \/ \E c \in Cancellers : CancelStep(c)
             \/ \E s \in Streams : DrainStep(s)
      PROVE ContractStep
  BY <1>2, ThreadStepsMove, Frame, ContractFrame
<1>3. ASSUME TreeMoves PROVE ContractStep
  <2>1. Reachable = {} => Reachable' = {}
    <3>1. CASE TreeStep
      BY <3>1, QuietStable DEF TypeOK
    <3>2. CASE \E p \in Procs, s \in Streams : ChildWrites(p, s)
      BY <3>2, Frame DEF ChildWrites, Write
    <3> QED
      BY <1>3, <3>1, <3>2 DEF TreeMoves
  <2> QED
    BY <1>3, <2>1, ContractFrame DEF TreeMoves
<1>4. ASSUME Done PROVE ContractStep
  BY <1>4, Frame, ContractFrame DEF Done, vars
<1> QED
  BY <1>1, <1>2, <1>3, <1>4

\* A run begins where the contract does.
LEMMA ContractInit == Init => Contract!Init /\ EmitInv
<1> SUFFICES ASSUME Init PROVE Contract!Init /\ EmitInv
  OBVIOUS
<1>1. pc[Main] = "idle"
  BY Distinct DEF Init
<1> QED
  BY <1>1 DEF Init, Contract!Init, EmitInv, Launched, At, Unlaunched, KillPCs
=============================================================================
