------------------------------ MODULE TaskRun -------------------------------
(***************************************************************************)
(* One call of Task::run / run_with_cancel: run_impl, the kill guard and   *)
(* CancelHandle of src/src/task.rs, the drain threads of src/src/os/mod.rs *)
(* and the state machine of src/src/machine.rs.  What differs by platform  *)
(* (spawn, tree_alive, kill_escalating, the middle of wait) is in UnixTask *)
(* and WindowsTask, which extend this module.                              *)
(*                                                                         *)
(* Threads.  Main is the caller's thread in run_impl; Monitor the timeout  *)
(* thread; Waiter whatever executes wait(): a thread of its own when       *)
(* output is captured, the caller's thread (then blocked at "inwait")      *)
(* otherwise.  A canceller is one call of CancelHandle::cancel().          *)
(***************************************************************************)
EXTENDS ProcessTree, Sequences

CONSTANTS
    Main, Monitor, Waiter,  \* the threads of one run
    Cancellers,             \* calls of cancel() on the run's handle
    Configs,                \* task configurations to consider
    MaxUnits,               \* bound: units captured per stream
    CallbackPanics,         \* on_event may panic
    ThreadsMayFail,         \* thread::spawn may fail, which panics
    ReadsMayFail            \* a read on a pipe may fail

\* spent: the handle carried out a cancel in an earlier run that is over.
Config == {c \in [timeout : BOOLEAN, capture : BOOLEAN, cancel : BOOLEAN, spent : BOOLEAN] :
             c.spent => c.cancel}

ASSUME ThreadAssumption ==
    /\ Main # Monitor /\ Main # Waiter /\ Monitor # Waiter
    /\ {Main, Monitor, Waiter} \intersect Cancellers = {}

ASSUME ConfigAssumption ==
    /\ Configs \subseteq Config
    /\ MaxUnits \in Nat
    /\ CallbackPanics \in BOOLEAN
    /\ ThreadsMayFail \in BOOLEAN /\ ReadsMayFail \in BOOLEAN

VARIABLES
    cfg,         \* the Task's configuration and whether a handle was passed
    pc,          \* where each thread is
    ret,         \* what run_impl returns, "none" until that is settled
    machine,     \* StateMachine.state
    events,      \* what on_event has been called with
    guard,       \* KillOnDropGuard.armed
    cancelled,   \* CancelHandle.cancelled
    kill_fired,  \* CancelHandle.kill_fired
    kill,        \* CancelHandle.kill is Some
    lock,        \* the canceller holding the mutex around kill, if any
    timed_out,   \* the flag shared with the monitor
    stopped,     \* cancel_tx was used or dropped
    wait_res,    \* what child.wait() returned
    drain,       \* per stream, the drain thread
    seq,         \* per stream, the drain thread's next sequence number
    chan         \* the chunk channel

handleVars == <<cancelled, kill_fired, kill, lock>>
drainVars == <<drain, seq, chan>>
runVars == <<ret, machine, events, guard, stopped>>
vars == <<treeVars, cfg, pc, runVars, handleVars, timed_out, wait_res, drainVars>>

Threads == {Main, Monitor, Waiter} \union Cancellers
Killers == {Main, Monitor} \union Cancellers

EscalationPCs == {"probe", "fire", "escalate", "poll", "sigkill"}
MainPCs == {"idle", "assign", "unassigned", "started", "wire", "check", "monitor", "startwait", "recv",
            "inwait", "clear", "stop", "exited", "reap", "returned"} \union EscalationPCs
MonitorPCs == {"off", "waiting", "done"} \union EscalationPCs
CancelPCs == {"idle", "lock", "done"} \union EscalationPCs
WaiterPCs == {"off", "drains", "waitpid", "killpg", "join", "done", "dead"}

ExitReasons == {"NaturalExit", "TimedOut", "CancelRequested"}
Results == {"Ok", "SpawnFailed", "WaitFailed", "TimedOut", "Cancelled",
            "InvalidStateTransition", "Panic"}

Started == [type |-> "Started"]
Chunk(s, n) == [type |-> "Chunk", stream |-> s, seq |-> n]
Exited(code, reason) == [type |-> "Exited", code |-> code, reason |-> reason]

Chunks == [type : {"Chunk"}, stream : Streams, seq : Nat]
Events == [type : {"Started"}] \union Chunks
            \union [type : {"Exited"}, code : Codes \union {Killed}, reason : ExitReasons]

\* Each thread is at a step of its own code.
ThreadTypeOK ==
    /\ pc \in [Threads -> MainPCs \union MonitorPCs \union CancelPCs \union WaiterPCs]
    /\ pc[Main] \in MainPCs /\ pc[Monitor] \in MonitorPCs /\ pc[Waiter] \in WaiterPCs
    /\ \A c \in Cancellers : pc[c] \in CancelPCs

RunTypeOK ==
    /\ cfg \in Config
    /\ ret \in Results \union {"none"}
    /\ machine \in {"Created", "Running", "Exited"}
    /\ events \in Seq(Events)
    /\ guard \in BOOLEAN /\ stopped \in BOOLEAN /\ timed_out \in BOOLEAN
    /\ cancelled \in BOOLEAN /\ kill_fired \in BOOLEAN /\ kill \in BOOLEAN
    /\ lock \subseteq Cancellers
    /\ wait_res \in {"none", "ok", "err"}

DrainTypeOK ==
    /\ drain \in [Streams -> {"off", "running", "done", "failed"}]
    /\ seq \in [Streams -> Nat]
    /\ chan \in Seq(Chunks)

\* Every variable stays in its type, every thread at a step of its own code.
TypeOK == TreeTypeOK /\ ThreadTypeOK /\ RunTypeOK /\ DrainTypeOK

Init ==
    /\ TreeInit
    /\ cfg \in Configs
    /\ pc = [t \in Threads |-> IF t = Main \/ t \in Cancellers THEN "idle" ELSE "off"]
    /\ ret = "none" /\ machine = "Created" /\ events = <<>>
    /\ guard = FALSE /\ stopped = FALSE /\ timed_out = FALSE
    /\ cancelled = cfg.spent /\ kill_fired = cfg.spent /\ kill = FALSE /\ lock = {}
    /\ wait_res = "none"
    /\ drain = [s \in Streams |-> "off"]
    /\ seq = [s \in Streams |-> 0]
    /\ chan = <<>>

-----------------------------------------------------------------------------
(* Control. *)

At(t, l) == pc[t] = l
Goto(t, l) == pc' = [pc EXCEPT ![t] = l]

-----------------------------------------------------------------------------
(* Faulty variants: slips that code like this invites.  No action uses      *)
(* them; each stands in for the definition it is named after when the       *)
(* properties are tested against a wrong implementation.                    *)

\* The wiring block is taken for the end of its thread.
AfterKill_EndsThread(a) == "done"

\* The guard is not run when run_impl leaves early.
Unwind_WithoutGuard(r) ==
    /\ ret' = r /\ stopped' = TRUE /\ chan' = <<>>
    /\ Goto(Main, "returned")

\* A cancel() from before the wiring is not looked for.
CheckCancelled_Omitted ==
    /\ At(Main, "check") /\ Goto(Main, "monitor")
    /\ UNCHANGED <<treeVars, cfg, runVars, handleVars, timed_out, wait_res, drainVars>>

\* The wiring block looks for a cancel() and not for its kill.
CheckCancelled_ForgetsFired ==
    /\ At(Main, "check")
    /\ Goto(Main, IF cancelled THEN "probe" ELSE "monitor")
    /\ UNCHANGED <<treeVars, cfg, runVars, handleVars, timed_out, wait_res, drainVars>>

\* The end of the channel is taken from wait() alone.
SendersDropped_IgnoresDrains == pc[Waiter] \notin {"off", "drains"}

\* The result ranks a cancel above a timeout, the reason does not.
Outcome_CancelFirst ==
    IF cfg.cancel /\ kill_fired THEN "Cancelled" ELSE IF timed_out THEN "TimedOut" ELSE "Ok"

\* cancel() copies the kill handle and releases the mutex before the kill.
TakeKill_ReleasesEarly(c) ==
    /\ At(c, "lock") /\ lock = {}
    /\ Goto(c, IF kill THEN "probe" ELSE "done")
    /\ UNCHANGED <<treeVars, cfg, runVars, handleVars, timed_out, wait_res, drainVars>>

\* The wiring block kills without raising kill_fired.
Fire_WiringForgets(a) ==
    /\ At(a, "fire")
    /\ timed_out' = (timed_out \/ a = Monitor)
    /\ kill_fired' = (kill_fired \/ a \in Cancellers)
    /\ Goto(a, "escalate")
    /\ UNCHANGED <<treeVars, cfg, runVars, cancelled, kill, lock, wait_res, drainVars>>

\* The two drain threads number their chunks with one counter.
Read_SharedCounter(s) ==
    /\ drain[s] = "running"
    /\ ReadUnit(s)
    /\ seq' = IF cfg.capture THEN [r \in Streams |-> seq[r] + 1] ELSE seq
    /\ chan' = IF cfg.capture /\ ret = "none" THEN Append(chan, Chunk(s, seq[s])) ELSE chan
    /\ UNCHANGED <<cfg, pc, runVars, handleVars, timed_out, wait_res, drain>>

\* stderr is read once stdout is at its end.
Read_OneAfterTheOther(s) ==
    /\ drain[s] = "running"
    /\ s = "stderr" => drain["stdout"] # "running"
    /\ ReadUnit(s)
    /\ seq' = IF cfg.capture THEN [seq EXCEPT ![s] = @ + 1] ELSE seq
    /\ chan' = IF cfg.capture /\ ret = "none" THEN Append(chan, Chunk(s, seq[s])) ELSE chan
    /\ UNCHANGED <<cfg, pc, runVars, handleVars, timed_out, wait_res, drain>>

-----------------------------------------------------------------------------
(* Helpers of run_impl. *)

\* machine.rs: the only legal edges.
Legal(from, to) == <<from, to>> \in {<<"Created", "Running">>, <<"Running", "Exited">>}

\* run_impl leaves early with r (a `?` or a panic): its locals are dropped,
\* which disconnects the monitor's channel and the chunk receiver, and an
\* armed guard starts kill_escalating with no grace.
Unwind(r) ==
    /\ ret' = r
    /\ stopped' = TRUE
    /\ chan' = <<>>
    /\ Goto(Main, IF guard THEN "escalate" ELSE "returned")

\* The statement after kill_escalating in each of its callers; a canceller
\* releases the mutex it held all along.
AfterKill(a) ==
    IF a = Main THEN IF ret = "none" THEN "monitor" ELSE "reap" ELSE "done"
KillReturns(a) ==
    /\ Goto(a, AfterKill(a))
    /\ lock' = lock \ {a}

-----------------------------------------------------------------------------
(* run_impl up to the wait. *)

SpawnFails ==
    /\ At(Main, "idle")
    /\ ret' = "SpawnFailed"
    /\ Goto(Main, "returned")
    /\ UNCHANGED <<treeVars, cfg, machine, events, guard, stopped, handleVars, timed_out,
                   wait_res, drainVars>>

\* transition(Running)?; on_event(Started)
EmitStarted ==
    /\ At(Main, "started")
    /\ IF Legal(machine, "Running")
       THEN /\ machine' = "Running"
            /\ events' = Append(events, Started)
            /\ \/ /\ Goto(Main, IF cfg.cancel THEN "wire" ELSE "monitor")
                  /\ UNCHANGED <<ret, stopped, chan>>
               \/ CallbackPanics /\ Unwind("Panic")
       ELSE /\ Unwind("InvalidStateTransition")
            /\ UNCHANGED <<machine, events>>
    /\ UNCHANGED <<treeVars, cfg, guard, handleVars, timed_out, wait_res, drain, seq>>

\* *ch.kill.lock() = Some(kill)
Wire ==
    /\ At(Main, "wire") /\ lock = {}
    /\ kill' = TRUE
    /\ Goto(Main, "check")
    /\ UNCHANGED <<treeVars, cfg, runVars, cancelled, kill_fired, lock, timed_out, wait_res,
                   drainVars>>

\* A cancel() that came before the handle was wired is carried out here.
CheckCancelled ==
    /\ At(Main, "check")
    /\ Goto(Main, IF cancelled /\ ~kill_fired THEN "probe" ELSE "monitor")
    /\ UNCHANGED <<treeVars, cfg, runVars, handleVars, timed_out, wait_res, drainVars>>

StartMonitor ==
    /\ At(Main, "monitor")
    /\ \/ /\ pc' = [pc EXCEPT ![Main] = "startwait",
                              ![Monitor] = IF cfg.timeout THEN "waiting" ELSE "off"]
          /\ UNCHANGED <<ret, stopped, chan>>
       \/ cfg.timeout /\ ThreadsMayFail /\ Unwind("Panic")
    /\ UNCHANGED <<treeVars, cfg, machine, events, guard, handleVars, timed_out, wait_res,
                   drain, seq>>

\* The wait thread is started, or wait() called.
StartWait ==
    /\ At(Main, "startwait")
    /\ \/ /\ pc' = [pc EXCEPT ![Main] = IF cfg.capture THEN "recv" ELSE "inwait",
                              ![Waiter] = "drains"]
          /\ UNCHANGED <<ret, stopped, chan>>
       \/ cfg.capture /\ ThreadsMayFail /\ Unwind("Panic")
    /\ UNCHANGED <<treeVars, cfg, machine, events, guard, handleVars, timed_out, wait_res,
                   drain, seq>>

-----------------------------------------------------------------------------
(* run_impl from the wait on. *)

\* chunk_rx.recv() is Ok: deliver the chunk on the caller's thread.
DeliverChunk ==
    /\ At(Main, "recv") /\ chan # <<>>
    /\ events' = Append(events, Head(chan))
    /\ \/ /\ chan' = Tail(chan)
          /\ UNCHANGED <<pc, ret, stopped>>
       \/ CallbackPanics /\ Unwind("Panic")
    /\ UNCHANGED <<treeVars, cfg, machine, guard, handleVars, timed_out, wait_res, drain, seq>>

\* The senders live in the sinks wait() was given, then in the drain threads.
SendersDropped ==
    /\ pc[Waiter] \notin {"off", "drains"}
    /\ \A s \in Streams : drain[s] # "running"

\* chunk_rx.recv() fails: every sender is gone.
RecvEnds ==
    /\ At(Main, "recv") /\ chan = <<>> /\ SendersDropped
    /\ Goto(Main, "inwait")
    /\ UNCHANGED <<treeVars, cfg, runVars, handleVars, timed_out, wait_res, drainVars>>

\* wait() returned an exit code: the guard is disarmed.  It failed, or its
\* thread died (on the caller's thread that is the panic itself): unwind.
WaitReturns ==
    /\ At(Main, "inwait") /\ pc[Waiter] \in {"done", "dead"}
    /\ IF At(Waiter, "done") /\ wait_res = "ok"
       THEN /\ guard' = FALSE
            /\ Goto(Main, IF cfg.cancel THEN "clear" ELSE "stop")
            /\ UNCHANGED <<ret, stopped, chan>>
       ELSE /\ Unwind(IF At(Waiter, "dead") /\ ~cfg.capture THEN "Panic" ELSE "WaitFailed")
            /\ UNCHANGED guard
    /\ UNCHANGED <<treeVars, cfg, machine, events, handleVars, timed_out, wait_res, drain, seq>>

\* *ch.kill.lock() = None: blocks while a canceller holds the mutex.
ClearKill ==
    /\ At(Main, "clear") /\ lock = {}
    /\ kill' = FALSE
    /\ Goto(Main, "stop")
    /\ UNCHANGED <<treeVars, cfg, runVars, cancelled, kill_fired, lock, timed_out, wait_res,
                   drainVars>>

\* cancel_tx.send(())
StopMonitor ==
    /\ At(Main, "stop")
    /\ stopped' = TRUE
    /\ Goto(Main, "exited")
    /\ UNCHANGED <<treeVars, cfg, ret, machine, events, guard, handleVars, timed_out, wait_res,
                   drainVars>>

WasCancelled == cfg.cancel /\ kill_fired
Reason ==
    CASE timed_out -> "TimedOut"
      [] ~timed_out /\ WasCancelled -> "CancelRequested"
      [] OTHER -> "NaturalExit"
ExitCode == IF timed_out \/ WasCancelled THEN Killed ELSE status
Outcome ==
    CASE timed_out -> "TimedOut"
      [] ~timed_out /\ WasCancelled -> "Cancelled"
      [] OTHER -> "Ok"

\* The flags are read, transition(Exited)?, on_event(Exited), return.
EmitExited ==
    /\ At(Main, "exited")
    /\ IF Legal(machine, "Exited")
       THEN /\ machine' = "Exited"
            /\ events' = Append(events, Exited(ExitCode, Reason))
            /\ \/ ret' = Outcome /\ Goto(Main, "returned") /\ UNCHANGED <<stopped, chan>>
               \/ CallbackPanics /\ Unwind("Panic")
       ELSE /\ Unwind("InvalidStateTransition")
            /\ UNCHANGED <<machine, events>>
    /\ UNCHANGED <<treeVars, cfg, guard, handleVars, timed_out, wait_res, drain, seq>>

-----------------------------------------------------------------------------
(* CancelHandle::cancel. *)

\* if !cancelled.swap(true)
Swap(c) ==
    /\ cfg.cancel /\ At(c, "idle")
    /\ cancelled' = TRUE
    /\ Goto(c, IF cancelled THEN "done" ELSE "lock")
    /\ UNCHANGED <<treeVars, cfg, runVars, kill_fired, kill, lock, timed_out, wait_res, drainVars>>

\* kill.lock(); with Some(kill) the mutex stays held until cancel() returns.
TakeKill(c) ==
    /\ At(c, "lock") /\ lock = {}
    /\ IF kill THEN lock' = {c} /\ Goto(c, "probe")
               ELSE UNCHANGED lock /\ Goto(c, "done")
    /\ UNCHANGED <<treeVars, cfg, runVars, cancelled, kill_fired, kill, timed_out, wait_res,
                   drainVars>>

-----------------------------------------------------------------------------
(* The timeout monitor. *)

Deadline ==
    /\ At(Monitor, "waiting") /\ ~stopped
    /\ Goto(Monitor, "probe")
    /\ UNCHANGED <<treeVars, cfg, runVars, handleVars, timed_out, wait_res, drainVars>>

MonitorStops ==
    /\ At(Monitor, "waiting") /\ stopped
    /\ Goto(Monitor, "done")
    /\ UNCHANGED <<treeVars, cfg, runVars, handleVars, timed_out, wait_res, drainVars>>

-----------------------------------------------------------------------------
(* Probe and flag, as the wiring block, cancel() and the monitor do before   *)
(* kill_escalating; the guard starts at "escalate".                          *)

ProbeTree(a, alive) ==
    /\ At(a, "probe")
    /\ IF alive THEN Goto(a, "fire") /\ UNCHANGED lock ELSE KillReturns(a)
    /\ UNCHANGED <<treeVars, cfg, runVars, cancelled, kill_fired, kill, timed_out, wait_res,
                   drainVars>>

Fire(a) ==
    /\ At(a, "fire")
    /\ IF a = Monitor THEN timed_out' = TRUE /\ UNCHANGED kill_fired
                      ELSE kill_fired' = TRUE /\ UNCHANGED timed_out
    /\ Goto(a, "escalate")
    /\ UNCHANGED <<treeVars, cfg, runVars, cancelled, kill, lock, wait_res, drainVars>>

-----------------------------------------------------------------------------
(* Both ends of wait(), and the drain threads. *)

\* Both drain threads are started, stdout's first; when one cannot be, wait()
\* panics and drops the child.
StartDrains ==
    /\ At(Waiter, "drains")
    /\ \/ /\ drain' = [s \in Streams |-> "running"]
          /\ Goto(Waiter, "waitpid")
       \/ /\ ThreadsMayFail
          /\ \E S \in SUBSET (Streams \intersect {"stdout"}) :
                S # Streams /\ drain' = [s \in Streams |-> IF s \in S THEN "running" ELSE "off"]
          /\ Goto(Waiter, "dead")
    /\ UNCHANGED <<treeVars, cfg, runVars, handleVars, timed_out, wait_res, seq, chan>>

JoinDrains ==
    /\ At(Waiter, "join")
    /\ \A s \in Streams : drain[s] \in {"done", "failed"}
    /\ Goto(Waiter, "done")
    /\ UNCHANGED <<treeVars, cfg, runVars, handleVars, timed_out, wait_res, drainVars>>

\* One read: captured it is numbered and sent, a send to a dropped receiver
\* being ignored; otherwise it is discarded.
Read(s) ==
    /\ drain[s] = "running"
    /\ ReadUnit(s)
    /\ seq' = IF cfg.capture THEN [seq EXCEPT ![s] = @ + 1] ELSE seq
    /\ chan' = IF cfg.capture /\ ret = "none" THEN Append(chan, Chunk(s, seq[s])) ELSE chan
    /\ UNCHANGED <<cfg, pc, runVars, handleVars, timed_out, wait_res, drain>>

DrainEnds(s) ==
    /\ drain[s] = "running" /\ EOF(s)
    /\ drain' = [drain EXCEPT ![s] = "done"]
    /\ UNCHANGED <<treeVars, cfg, pc, runVars, handleVars, timed_out, wait_res, seq, chan>>

\* A read fails: the loop ends as at end of file, and the thread drops its
\* end of the pipe with whatever is in it.
ReadFails(s) ==
    /\ ReadsMayFail /\ drain[s] = "running"
    /\ drain' = [drain EXCEPT ![s] = "failed"]
    /\ CloseRead(s)
    /\ UNCHANGED <<cfg, pc, runVars, handleVars, timed_out, wait_res, seq, chan>>

\* Nobody holds the read end: its drain failed, or the Child was dropped
\* before it had one.
ReaderGone(s) ==
    \/ drain[s] = "failed"
    \/ drain[s] = "off" /\ (At(Waiter, "dead") \/ (At(Waiter, "off") /\ At(Main, "returned")))

-----------------------------------------------------------------------------

RunStep ==
    \/ EmitStarted \/ Wire \/ CheckCancelled \/ StartMonitor \/ StartWait
    \/ DeliverChunk \/ RecvEnds \/ WaitReturns \/ ClearKill \/ StopMonitor
    \/ EmitExited
MonitorStep == Deadline \/ MonitorStops
CancelStep(c) == Swap(c) \/ TakeKill(c)
DrainStep(s) == Read(s) \/ DrainEnds(s) \/ ReadFails(s)

\* A unit that is written and would be captured counts against the bound.
ChildWrites(p, s) == ~ReaderGone(s) /\ seq[s] + pipe[s] < MaxUnits /\ Write(p, s)

TreeMoves ==
    /\ TreeStep \/ \E p \in Procs, s \in Streams : ChildWrites(p, s)
    /\ UNCHANGED <<cfg, pc, runVars, handleVars, timed_out, wait_res, drainVars>>

\* The run is over and nothing it started is left.
Finished ==
    /\ At(Main, "returned")
    /\ pc[Monitor] \in {"off", "done"} /\ pc[Waiter] \in {"off", "done", "dead"}
    /\ \A c \in Cancellers : At(c, "done") \/ ~cfg.cancel
    /\ \A s \in Streams : drain[s] # "running"
    /\ \A p \in Procs : ~Alive(p)
Done == Finished /\ UNCHANGED vars

-----------------------------------------------------------------------------
(* Properties. *)

HasExited == \E i \in DOMAIN events : events[i].type = "Exited"
Reported(reason) ==
    \E i \in DOMAIN events : events[i].type = "Exited" /\ events[i].reason = reason
Escalating(a) == pc[a] \in EscalationPCs

\* When run() has returned, on any path (natural exit, timeout, cancel, wait
\* error, panic), no process of the group that signals can reach still runs:
\* wait()'s killpg, kill_escalating and the guard leave no descendant.
NoOrphans == At(Main, "returned") => Reachable = {}

\* No path leaves the root as a zombie of the caller's process: wait() or
\* reap_abandoned() has collected it before run() returns.
RootReaped == At(Main, "returned") => proc[Root] \in {"none", "gone"}

\* A cancel() that won the swap is never lost between the flag, the mutex and
\* the wiring block: once no canceller is on its way to the kill and the
\* wiring block is past its check, the kill fired or no process is left for it.
NoLostCancel ==
    /\ cancelled
    /\ \A c \in Cancellers : pc[c] \notin {"lock", "probe", "fire"}
    /\ pc[Main] \in {"monitor", "startwait", "recv", "inwait", "clear"}
    => kill_fired \/ Reachable = {}

\* A handle whose kill fired in an earlier run kills nothing in a later one,
\* however often cancel() is called: the tree gets SIGTERM only for a timeout
\* or an early return.
SpentHandleIsInert ==
    cfg.spent /\ termed # {} => timed_out \/ ret \notin {"none", "Cancelled"}

\* NaturalExit is reported only when no process of the tree was sent SIGTERM:
\* whoever sends it has raised its flag before, and run_impl reads the flags
\* after the tree is dead.  wait()'s SIGKILL to what the root left behind is
\* sent on a natural exit, too.
NaturalMeansUntouched == Reported("NaturalExit") => termed = {}

\* A cancel() that is still on its way to the kill when run() is about to
\* report, or later, cannot signal: the mutex run_impl takes to clear the
\* kill handle waits for a cancel() that saw it.
NoCancelKillAfterExited == HasExited => \A c \in Cancellers : ~Escalating(c)

\* Delivered or in the channel, the chunks of a stream are numbered from 0
\* without gap, repetition or inversion, up to the drain thread's counter,
\* also when the callback panics half way.
Log == events \o chan
ChunksInOrder ==
    \A i \in DOMAIN Log : Log[i].type = "Chunk" =>
        LET s == Log[i].stream
            n == Log[i].seq
        IN  /\ n < seq[s]
            /\ n > 0 => \E j \in 1 .. i - 1 : Log[j] = Chunk(s, n - 1)
            /\ \A j \in DOMAIN Log : Log[j] = Log[i] => j = i

\* Exited comes after the whole output: every chunk that was read has been
\* delivered and each pipe is at end of file, unless its own drain met a
\* read error.
OutputComplete ==
    HasExited /\ cfg.capture =>
        \A s \in Streams :
            /\ EOF(s) \/ drain[s] = "failed"
            /\ \A n \in 0 .. seq[s] - 1 : \E i \in DOMAIN events : events[i] = Chunk(s, n)

\* spawn() has returned a process.
Launched == pc[Main] \notin {"idle", "assign", "unassigned"} /\ ret # "SpawnFailed"

\* run() does what it promises: the run, seen through its events, its result
\* and the reachable running processes, is a run of RunContract.
Contract == INSTANCE RunContract WITH
    ret <- IF At(Main, "returned") THEN ret ELSE "none",
    spawned <- Launched,
    live <- IF Launched THEN Reachable ELSE {}
KeepsContract == Contract!Spec

\* A writer that a full pipe blocks is let on, whatever the other stream does
\* or does not: the pipe is read, or its read end is closed, or run_impl has
\* been left early and is collecting the child it killed.
PipesAreDrained ==
    \A s \in Streams :
        pipe[s] = PipeCap ~> pipe[s] < PipeCap \/ ReaderGone(s) \/ At(Main, "reap")

\* A live process that no kill can reach is the root or keeps a pipe open.
HeldOutOfReach ==
    \E p \in Procs : /\ Alive(p) /\ p \notin Reachable
                     /\ p = Root \/ \E s \in Streams : p \in holds[s]

\* wait() gave up without killing the tree, and the tree keeps a pipe open.
HeldAfterFailedWait ==
    /\ wait_res = "err" \/ At(Waiter, "dead")
    /\ \E p \in Procs, s \in Streams : p \in holds[s] /\ Alive(p)

\* Once the root has exited, run() returns, whatever the descendants, the
\* cancellers, the monitor and the callback do, unless somebody nobody kills
\* keeps a pipe open for ever.
RunReturns ==
    \/ []<>(HeldOutOfReach \/ HeldAfterFailedWait)
    \/ proc[Root] \in {"zombie", "gone"} ~> At(Main, "returned")

\* A run cancelled through a fresh handle returns, even if the tree ignores
\* SIGTERM, wait() has failed or a read has.
CancelReturns ==
    \/ []<>HeldOutOfReach
    \/ cancelled /\ ~cfg.spent /\ pc[Main] # "idle" ~> At(Main, "returned")

\* A run whose monitor has started returns, even if the tree never exits,
\* wait() has failed or a read has.
TimeoutReturns == []<>HeldOutOfReach \/ (At(Monitor, "waiting") ~> At(Main, "returned"))

\* A run that returned leaves no thread behind: monitor, detached wait
\* thread, drains and cancellers come to their end, unless a process out of
\* reach keeps a pipe open for ever.
ThreadsEnd ==
    \/ []<>HeldOutOfReach
    \/ At(Main, "returned") ~>
        /\ pc[Monitor] \in {"off", "done"} /\ pc[Waiter] \in {"off", "done", "dead"}
        /\ \A s \in Streams : drain[s] # "running"
        /\ \A c \in Cancellers : pc[c] \in {"idle", "done"}

-----------------------------------------------------------------------------
(* What makes the safety properties inductive.  Each part says what a       *)
(* thread at some step may rely on.                                         *)

Unlaunched == {"idle", "assign", "unassigned"}
PastWait == {"clear", "stop", "exited"}
KillPCs == {"escalate", "poll", "sigkill"}

\* Where run_impl can be left early with a live tree, the guard is armed;
\* its result is open until it is.
GuardInv ==
    /\ pc[Main] \notin Unlaunched \union PastWait \union {"returned"} => guard
    /\ pc[Main] \in PastWait => ~guard
    /\ pc[Main] \notin KillPCs \union {"reap", "returned"} => ret = "none"

\* Where the tree is known to be dead.
QuietInv ==
    /\ pc[Main] \in Unlaunched \union PastWait \union {"reap", "returned"} => Reachable = {}
    /\ At(Waiter, "join") \/ (At(Waiter, "done") /\ wait_res = "ok") => Reachable = {}
    /\ pc[Main] \in Unlaunched => At(Waiter, "off")

\* Who holds the mutex, and when the kill handle is in it.
HandleInv ==
    /\ \A c \in Cancellers : Escalating(c) => c \in lock
    /\ lock # {} => kill
    /\ pc[Main] \in {"wire", "check", "probe", "fire", "clear"} => cfg.cancel
    /\ kill => cfg.cancel /\ pc[Main] \notin Unlaunched \union {"started", "wire", "stop", "exited"}
    /\ cfg.cancel /\ pc[Main] \in {"check", "probe", "fire", "monitor", "startwait", "recv",
                                   "inwait", "clear"} => kill
    /\ cfg.cancel /\ pc[Main] \in KillPCs /\ ret = "none" => kill
    /\ cancelled => cfg.cancel
    /\ \A c \in Cancellers : pc[c] # "idle" => cancelled

\* Exited is the last thing that happens, with the kill handle cleared.
ExitInv == HasExited => At(Main, "returned") /\ ~kill

\* A kill under way has raised its flag, and so has one that signalled.
FlagInv ==
    /\ pc[Monitor] \in KillPCs => timed_out
    /\ \A c \in Cancellers : pc[c] \in KillPCs => WasCancelled
    /\ pc[Main] \in KillPCs /\ ret = "none" => WasCancelled
    /\ termed # {} => timed_out \/ WasCancelled \/ ret # "none"

IInv == GuardInv /\ QuietInv /\ HandleInv /\ ExitInv /\ FlagInv
            /\ NoLostCancel /\ NaturalMeansUntouched
=============================================================================
