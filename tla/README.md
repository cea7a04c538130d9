# aer-core: TLA+ models, model checking and proofs

aer-core runs one command: it spawns a process, reports `Started`, optional
output chunks and `Exited` through a callback, kills the whole process tree on
a timeout, a cancel request or an early failure, and returns a result. This
directory holds TLA+ models of that code, the TLC configurations that check
them on small instances, and TLAPS proofs of the safety properties for
every instance. `PROJECT.json` is the index: components, runs, the map from
definitions to source lines, findings, hazards and theorems.

## 1. Inventory

| Component | State | Operations | Interacts with |
|---|---|---|---|
| Task run (`src/src/task.rs`, `run_impl`) | state machine, guard, flags, channels | spawn, Started, wire, monitor, wait, clear, Exited; early return and unwinding at every point | everything below |
| Cancel handle (`task.rs`) | `cancelled`, `kill_fired`, mutex around the kill handle | `cancel()` from any thread | shared with `run_impl`; kills the tree |
| Timeout monitor (`task.rs`) | `timed_out`, stop channel | deadline, probe, kill | detached thread |
| Task builders (`task.rs`) | timeout, capture, environment list, directory | `with_*` | both `spawn`s, C ABI |
| State machine (`machine.rs`) | Created, Running, Exited | `transition` | `run_impl` |
| Output capture (`os/mod.rs`) | per-stream number, chunk channel | drain threads | pipes of the tree, `run_impl` |
| Unix backend (`os/unix.rs`) | pgid | spawn with setsid, wait, SIGTERM/poll/SIGKILL, probe, reap | process group |
| Windows backend (`os/windows.rs`) | Job Object | spawn and assign, wait, terminate, query | job |
| C ABI (`ffi.rs`, `include/aer.h`) | task handle, cancel handles, thread-local error | new, setters, run, cancel, free | host threads, callbacks that call back |
| .NET binding (`bindings/dotnet/Aer.Core`) | run and disposed flags, SafeHandles, token registration | `With*`, `Run`, `RunAsync`, `Dispose` | C ABI |

What is hard here, and hard to test:

* four kinds of threads (caller, monitor, wait thread, drains) and any number
  of cancelling threads race with a process tree that forks, exits, ignores
  SIGTERM, daemonises and keeps pipes open;
* three flags and a mutex decide what is reported; the kill and the report must
  agree in every interleaving;
* the callback may panic and a thread may fail to start with all of that
  running: the guard must clean up, and reap the root exactly where the wait
  thread may be reaping it too;
* `run()` must come back: it waits for pipes that strangers may hold, for a
  mutex held across a five-second escalation, for a process that may not die;
* the .NET object is shared by threads that run it, dispose of it and cancel its
  token, over native handles that must be freed once and not under a call;
* events and failures cross two language boundaries as bare numbers and a
  thread-local message.

What makes it correct: no reachable process survives `run()`; no cancel is
lost; a natural exit is reported only if no process was sent SIGTERM;
events are ordered, numbered and complete, and no pipe stays full; `run()` and
all of its threads end. For the C ABI: one run per handle, settings that
were accepted are in force, errors are found by the thread they belong to. For
the binding: it keeps what the header asks of a caller, frees what it made, and
a cancelled token ends the run, and a run that reports a cancel or a timeout has
had one.

## 2. Modules

```
ProcessTree ── TaskRun ──┬── UnixTask ── UnixTaskClaims ── MCUnixTask
     │            │      └── WindowsTask ── MCWindowsTask
     │       (INSTANCE) RunContract
     │            │
ProcessTreeProofs ── TaskRunProofs ──┬── UnixTaskProofs
                                     └── WindowsTaskProofs

TaskConfig ── AerFfi ──┬── AerFfiClaims ── MCAerFfi
     │           │     │
     │           │     └──┬── DotnetTask ── MCDotnetTask
     │           │        │        │
     │           │     EventAbi ── │ ── EventAbiProofs
     │           │                 │         │
TaskConfigProofs ── AerFfiProofs ── DotnetTaskProofs
```

**ProcessTree** is the operating system as `unix.rs` relies on it: processes
that are running, escaped to a session of their own, dying (hit by SIGKILL),
zombies or gone; the group, signals, `waitpid`, pipes with their writers and
readers. A process may daemonise (`CanEscape`) or take other credentials by a
set-user-ID exec (`CanSetuid`), after which no signal of the host reaches it. It
is external code, and so is the whole module in the map. `WindowsTask` reads
"group" as "job"; nothing leaves a job (`CanEscape` is empty there), and a
process that is outside it was started before the root was assigned.

**TaskRun** is one call of `run`/`run_with_cancel`, without what depends on the
platform. A variable stands for each piece of shared state in the code and
keeps its name (`cancelled`, `kill_fired`, `kill`, `timed_out`); `pc` says
where each thread is. Every step of `pc` is one shared-memory access, system
call or callback of the code, together with the local statements after it. `Unwind` is any early
exit: locals are dropped, then the armed guard kills (`escalate` with no grace)
and reaps. The wiring block, `cancel()`, the monitor and the guard share one
escalation, as they share `kill_escalating`. In capture mode the Waiter is a
thread; otherwise it is the caller inside `wait()`. A configuration says whether
there is a timeout, capture and a cancel handle, and whether that handle is
`spent`: it carried out a cancel in an earlier run, and the code never resets
its flags. A read of a drain thread may fail (`ReadFails`): the loop ends as at
end of file and the read end is closed, so on Unix a process that writes on is
ended by SIGPIPE (`WriterDies`).

**UnixTask** and **WindowsTask** add `spawn`, `tree_alive`, `kill_escalating`,
the middle of `wait` and `reap_abandoned` of each backend, and complete the
next-state relation.

**RunContract** is the abstract specification: what events and results a caller
may see, relative to the set of live reachable processes. `KeepsContract` says
that a run refines it.

**TaskConfig** is the data of a Task and its builders: the settings, the list of
environment entries with `with_env`'s override, and the environment that both
`spawn`s make of the list. `Var` maps a key, as the caller spells it, to the
variable of the platform: the identity on Unix, not one-to-one on Windows, where
names are compared without case.

**AerFfi** is the C ABI under any sequence of calls of several host threads,
with calls from inside callbacks and nested runs. A call is one step;
`aer_task_run` is one step when it spawns and one when it returns, since the
inside is `TaskRun`'s subject. Callers keep to `aer.h` (`MayUse` and the guards
on freed handles). `spawned` is what the child gets; `accepted` and `named`
record what the caller was told. `Flags` are the values of `timed_out` and
`kill_fired` that the end of a run may read, as far as the ABI can tell (the
first only with a timeout, the second only with a cancelled handle); the reason
in `Exited` and the result are both made of them, each as the code does it.

**EventAbi** follows an event through the `AerEvent` of the C ABI to the
`AerEventArgs` of the binding, as pure functions, and a result through the
numbers of `AerErrorCode` in `ffi.rs` and in the binding to the class of the
exception that `Run` throws.

**DotnetTask** is one `AerTask` object of the .NET binding on top of AerFfi. A
P/Invoke is three steps: the SafeHandle is add-refed or refuses, the AerFfi
action happens, and the reference is released, which frees the native object if
it was the last. `RunCore` and `Dispose` are split at every access to a flag,
the `cancelHandle` field, the token or a SafeHandle. SafeHandle and
CancellationTokenSource are external and modelled by their documented
behaviour: `Register` calls back at once on a cancelled token, the disposal of a
registration waits for a callback that is running. AerFfi and DotnetTask are in
an assume-guarantee relation: what AerFfi assumes of its callers is
`HeaderObeyed` here. Two things are assumed of the user of the object: it is not
configured while another thread runs it, and `With*` is called by one thread.
Calls from event handlers are not steps of their own.

**UnixTaskClaims** and **AerFfiClaims** state what comments and documents say
and the code does not keep. The operators with a `_Suffix` under "Faulty
variants" are wrong implementations against which the properties are tested;
no specification uses them.

What the data is reduced to: a chunk is its stream and number; a pipe holds
units (one unit is what one `read` returns); an exit code is one of `Codes` or
-1; a setting is one of a few values; a string the C ABI gets is valid or not,
and in AerFfi the codes of a rejected call (`NullPointer`, `AlreadyRun`,
`InvalidArgument`) are one, "Rejected", of which `Run` can only meet `AlreadyRun`; a message in the error slot is the code
it describes.

## 3. Runs

Bounds are constants of the models, set in the `.cfg` files.

| Run | Instance | Shows |
|---|---|---|
| UnixTaskSafety | root and one descendant; the root may change credentials, which the descendant inherits; 2 cancellers; timeout, capture and handle, two of them at a time, and a spent handle with a timeout; panics, failing threads, a reaping host | `NoOrphans`, `NoLostCancel`, `SpentHandleIsInert`, `NaturalMeansUntouched`, `NoCancelKillAfterExited`, `RootReaped`, `RootTermedFirst`, refinement of the contract |
| UnixTaskCapture | 2 streams, pipe capacity 1, 2 units per stream, one descendant that may daemonise; panics, failing threads and reads | `ChunksInOrder`, `OutputComplete`, `RootReaped`, refinement, `PipesAreDrained` |
| UnixTaskLive | one stream, one canceller or a timeout, with and without capture; a daemonising descendant, a root that changes credentials, panics, failing threads and reads | `RunReturns`, `CancelReturns`, `TimeoutReturns`, `ThreadsEnd` |
| WindowsTask | all configurations with a fresh handle, one canceller, one descendant, in the job or started outside it; failing assignment, query and wait, panics, failing threads | `NoOrphans`, `NoLostCancel`, `NaturalMeansOwnCode`, `FailedSpawnLeavesNoRoot`, `FailedSpawnReturns`, refinement, the four liveness properties |
| Ffi | 2 threads, 2 tasks, 1 cancel handle, 2 keys, 2 values, at most two settings or variables set (`MaxSet`) | `OneRunPerHandle`, `OkMeansEffective`, `RunErrorIsExplained` |
| Dotnet | 2 threads that run the object, one of them configures it, 1 that disposes, 1 that cancels the token; 1 cancel handle, 1 setting | `HeaderObeyed`, `NothingLeaks`, `DisposedOnlyByDispose`, `RunFailureExplained`, `ExceptionIsEarned`, `TokenStopsRun` |

The runs have between 200,000 and 1.5 million states and take one to three and a
half minutes with two workers.

`SpentHandleIsInert` says that a handle that was used before signals nothing in
a later run. What such a run reports is another matter (see the smaller
disagreements below): a program needs a new handle for each run, which the C
ABI and the binding make.

`NaturalMeansUntouched` is about SIGTERM: on a natural exit `wait()` still sends
SIGKILL to the descendants that are left. The converse, that a run reported as
cancelled or timed out was killed, does not hold (ClaimProbe), and RunContract
does not relate the reason to what happened.

`PipesAreDrained` and `FailedSpawnReturns` are there because the other liveness
properties start from a root that has exited, or from a run that was spawned: a
child that a full pipe blocks never exits, and a child that could not be
assigned to the job is waited for inside `spawn`.

`ExceptionIsEarned` ties the exception of `Run` to its causes across the
binding, the ABI and both sets of numbers: `AerCancelException` only if the
run's own token was cancelled, `AerTimeoutException` only if a timeout was
accepted, each exactly with that reason in `Exited`, and never `AlreadyRun`.

Why the bounds are enough to meet the cases: one descendant is enough to
outlive the root, to hold a pipe and to be unreachable; two cancellers are
enough for the swap to be lost and won; the monitor, the wiring block and the
guard add three more killers. A pipe of one unit blocks its writer at once, and
two units per stream give a gap, a repetition or an inversion room to appear.
Two tasks and two threads give nested runs and a foreign error slot. Two keys
and two values give an override and an order of the list. Two runners give the
race for `hasRunFlag` (one makes the only cancel handle), and with one disposer
and one canceller every pair of the operations of the object overlaps.
Cancellers are interchangeable, and so are the threads, tasks, handles and values of the
C ABI: symmetry is used for the safety runs only. `MaxUnits` caps the output in
a guard (`ChildWrites`). Deadlock is checked in every run but those
of DotnetTask: `Done` is the only way to stop, and its guard `Finished` says that
nothing of the run is left. A state in which the caller waits and the tree does
nothing is no deadlock, since the tree may always exit. The program that uses an
`AerTask` may stop calling it, and a run whose child is `endless` rests until
somebody cancels: there `CHECK_DEADLOCK` is off, and `TokenStopsRun` says when
something must happen.

**Fairness** (`FairSpec`): weak fairness of each thread's steps, i.e. a thread
that can go on does; the monitor's deadline and the end of the grace loop are
such steps because time passes; and of the kernel finishing a SIGKILL. Nothing
makes a read or a wait fail: a blocked call returns when its condition holds.
Nothing is assumed of the program that is run: it need not exit, react to SIGTERM,
write, or reap its children. Nothing makes the host call `cancel()`.

Two situations make `run()` wait for strangers, and the liveness properties
except exactly them, in their strongest form (the situation recurs for ever):
`HeldOutOfReach`, a live process that no signal reaches is the root or keeps a
pipe open (it daemonised, or changed credentials), and `HeldAfterFailedWait`,
`wait()` gave up on an error or a failed thread without killing the tree, and
the tree keeps a pipe open. The second one is excepted in `RunReturns` only: a
timeout or a cancel ends the run even then. `CancelReturns` is about fresh
handles, since a spent one does nothing.

`DotnetSpec` has weak fairness of each thread's started operation (`Proceed`);
nobody has to call anything, and an endless child is only stopped by a timeout or
a cancel, as the runs above show of `TaskRun`.

**Disagreements.** Each of these runs refutes one sentence of a comment or
document; `PROJECT.json` quotes it.

| Run | What the code does |
|---|---|
| ClaimProbe | an unreaped zombie passes the liveness probe, so a process that exited by itself is reported as cancelled or timed out |
| ClaimEarlyCancel | a cancel before the spawn kills the process and is reported |
| ClaimWindowsSurvivor | a descendant started before the assignment to the job survives |
| ClaimLastError | `aer_last_error_message` is stale after `aer_task_new` and `aer_task_make_cancel_handle` |
| ClaimEnvCase | where names are compared without case, setting a variable under two spellings and then the first again leaves the second's value |
| ClaimDispose | `Dispose` during a run closes its cancel handle: a token cancelled afterwards throws in the canceller and the run goes on |

Smaller ones met while modelling, without a run of their own:

* `task.rs:67` says the kill handle is wired only until `wait()` returns; a
  panic or a wait error leaves it wired.
* `task.rs:64`, `task.rs:348` and `event.rs:7-12` say that `kill_fired`, and so
  `CancelRequested`, means that `cancel()` killed the live process. The flag is
  never reset: a run with a handle that an earlier run has spent is reported
  `CancelRequested` when it exits by itself.
* `unix.rs:134` says a concurrent `wait()` reaps the root during the grace loop;
  the wiring block (`task.rs:257`) escalates before any `wait()` runs and waits
  the five seconds out.
* `os/mod.rs:96` says a drain thread stops when its receiver is gone; the send
  result is discarded (line 115) and it reads on to the end of file.
* The specification (line 85) says all processes are dead when `run()` returns;
  the descendants have been sent SIGKILL, and the kernel may still be ending
  them. The tests poll for it.
* The specification (line 94) says `run()` blocks until the process exits; with
  a daemonised descendant that keeps a pipe open it blocks longer, past a timeout.
* `unix.rs:188` says a blocking `waitpid` is safe after the kill; if the kill
  was refused with EPERM it blocks as long as the root lives.
* `aer.h:191` promises a message for any error of `aer_task_run`; `AlreadyRun`
  sets none, so an older one may be found.
* `ffi.rs:395` says the returned handle cancels the execution; making a second
  handle disconnects the first.

`NoOrphans` is therefore stated for reachable, running processes: the ones that
belong to the group, whose credentials match and that have not been killed yet.

## 4. Proofs

Every safety property that a passing run checks is also a theorem, proved by
TLAPS for all values of the constants.

### A run on Unix (UnixTaskProofs)

For every process tree, every set of cancellers and configurations, every pipe
capacity, with or without panics, failing threads and reads and a reaping host.
The cancel and kill protocol (`TypeCorrect`, `LeavesNoOrphans`,
`LosesNoCancel`, `NaturalIsUntouched`, `NoLateCancelKill`) follows from one
inductive invariant, `IInv` of TaskRun:

* `GuardInv`: wherever `run_impl` may be left with a live tree, the guard is armed;
* `QuietInv`: where the tree is known to have no reachable running member;
* `HandleInv`: who holds the mutex, and between which steps the handle is wired;
* `ExitInv`: `Exited` is the last thing `run_impl` does, with the handle cleared;
* `FlagInv`: whoever is past its flag has raised it, and only those signal.

None of the properties is inductive by itself: `NoOrphans` needs to know that a
dead tree stays dead (`QuietStable` in ProcessTreeProofs: only a reachable
member could fork one) and that every path to the return went through a SIGKILL
or found the group empty or out of reach (`KillQuiets`);
`NoCancelKillAfterExited` needs that a canceller past its probe holds the
mutex; `NaturalMeansUntouched` needs the flags. The lemmas about the steps that
both platforms share are in TaskRunProofs. On top of `IInv`:

* `ReapsTheRoot` and the action property `TermsTheRootFirst`, from `RootInv`
  (nobody waits for the root twice, and past `wait()` it is gone) and `TermInv`
  (a kill past its SIGTERM has delivered it, or the root was out of reach or no
  longer running, which is for good);
* `SpentHandleKillsNothing` (no signal), from `SpentInv`: with a spent handle no `cancel()`
  gets past its swap and the wiring block finds the kill done;
* `NumbersChunks` and `DeliversAllOutput`, from `DrainInv` (which drain thread
  is alive when, when the channel is empty, what a drain at end of file left in
  its pipe) and `LogInv`, which is about the events delivered followed by the
  chunks in the channel: chunk n of a stream is unique, is preceded by chunk
  n - 1, and none below the counter is missing unless the run was left early.

`RefinesContract` shows step by step that the run implements RunContract, with
`EmitInv`: what has been emitted at each place of `run_impl`, so that no edge of
the state machine is refused. The contract numbers a chunk by counting the
earlier ones in its log, the code by a counter of the drain thread; the
invariant on the log is what makes the two agree (`CountBelow`).

### A run on Windows (WindowsTaskProofs)

`TypeCorrect`, `LeavesNoOrphans` and `LosesNoCancel` follow from the same `IInv`
and the shared lemmas, with the backend's steps proved anew. `JobInv` gives
`NaturalIsOwnCode` and `FailedSpawnIsClean`: the child is outside the job until
it is assigned, and a root that was terminated has a flag, an early return or a
failed assignment to show for it. `RefinesContract` is the same refinement.

### The C ABI (AerFfiProofs, TaskConfigProofs, EventAbiProofs)

With any number of threads, tasks, handles, keys and settings and any nesting of
runs, AerFfiProofs proves `FfiTyped`, `SpawnsOnce`, `SettingsTakeEffect` and
`ErrorsAreExplained`. `RunInv` says that nothing is spawned before `has_run` is
raised and no setting moves after it; `EnvInv` that the list has one entry per
key, each with the value that was last accepted. The step from the list to the
child's environment is where names matter: `SettingsTakeEffect` assumes
`ExactNames` (two keys are the same variable only if they are equal), and
ClaimEnvCase shows that it fails without. It rests on `WithEnvUpserts` of
TaskConfigProofs: `with_env` replaces or adds one entry.

EventAbiProofs proves `EventsCrossTheAbi`: for every event, of any pid, code,
number and non-empty bytes, what the .NET handler gets is what the run emitted.
`CodesCrossTheAbi` says the same of the error codes.

### The .NET binding (DotnetTaskProofs)

For any finite number of threads that run, dispose and cancel. Three layers:

* `ControlInv`: where each thread can be (`PlaceInv`), that one run claims the
  object and only that one has a cancel handle (`ClaimInv`), and that a callback
  is called only while its run is between `Register` and the end of
  `registration.Dispose` (`CallbackInv`). From it, `BindingCallsTheAbi`: every
  behaviour of the binding is one of AerFfi (`DotnetSpec => Spec`), so AerFfi's
  theorems hold under it (`BindingSpawnsOnce`, `BindingSettingsTakeEffect`).
* `NativeInv`: a SafeHandle's count is its owner's reference plus one for each
  thread between the add-ref and the release of a call on it, and the native
  object is live exactly while the count is positive (`RefInv`); who uses a
  handle got it from the ABI (`MadeInv`); who has closed what, and who still
  has to (`CloseInv`); a thread is in a run of the task exactly while it is in
  `aer_task_run` (`StackInv`). From it, `BindingTyped`, `KeepsTheHeader`,
  `LeaksNothing`, `DisposeIsToBlame` and `FreesInTime`.
* `ToldInv`: what a run is told by its `Exited` event, the result and the
  message agree from the return of `aer_task_run` on. From it,
  `FailuresAreExplained`.
* `EarnedInv`, on top of the other three: a native handle is cancelled only if
  the token was, and only by its callback (`RequestInv`); the task's handle was
  made by the one run that has a token (`OwnInv`); the native `has_run` is not
  raised before the claimed run gets there (`OnceInv`); and the result a run
  holds, then its exception, has its cause (`Earned`). From it,
  `ExceptionsAreEarned`.

AerFfi's actions have the header's rules as guards, so an unruly caller would
just not take the step. `KeepsTheHeader` and `FreesInTime` show that this never
happens: whenever a thread of the binding is at a native call or gives up the
last reference, the guards of that call hold. The reason that a `Dispose`
during a run frees nothing too early is the count alone; the reason that no
callback meets a handle its own run has closed is the order of the `finally`.

### Assumptions, and what is only model-checked

Assumptions are those the modules name: the constants' types, the root not
being a descendant, the threads being distinct and, for the binding, finitely
many, the markers None and Freed being no value they could be taken for
(ProcAssumption, PipeAssumption, ThreadAssumption, ConfigAssumption,
EnvAssumption, FfiAssumption, DotnetAssumption).

Only model-checked: the liveness properties (`RunReturns`, `CancelReturns`,
`TimeoutReturns`, `ThreadsEnd`, `PipesAreDrained`, `FailedSpawnReturns`,
`TokenStopsRun`), since fairness is out of the
prover's reach; and the disagreements of section 3, which are counterexamples.

## 5. Not modelled

* Pid and process group reuse: `ProcessTree` never recycles. The specification
  of aer-core accepts these races on Unix.
* A failing `TerminateJobObject`; the poisoned mutex (no code that holds it
  panics).
* The fork-to-setsid window that `unix.rs` guards against: `Command::spawn`
  returns only once exec has happened, so the window is over before anything
  has the pgid. The fallback to `kill(pid)` is then never needed.
* A CancelHandle in two runs at the same time. One after the other is modelled.
* In the binding: exceptions thrown by event handlers (they leave a native
  frame), a `TimeSpan` out of range, `With*` while another thread runs the
  object, several objects (they share nothing but the error slots, which AerFfi
  has for two tasks), the messages of exceptions of `With*`, finalizers.
* The byte offsets of `AerEvent`, the marshalling of strings, the wording of
  messages. The examples, which only call the API.

## 6. Plan

Done: ProcessTree, TaskRun, UnixTask, WindowsTask, RunContract; spent handles,
failing reads and failing calls in the liveness runs; TaskConfig, AerFfi,
EventAbi, DotnetTask; the proofs of section 4, which cover every safety property
of the passing runs.

Left, in this order:

1. **Pid reuse** as an extension of ProcessTree: which steps may signal a
   stranger, and that none does before the root is reaped.
2. **Exceptions of event handlers** in the binding, which leave a native frame.
3. **The safety half of liveness**: invariants that say who each waiting thread
   waits for, so that a proof of the liveness properties would only need
   fairness.
