----------------------------- MODULE DotnetTask -----------------------------
(***************************************************************************)
(* One AerTask object of bindings/dotnet/Aer.Core over the C ABI of AerFfi *)
(* and under the threads that share it: callers of With* and Run,          *)
(* disposers, and the source of the cancellation token.                    *)
(*                                                                         *)
(* A P/Invoke is three steps: the SafeHandle is add-refed, the function of *)
(* AerFfi runs, the SafeHandle is released, which frees it if it was the   *)
(* last reference.  A step of RunCore or Dispose is one access to what     *)
(* the threads share.  Calls made by an event handler are the same calls   *)
(* made by another thread while the run waits, and have no steps here.     *)
(***************************************************************************)
EXTENDS AerFfi, EventAbi

CONSTANTS
    obj,        \* the native task the object owns
    Runners,    \* threads that run the task
    Owner,      \* the one of them that makes and configures it
    Disposers,  \* threads that call Dispose
    Source      \* the thread that cancels the token

ASSUME DotnetAssumption ==
    /\ Tasks = {obj} /\ obj \notin Handles /\ Owner \in Runners
    /\ Threads = Runners \union Disposers \union {Source}
    /\ Source \notin Runners \union Disposers /\ Runners \intersect Disposers = {}
    /\ IsFiniteSet(Threads)
    /\ {None, Freed} \intersect
           {"live", "Natural", "TimedOut", "CancelRequested", "AlreadyRun"} = {}

VARIABLES
    refs,          \* references to every SafeHandle, its owner's included
    closed,        \* SafeHandle: Dispose was called
    hasRunFlag, disposedFlag,
    cancelHandle,  \* the field that tells Dispose of a run's handle
    pc,            \* where every thread is
    local,         \* the cancel handle a thread has in a variable
    token,         \* whether the run's token can be cancelled
    registration,  \* the callback of every run: unset, set, called, over
    requested,     \* the token is cancelled
    thrown,        \* how a run ended: the exception, its Code and its message
    raised,        \* the reason in the Exited event a run's handler was given
    cancelThrew,   \* CancellationTokenSource.Cancel has thrown
    endless        \* the child does not exit by itself

objVars == <<hasRunFlag, disposedFlag, cancelHandle>>
safeVars == <<refs, closed>>
tokenVars == <<registration, requested, cancelThrew>>
callVars == <<local, token, thrown, raised, endless>>
dotnetVars == <<ffiVars, objVars, safeVars, tokenVars, callVars, pc>>

Safe == Tasks \union Handles

\* What Run throws: nothing, an exception of the binding's own, or one for the
\* result of aer_task_run.
ErrorCodes == RunErrors \union {"Ok", "AlreadyRun"}
Exceptions ==
    [type : {"none", "ObjectDisposedException", "InvalidOperationException", "AerException",
             "AerTimeoutException", "AerCancelException"},
     code : ErrorCodes \union {None}, message : RunErrors \union {None}]

\* In a P/Invoke on the task or on a cancel handle, add-ref and release apart.
InTask == {"with", "make", "run", "running"}
InCancel == {"cancel"}
Places ==
    {"idle", "claim", "enter make", "enter run", "enter with", "enter cancel", "leave with",
     "leave make", "leave run", "leave cancel", "publish", "register", "throw", "finally",
     "clear", "close", "read", "close seen", "close task", "notify", "done"}
        \union InTask \union InCancel

\* Every variable stays in its type; in particular no SafeHandle is released
\* more often than it is held.
DotnetTypeOK ==
    /\ refs \in [Safe -> 0 .. 1 + Cardinality(Threads)] /\ closed \in [Safe -> BOOLEAN]
    /\ hasRunFlag \in BOOLEAN /\ disposedFlag \in BOOLEAN
    /\ cancelHandle \in Handles \union {None}
    /\ pc \in [Threads -> Places] /\ local \in [Threads -> Handles \union {None}]
    /\ token \in [Runners -> BOOLEAN]
    /\ registration \in [Runners -> {"unset", "set", "called", "over"}]
    /\ requested \in BOOLEAN /\ cancelThrew \in BOOLEAN /\ endless \in BOOLEAN
    /\ raised \in [Runners -> {"Natural", "TimedOut", "CancelRequested", None}]
    /\ thrown \in [Runners -> Exceptions \union {None}]

DotnetInit ==
    /\ Init
    /\ refs = [h \in Safe |-> 0] /\ closed = [h \in Safe |-> FALSE]
    /\ hasRunFlag = FALSE /\ disposedFlag = FALSE /\ cancelHandle = None
    /\ pc = [th \in Threads |-> "idle"] /\ local = [th \in Threads |-> None]
    /\ token = [r \in Runners |-> FALSE] /\ thrown = [r \in Runners |-> None]
    /\ raised = [r \in Runners |-> None]
    /\ registration = [r \in Runners |-> "unset"]
    /\ requested = FALSE /\ cancelThrew = FALSE
    /\ endless \in BOOLEAN

-----------------------------------------------------------------------------
(* Steps of a thread. *)

At(th, place) == pc[th] = place
Goto(th, place) == pc' = [pc EXCEPT ![th] = place]
\* A step inside a native function, and one that only moves on.
Native(th, from, to) ==
    At(th, from) /\ Goto(th, to) /\ UNCHANGED <<objVars, safeVars, tokenVars, callVars>>
Moves(th, from, to) == Native(th, from, to) /\ UNCHANGED ffiVars
Throws(r, type, code, message) ==
    thrown' = [thrown EXCEPT ![r] = [type |-> type, code |-> code, message |-> message]]

\* SafeHandle: a reference, which is refused when none is left, ...
AddRef(h) == refs[h] > 0 /\ refs' = [refs EXCEPT ![h] = @ + 1]
\* ... and its release, by the thread that frees the handle if it is the last.
Release(th, h) ==
    /\ refs' = [refs EXCEPT ![h] = @ - 1]
    /\ IF refs[h] # 1 THEN UNCHANGED ffiVars
       ELSE IF h = obj THEN aer_task_free(th, obj) ELSE aer_cancel_free(th, h)

\* A faulty variant: the second Dispose of a SafeHandle releases it again.
Close_Again(th, h) == Release(th, h) /\ UNCHANGED closed
\* SafeHandle.Dispose: the owner's reference, once.
Close(th, h) ==
    IF closed[h] THEN UNCHANGED <<ffiVars, safeVars>>
    ELSE closed' = [closed EXCEPT ![h] = TRUE] /\ Release(th, h)

\* The add-ref of a P/Invoke and its release.
Enter(th, from, h, in) ==
    /\ At(th, from) /\ AddRef(h) /\ Goto(th, in)
    /\ UNCHANGED <<ffiVars, closed, objVars, tokenVars, callVars>>
Leave(th, from, h, to) ==
    /\ At(th, from) /\ Release(th, h) /\ Goto(th, to)
    /\ UNCHANGED <<closed, objVars, tokenVars, callVars>>

-----------------------------------------------------------------------------
(* Configuring.  The caller does not configure while another thread runs.   *)

Constructed == task[obj] # None

\* new AerTask(...): NULL is an exception, and no object.
Construct ==
    /\ At(Owner, "idle") /\ ~Constructed
    /\ aer_task_new(Owner, obj)
    /\ refs' = [refs EXCEPT ![obj] = IF task'[obj] = "live" THEN 1 ELSE 0]
    /\ UNCHANGED <<closed, objVars, tokenVars, callVars, pc>>

Busy(r) == pc[r] \notin {"idle", "done"}
Configuring == pc[Owner] \in {"enter with", "with", "leave with"}

ThrowIfDisposed == ~disposedFlag

With ==
    /\ Constructed /\ ~\E q \in Runners : Busy(q)
    /\ ThrowIfDisposed
    /\ Moves(Owner, "idle", "enter with")
WithNative ==
    /\ Native(Owner, "with", "leave with")
    /\ \/ aer_task_with_timeout(Owner, obj) \/ aer_task_with_capture_output(Owner, obj)
       \/ aer_task_set_env(Owner, obj) \/ aer_task_set_clear_env(Owner, obj)
       \/ aer_task_set_cwd(Owner, obj)
WithDisposed == refs[obj] = 0 /\ Moves(Owner, "enter with", "idle")

WithStep ==
    \/ Enter(Owner, "enter with", obj, "with") \/ WithDisposed
    \/ WithNative \/ Leave(Owner, "leave with", obj, "idle")

-----------------------------------------------------------------------------
(* RunCore, up to the native run. *)

\* Run() has no token, RunAsync(token) may have one.
Run(r) ==
    /\ At(r, "idle") /\ Constructed /\ ~Configuring
    /\ \E t \in BOOLEAN : token' = [token EXCEPT ![r] = t]
    /\ \/ ThrowIfDisposed /\ Goto(r, "claim") /\ UNCHANGED thrown
       \/ /\ ~ThrowIfDisposed /\ Goto(r, "done")
          /\ Throws(r, "ObjectDisposedException", None, None)
    /\ UNCHANGED <<ffiVars, objVars, safeVars, tokenVars, local, raised, endless>>

\* A faulty variant: the flag is looked at and not raised.
Claim_Unflagged(r) ==
    ~hasRunFlag /\ Moves(r, "claim", IF token[r] THEN "enter make" ELSE "enter run")
\* Interlocked.Exchange(ref hasRunFlag, 1)
Claim(r) ==
    /\ At(r, "claim") /\ hasRunFlag' = TRUE
    /\ \/ /\ ~hasRunFlag /\ Goto(r, IF token[r] THEN "enter make" ELSE "enter run")
          /\ UNCHANGED thrown
       \/ /\ hasRunFlag /\ Goto(r, "done")
          /\ Throws(r, "InvalidOperationException", None, None)
    /\ UNCHANGED <<ffiVars, disposedFlag, cancelHandle, safeVars, tokenVars, local, token, raised,
                   endless>>

\* The handle is never NULL: the ABI makes one for every task it is given.
MakeNative(r) ==
    /\ At(r, "make") /\ Goto(r, "leave make")
    /\ \E h \in Handles :
        /\ aer_task_make_cancel_handle(r, obj, h)
        /\ refs' = [refs EXCEPT ![h] = 1] /\ local' = [local EXCEPT ![r] = h]
    /\ UNCHANGED <<closed, objVars, tokenVars, token, thrown, raised, endless>>

Publish(r) ==
    /\ At(r, "publish") /\ cancelHandle' = local[r] /\ Goto(r, "register")
    /\ UNCHANGED <<ffiVars, hasRunFlag, disposedFlag, safeVars, tokenVars, callVars>>

\* A faulty variant: a token that is cancelled already is registered with.
Register_Always(r) ==
    /\ At(r, "register")
    /\ registration' = [registration EXCEPT ![r] = "set"] /\ Goto(r, "enter run")
    /\ UNCHANGED <<ffiVars, objVars, safeVars, requested, cancelThrew, callVars>>
\* CancellationToken.Register calls back at once if the token is cancelled.
Register(r) ==
    /\ At(r, "register")
    /\ \/ /\ ~requested /\ Goto(r, "enter run")
          /\ registration' = [registration EXCEPT ![r] = "set"]
       \/ requested /\ Goto(r, "enter cancel") /\ UNCHANGED registration
    /\ UNCHANGED <<ffiVars, objVars, safeVars, requested, cancelThrew, callVars>>

\* An add-ref in RunCore that is refused; the exception leaves by the finally.
RunDisposed(r) ==
    /\ \/ pc[r] \in {"enter make", "enter run"} /\ refs[obj] = 0
       \/ At(r, "enter cancel") /\ refs[local[r]] = 0
    /\ Goto(r, "finally") /\ Throws(r, "ObjectDisposedException", None, None)
    /\ UNCHANGED <<ffiVars, objVars, safeVars, tokenVars, local, token, raised, endless>>

\* static state => aer_cancel(state), called by Cancel or by Register.
CancelNative(th) ==
    Native(th, "cancel", "leave cancel") /\ aer_cancel(th, local[th])

-----------------------------------------------------------------------------
(* The native run and what follows it. *)

RunNative(r) ==
    /\ aer_task_run(r, obj)
    /\ Native(r, "run", IF running'[r] # <<>> THEN "running" ELSE "leave run")

\* The reason in Exited as the handler of EventRaised gets it.
Exited(f) ==
    [kind |-> "Exited", code |-> IF f.timed_out \/ f.kill_fired THEN -1 ELSE 0,
     reason |-> ReasonOf(f)]
ExitedArgs(f) == Dispatch(on_event(Exited(f))).ExitReason

\* The process is dead, an endless one by a timeout or by a cancel (TaskRun):
\* Exited is raised, or the run fails without it.
RunReturnsNative(r) ==
    /\ At(r, "running") /\ Goto(r, "leave run")
    /\ running[r] # <<>>
    /\ \E f \in Flags(obj) :
        /\ endless => f.timed_out \/ f.kill_fired
        /\ \/ RunEndsWith(r, ResultOf(f)) /\ raised' = [raised EXCEPT ![r] = ExitedArgs(f)]
           \/ (\E failure \in Failures : RunEndsWith(r, failure)) /\ UNCHANGED raised
    /\ UNCHANGED <<objVars, safeVars, tokenVars, local, token, thrown, endless>>

\* What the P/Invoke of aer_task_run returns; the only rejection that a live
\* task can meet is AlreadyRun.
RunResult(r) ==
    AerErrorCode(ErrorNumber[IF last[r] = "Rejected" THEN "AlreadyRun" ELSE last[r]])

\* A faulty variant: the message is that of the thread that awaits the run.
BuildRunException_Awaiter(r) ==
    /\ At(r, "throw") /\ Goto(r, "finally")
    /\ \E th \in Threads :
        LET e == RunException(RunResult(r)) IN Throws(r, e.type, e.code, last_error[th])
    /\ UNCHANGED <<ffiVars, objVars, safeVars, tokenVars, local, token, raised, endless>>
\* GetLastErrorMessage(), or the default text, None here, if the run failed.
BuildRunException(r) ==
    /\ At(r, "throw") /\ Goto(r, "finally")
    /\ IF RunResult(r) = "Ok" THEN Throws(r, "none", "Ok", None)
       ELSE LET e == RunException(RunResult(r)) IN Throws(r, e.type, e.code, last_error[r])
    /\ UNCHANGED <<ffiVars, objVars, safeVars, tokenVars, local, token, raised, endless>>

\* A faulty variant: the finally does not undo the registration.
Unregister_Omitted(r) == Moves(r, "finally", "clear")
\* registration.Dispose() waits for a callback that another thread is in.
Unregister(r) ==
    /\ At(r, "finally") /\ registration[r] # "called" /\ Goto(r, "clear")
    /\ registration' = [registration EXCEPT ![r] = "over"]
    /\ UNCHANGED <<ffiVars, objVars, safeVars, requested, cancelThrew, callVars>>

ClearField(r) ==
    /\ At(r, "clear") /\ cancelHandle' = None /\ Goto(r, "close")
    /\ UNCHANGED <<ffiVars, hasRunFlag, disposedFlag, safeVars, tokenVars, callVars>>

\* A faulty variant: the run's handle is left to Dispose.
CloseLocal_Omitted(r) == Moves(r, "close", "done")
\* localCancel?.Dispose()
CloseLocal(r) ==
    /\ At(r, "close") /\ Goto(r, "done")
    /\ IF local[r] = None THEN UNCHANGED <<ffiVars, safeVars>> ELSE Close(r, local[r])
    /\ UNCHANGED <<objVars, tokenVars, callVars>>

RunStep(r) ==
    \/ Claim(r)
    \/ Enter(r, "enter make", obj, "make") \/ MakeNative(r) \/ Leave(r, "leave make", obj, "publish")
    \/ Publish(r) \/ Register(r) \/ RunDisposed(r)
    \/ At(r, "enter cancel") /\ Enter(r, "enter cancel", local[r], "cancel")
    \/ CancelNative(r)
    \/ At(r, "leave cancel") /\ Leave(r, "leave cancel", local[r], "enter run")
    \/ Enter(r, "enter run", obj, "run") \/ RunNative(r) \/ RunReturnsNative(r)
    \/ Leave(r, "leave run", obj, "throw")
    \/ BuildRunException(r) \/ Unregister(r) \/ ClearField(r) \/ CloseLocal(r)

-----------------------------------------------------------------------------
(* Dispose. *)

\* Interlocked.Exchange(ref disposedFlag, 1)
Dispose(d) ==
    /\ At(d, "idle") /\ Constructed
    /\ disposedFlag' = TRUE
    /\ Goto(d, IF disposedFlag THEN "done" ELSE "read")
    /\ UNCHANGED <<ffiVars, hasRunFlag, cancelHandle, safeVars, tokenVars, callVars>>

\* cancelHandle?.Dispose(): the field is read, then the handle is closed.
ReadField(d) ==
    /\ At(d, "read")
    /\ local' = [local EXCEPT ![d] = cancelHandle]
    /\ Goto(d, IF cancelHandle = None THEN "close task" ELSE "close seen")
    /\ UNCHANGED <<ffiVars, objVars, safeVars, tokenVars, token, thrown, raised, endless>>

\* A faulty variant: Dispose cancels the run instead of closing its handle.
CloseSeen_Cancels(d) == Native(d, "close seen", "close task") /\ aer_cancel(d, local[d])
CloseSeen(d) ==
    /\ At(d, "close seen") /\ Close(d, local[d]) /\ Goto(d, "close task")
    /\ UNCHANGED <<objVars, tokenVars, callVars>>
CloseTask(d) ==
    /\ At(d, "close task") /\ Close(d, obj) /\ Goto(d, "done")
    /\ UNCHANGED <<objVars, tokenVars, callVars>>

DisposeStep(d) == ReadField(d) \/ CloseSeen(d) \/ CloseTask(d)

-----------------------------------------------------------------------------
(* CancellationTokenSource.Cancel: the callbacks that are set, one by one.  *)

Cancel ==
    /\ At(Source, "idle") /\ requested' = TRUE /\ Goto(Source, "notify")
    /\ UNCHANGED <<ffiVars, objVars, safeVars, registration, cancelThrew, callVars>>

Notify(r) ==
    /\ At(Source, "notify") /\ registration[r] = "set"
    /\ registration' = [registration EXCEPT ![r] = "called"]
    /\ local' = [local EXCEPT ![Source] = local[r]]
    /\ Goto(Source, "enter cancel")
    /\ UNCHANGED <<ffiVars, objVars, safeVars, requested, cancelThrew, token, thrown, raised,
                   endless>>

NoMore ==
    (\A r \in Runners : registration[r] # "set") /\ Moves(Source, "notify", "done")

\* The callback has returned, or its add-ref was refused and it has thrown.
CallbackOver(threw) ==
    /\ \E r \in Runners :
        /\ registration[r] = "called" /\ local[r] = local[Source]
        /\ registration' = [registration EXCEPT ![r] = "over"]
    /\ cancelThrew' = (cancelThrew \/ threw)
    /\ Goto(Source, "notify")
Called ==
    /\ At(Source, "leave cancel") /\ Release(Source, local[Source]) /\ CallbackOver(FALSE)
    /\ UNCHANGED <<closed, objVars, requested, callVars>>
CallbackDisposed ==
    /\ At(Source, "enter cancel") /\ refs[local[Source]] = 0 /\ CallbackOver(TRUE)
    /\ UNCHANGED <<ffiVars, safeVars, objVars, requested, callVars>>

SourceStep ==
    \/ (\E r \in Runners : Notify(r)) \/ NoMore
    \/ At(Source, "enter cancel") /\ Enter(Source, "enter cancel", local[Source], "cancel")
    \/ CallbackDisposed \/ CancelNative(Source) \/ Called

-----------------------------------------------------------------------------

\* What the program may start, and what goes on by itself once started.
Begin ==
    \/ Construct \/ With \/ \E r \in Runners : Run(r)
    \/ \E d \in Disposers : Dispose(d)
    \/ Cancel
Proceed(th) ==
    \/ th \in Runners /\ RunStep(th)
    \/ th = Owner /\ WithStep
    \/ th \in Disposers /\ DisposeStep(th)
    \/ th = Source /\ SourceStep

DotnetNext == Begin \/ \E th \in Threads : Proceed(th)

\* Threads are scheduled; nobody has to call anything, and an endless child
\* that nothing stops keeps its run waiting.
DotnetSpec ==
    /\ DotnetInit /\ [][DotnetNext]_dotnetVars
    /\ \A th \in Threads : WF_dotnetVars(Proceed(th))

-----------------------------------------------------------------------------
(* Properties. *)

\* The binding keeps what include/aer.h asks of its caller, which AerFfi
\* takes for granted: a thread in a native function holds a task or a cancel
\* handle that is not freed, no two threads are in functions of the task, and
\* none makes a cancel handle while the task runs, whoever disposes, cancels
\* or runs again in the meantime.
HeaderObeyed ==
    \A th \in Threads :
        /\ pc[th] \in InTask => MayUse(th, obj) /\ \A u \in Threads \ {th} : pc[u] \notin InTask
        /\ At(th, "cancel") => box[local[th]] = obj

\* No step of the binding loses a native object: once its runs have returned
\* every cancel handle is freed, and once it is disposed the task is, too.
NothingLeaks ==
    (\A th \in Threads : ~Busy(th)) =>
        /\ \A h \in Handles : box[h] # obj
        /\ disposedFlag => task[obj] # "live"

\* ObjectDisposedException reaches a run, or the thread that cancels the
\* token, only if Dispose was called: a callback never meets the handle of a
\* run that has ended.
DisposedOnlyByDispose ==
    cancelThrew \/ (\E r \in Runners : thrown[r] # None /\ thrown[r].type = "ObjectDisposedException")
        => disposedFlag

\* The exception of a failed run has the message of that failure, and not the
\* default text or another failure's, although the task may be freed and
\* other threads call the ABI before the message is read.
RunFailureExplained ==
    \A r \in Runners : thrown[r] # None /\ thrown[r].code \in RunErrors =>
        thrown[r].message = thrown[r].code

\* AerTask.cs on RunAsync: AerCancelException means "cancellationToken was
\* cancelled", AerTimeoutException "The configured timeout elapsed".  Whoever
\* disposes, runs again or cancels meanwhile, a run throws the first only if
\* its own token was cancelled, the second only if With* has set a timeout,
\* each exactly when its Exited event had that reason, and never the native
\* AlreadyRun, which the binding's own flag forestalls.
ExceptionIsEarned ==
    \A r \in Runners : thrown[r] # None =>
        /\ thrown[r].type = "AerCancelException" <=> raised[r] = "CancelRequested"
        /\ thrown[r].type = "AerTimeoutException" <=> raised[r] = "TimedOut"
        /\ thrown[r].type = "AerCancelException" => requested /\ token[r]
        /\ thrown[r].type = "AerTimeoutException" => accepted[obj]["timeout"] # None
        /\ thrown[r].code # "AlreadyRun"

\* A token that is cancelled ends the run that was given it, whether it was
\* cancelled before, while or after the callback was registered, also if the
\* child would never exit; a task that was disposed is excepted.
Awaits(r) == requested /\ token[r] /\ Busy(r)
TokenStopsRun == \A r \in Runners : Awaits(r) ~> (~Busy(r) \/ disposedFlag)

\* AerTask.cs on RunAsync's token: "When cancelled, requests cancellation of
\* the native run", and on Dispose: "Safe to call while a run is in progress on
\* another thread/task".  Dispose closes the run's cancel handle, and from
\* then on the token cannot stop the run.
TokenStopsDisposedRun == \A r \in Runners : Awaits(r) ~> ~Busy(r)
=============================================================================
