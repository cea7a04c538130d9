------------------------------- MODULE AerFfi -------------------------------
(***************************************************************************)
(* The C ABI of src/src/ffi.rs: task handles, cancel handles and the       *)
(* thread-local last error, under any sequence of calls its threads may    *)
(* make, calls from inside an event callback included.                     *)
(*                                                                         *)
(* Every call is one step except aer_task_run, which is a step when it     *)
(* spawns and one when it returns; in between its thread is in callbacks.  *)
(* What happens inside the run is the subject of TaskRun.  The callers     *)
(* keep to include/aer.h: nothing freed is used, a task is used by one     *)
(* thread at a time and neither freed nor given a cancel handle during     *)
(* its run.  A code stands for the message that describes it.              *)
(***************************************************************************)
EXTENDS TaskConfig

CONSTANTS
    Threads,  \* threads of the host program
    Tasks,    \* task handles to be allocated
    Handles,  \* cancel handles to be allocated
    MaxSet,   \* bound: settings and variables that are set, over all tasks
    Freed     \* a freed allocation

ASSUME FfiAssumption ==
    /\ {None, Freed} \intersect (Tasks \union Handles \union Values) = {}
    /\ None # Freed /\ None \notin Config
    /\ MaxSet \in Nat

VARIABLES
    task,        \* allocation state of every task handle
    inner,       \* AerTask.inner: the settings, or None
    env,         \* AerTask.inner.env
    has_run,     \* AerTask.has_run
    cancel,      \* AerTask.cancel
    box,         \* the task every allocated AerCancelHandle was made for
    cancelled,   \* CancelHandle.cancelled, shared by its clones
    running,     \* per thread, the runs it is in, innermost last
    spawned,     \* per task, the settings and environments it was spawned with
    accepted,    \* per task, the settings the caller was told are made
    named,       \* per task and variable, the value that was last accepted
    last_error,  \* LAST_ERROR of every thread
    last         \* what the thread's last call returned

taskVars == <<task, inner, env, has_run, cancel>>
runVars == <<running, spawned>>
askedVars == <<accepted, named>>
ffiVars == <<taskVars, box, cancelled, runVars, askedVars, last_error, last>>

\* What the child gets.
Childs == [set : Config, env : [Vars -> Values \union {None, Inherited}]]

RunErrors == {"SpawnFailed", "WaitFailed", "TimedOut", "Cancelled", "Panic"}
\* A call is rejected with NullPointer, AlreadyRun or InvalidArgument, none of
\* which comes with a message.
Codes == RunErrors \union {"Ok", "Rejected"}

\* Every variable stays in its type; in particular every builder puts the
\* Task it took out of AerTask.inner back.
FfiTypeOK ==
    /\ task \in [Tasks -> {None, "live", Freed}] /\ box \in [Handles -> Tasks \union {None, Freed}]
    /\ inner \in [Tasks -> Config] /\ accepted \in [Tasks -> Config]
    /\ env \in [Tasks -> Seq(Entries)] /\ named \in [Tasks -> [Vars -> Values \union {None}]]
    /\ has_run \in [Tasks -> BOOLEAN] /\ cancelled \in [Handles -> BOOLEAN]
    /\ cancel \in [Tasks -> Handles \union {None}]
    /\ running \in [Threads -> Seq(Tasks)]
    /\ spawned \in [Tasks -> Seq(Childs)]
    /\ last_error \in [Threads -> RunErrors \union {None}]
    /\ last \in [Threads -> Codes \union {None}]

Init ==
    /\ task = [t \in Tasks |-> None] /\ box = [h \in Handles |-> None]
    /\ inner = [t \in Tasks |-> Default] /\ accepted = [t \in Tasks |-> Default]
    /\ env = [t \in Tasks |-> <<>>] /\ named = [t \in Tasks |-> [x \in Vars |-> None]]
    /\ has_run = [t \in Tasks |-> FALSE] /\ cancelled = [h \in Handles |-> FALSE]
    /\ cancel = [t \in Tasks |-> None]
    /\ running = [th \in Threads |-> <<>>]
    /\ spawned = [t \in Tasks |-> <<>>]
    /\ last_error = [th \in Threads |-> None]
    /\ last = [th \in Threads |-> None]

-----------------------------------------------------------------------------

\* The process a spawn of t makes.
Child(t) == [set |-> inner[t], env |-> ChildEnv(env[t], inner[t]["clear_env"])]

InRun(th, t) == \E i \in DOMAIN running[th] : running[th][i] = t

\* Calls on t the header allows to th.
MayUse(th, t) == task[t] = "live" /\ \A u \in Threads \ {th} : ~InRun(u, t)

-----------------------------------------------------------------------------
(* Faulty variants: slips that code like this invites, used only to test    *)
(* the properties.                                                          *)

\* One error slot for the whole process.
set_last_error_Global(th, code) == last_error' = [u \in Threads |-> code]

\* The settings are changed on a task that has run.
Ready_AnyTime(t) == inner[t] # None

\* The builder's result is not put back.
PutBack_Forgotten(t, f, v) == inner' = [inner EXCEPT ![t] = None]

\* has_run is not raised.
aer_task_run_Unmarked(th, t) ==
    /\ MayUse(th, t) /\ ~has_run[t]
    /\ running' = [running EXCEPT ![th] = Append(@, t)]
    /\ spawned' = [spawned EXCEPT ![t] = Append(@, Child(t))]
    /\ UNCHANGED <<taskVars, box, cancelled, askedVars, last_error, last>>

-----------------------------------------------------------------------------

Returns(th, code) == last' = [last EXCEPT ![th] = code]
set_last_error(th, code) == last_error' = [last_error EXCEPT ![th] = code]
clear_last_error(th) == set_last_error(th, None)

\* The result of a run in the callers' terms, and its message.
map_aer_error(th, code) == set_last_error(th, code) /\ Returns(th, code)

-----------------------------------------------------------------------------
(* Tasks and their settings. *)

\* NULL, and no error message, for an argument that is rejected.
aer_task_new(th, t) ==
    /\ task[t] = None
    /\ \/ task' = [task EXCEPT ![t] = "live"] /\ Returns(th, "Ok")
       \/ UNCHANGED task /\ Returns(th, "Rejected")
    /\ UNCHANGED <<inner, env, has_run, cancel, box, cancelled, runVars, askedVars, last_error>>

Ready(t) == ~has_run[t] /\ inner[t] # None

\* t.inner = Some(inner.with_f(v))
PutBack(t, f, v) == inner' = [inner EXCEPT ![t][f] = v]
Set(t, f, v) ==
    /\ PutBack(t, f, v)
    /\ accepted' = [accepted EXCEPT ![t][f] = v]
    /\ UNCHANGED <<env, named>>

\* t.inner = Some(inner.with_env(k, v))
SetEnv(t, k, v) ==
    /\ env' = [env EXCEPT ![t] = with_env(@, k, v)]
    /\ named' = [named EXCEPT ![t][Var[k]] = v]
    /\ UNCHANGED <<inner, accepted>>

NumberSet ==
    Cardinality({p \in Tasks \X Settings : accepted[p[1]][p[2]] # Default[p[2]]})
        + Cardinality({p \in Tasks \X Vars : named[p[1]][p[2]] # None})

\* What the setters share; valid is whether their strings are, store what
\* they do with the Task.
Configure(th, t, valid, store) ==
    /\ MayUse(th, t)
    /\ \/ /\ Ready(t) /\ valid /\ store
          /\ clear_last_error(th)
          /\ Returns(th, "Ok")
          /\ NumberSet' <= MaxSet
       \/ /\ ~(Ready(t) /\ valid)
          /\ Returns(th, "Rejected")
          /\ UNCHANGED <<inner, env, askedVars, last_error>>
    /\ UNCHANGED <<task, has_run, cancel, box, cancelled, runVars>>

aer_task_with_timeout(th, t) == \E v \in Values : Configure(th, t, TRUE, Set(t, "timeout", v))
aer_task_with_capture_output(th, t) ==
    \E capture \in BOOLEAN : Configure(th, t, TRUE, Set(t, "capture", capture))
aer_task_set_env(th, t) ==
    \E k \in Keys, v \in Values, valid \in BOOLEAN : Configure(th, t, valid, SetEnv(t, k, v))
aer_task_set_clear_env(th, t) ==
    \E clear \in BOOLEAN : Configure(th, t, TRUE, Set(t, "clear_env", clear))
aer_task_set_cwd(th, t) ==
    \E v \in Values, valid \in BOOLEAN : Configure(th, t, valid, Set(t, "cwd", v))

aer_task_free(th, t) ==
    /\ MayUse(th, t) /\ ~InRun(th, t)
    /\ task' = [task EXCEPT ![t] = Freed]
    /\ UNCHANGED <<inner, env, has_run, cancel, box, cancelled, runVars, askedVars, last_error, last>>

\* Every function that takes a task or a handle rejects NULL.
NullArgument(th) ==
    /\ Returns(th, "Rejected")
    /\ UNCHANGED <<taskVars, box, cancelled, runVars, askedVars, last_error>>

-----------------------------------------------------------------------------
(* Cancel handles.  The box and the task each own a clone.                  *)

aer_task_make_cancel_handle(th, t, h) ==
    /\ MayUse(th, t) /\ ~InRun(th, t) /\ box[h] = None
    /\ cancel' = [cancel EXCEPT ![t] = h]
    /\ box' = [box EXCEPT ![h] = t]
    /\ Returns(th, "Ok")
    /\ UNCHANGED <<task, inner, env, has_run, cancelled, runVars, askedVars, last_error>>

aer_cancel(th, h) ==
    /\ box[h] \in Tasks
    /\ cancelled' = [cancelled EXCEPT ![h] = TRUE]
    /\ clear_last_error(th)
    /\ Returns(th, "Ok")
    /\ UNCHANGED <<taskVars, box, runVars, askedVars>>

aer_cancel_free(th, h) ==
    /\ box[h] \in Tasks
    /\ box' = [box EXCEPT ![h] = Freed]
    /\ UNCHANGED <<taskVars, cancelled, runVars, askedVars, last_error, last>>

-----------------------------------------------------------------------------
(* aer_task_run. *)

\* The checks, then has_run, then the run up to the spawn.
aer_task_run(th, t) ==
    /\ MayUse(th, t)
    /\ \/ /\ Ready(t)
          /\ has_run' = [has_run EXCEPT ![t] = TRUE]
          /\ \/ /\ running' = [running EXCEPT ![th] = Append(@, t)]
                /\ spawned' = [spawned EXCEPT ![t] = Append(@, Child(t))]
                /\ UNCHANGED <<last_error, last>>
             \/ /\ map_aer_error(th, "SpawnFailed")
                /\ UNCHANGED runVars
       \/ /\ ~Ready(t)
          /\ Returns(th, "Rejected")
          /\ UNCHANGED <<has_run, runVars, last_error>>
    /\ UNCHANGED <<task, inner, env, cancel, box, cancelled, askedVars>>

\* What run_impl may read when the process is dead: whether the monitor, and
\* whether the cancel handle, has killed it.
Flags(t) ==
    {f \in [timed_out : BOOLEAN, kill_fired : BOOLEAN] :
        /\ f.timed_out => inner[t]["timeout"] # None
        /\ f.kill_fired => cancel[t] # None /\ cancelled[cancel[t]]}

\* The reason in Exited, and the result.
ReasonOf(f) ==
    CASE f.timed_out -> "TimedOut"
      [] ~f.timed_out /\ f.kill_fired -> "CancelRequested"
      [] OTHER -> "NaturalExit"
ResultOf(f) ==
    CASE f.timed_out -> "TimedOut"
      [] ~f.timed_out /\ f.kill_fired -> "Cancelled"
      [] OTHER -> "Ok"

\* The run fails without Exited; a panic is its own (a thread that cannot be
\* started), caught at the boundary.
Failures == {"WaitFailed", "Panic"}
Results(t) == Failures \union {ResultOf(f) : f \in Flags(t)}

RunEndsWith(th, result) ==
    /\ IF result = "Ok" THEN clear_last_error(th) /\ Returns(th, "Ok")
                        ELSE map_aer_error(th, result)
    /\ running' = [running EXCEPT ![th] = SubSeq(@, 1, Len(@) - 1)]
    /\ UNCHANGED <<taskVars, box, cancelled, spawned, askedVars>>

RunEnds(th) ==
    /\ running[th] # <<>>
    /\ \E result \in Results(running[th][Len(running[th])]) : RunEndsWith(th, result)

-----------------------------------------------------------------------------

TaskCall(th, t) ==
    \/ aer_task_new(th, t) \/ aer_task_free(th, t) \/ aer_task_run(th, t)
    \/ aer_task_with_timeout(th, t) \/ aer_task_with_capture_output(th, t)
    \/ aer_task_set_env(th, t) \/ aer_task_set_clear_env(th, t) \/ aer_task_set_cwd(th, t)
    \/ \E h \in Handles : aer_task_make_cancel_handle(th, t, h)

Next ==
    \E th \in Threads :
        \/ \E t \in Tasks : TaskCall(th, t)
        \/ \E h \in Handles : aer_cancel(th, h) \/ aer_cancel_free(th, h)
        \/ NullArgument(th)
        \/ RunEnds(th)

Spec == Init /\ [][Next]_ffiVars

-----------------------------------------------------------------------------
(* Properties. *)

\* A task is spawned at most once, also when the callback of its own run, or
\* of a run nested in it, calls aer_task_run again.
OneRunPerHandle == \A t \in Tasks : Len(spawned[t]) <= 1

\* What the caller was promised: the last accepted value of every setting,
\* and of every variable, over what the child inherits.
Promised(t) ==
    [set |-> accepted[t],
     env |-> [x \in Vars |-> IF named[t][x] # None THEN named[t][x]
                             ELSE IF accepted[t]["clear_env"] THEN None ELSE Inherited]]

\* A setter that returned Ok has its effect: the process is spawned with
\* exactly the settings and the environment the caller was told are made,
\* whatever the order of the calls, and no later one included.
OkMeansEffective ==
    \A t \in Tasks : \A i \in DOMAIN spawned[t] : spawned[t][i] = Promised(t)

\* The message a failed run left is the one its thread finds, whatever the
\* other threads call and whatever ran nested in its callbacks.
RunErrorIsExplained == \A th \in Threads : last[th] \in RunErrors => last_error[th] = last[th]

\* What makes OneRunPerHandle and OkMeansEffective inductive: nothing is
\* spawned before has_run is raised, no setting moves after it, and the list
\* of variables has one entry for each that was named, with its last value.
EnvInv(t) ==
    /\ OneEntryEach(env[t])
    /\ \A i \in DOMAIN env[t] : named[t][Var[env[t][i].key]] = env[t][i].val
    /\ \A x \in Vars : named[t][x] # None => Naming(env[t], x) # {}
RunInv ==
    \A t \in Tasks :
        /\ inner[t] = accepted[t]
        /\ spawned[t] = <<>> \/ (has_run[t] /\ spawned[t] = <<Child(t)>>)
=============================================================================
