---------------------------- MODULE AerFfiClaims ----------------------------
(***************************************************************************)
(* What the header of the C ABI and the comments of the builders say and   *)
(* the code does not keep; each is refuted by a run.                       *)
(***************************************************************************)
EXTENDS AerFfi

\* aer.h, aer_last_error_message: "Returns NULL if no error has occurred since
\* the last successful operation."  aer_task_new and
\* aer_task_make_cancel_handle succeed without clearing an older message.
NullAfterSuccess == \A th \in Threads : last[th] = "Ok" => last_error[th] = None

\* task.rs, with_env: "if called more than once with the same key, the last
\* call before run() wins"; spec, section 4: "Behavior is identical on Windows
\* and Unix".  Windows takes two spellings of a name for one variable, the
\* list of the Task does not, and the later entry of the list wins.
LastCallWins ==
    \A t \in Tasks : \A i \in DOMAIN spawned[t] : spawned[t][i].env = Promised(t).env
=============================================================================
