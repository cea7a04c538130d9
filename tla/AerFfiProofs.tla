---------------------------- MODULE AerFfiProofs ----------------------------
(***************************************************************************)
(* The safety properties of the C ABI for any number of threads, tasks,    *)
(* cancel handles and settings, and any nesting of runs.                   *)
(***************************************************************************)
EXTENDS AerFfi, TaskConfigProofs

USE FfiAssumption

\* A setting of a task that is one of its own is again a configuration.
LEMMA PutBackTyped ==
    ASSUME NEW c \in [Tasks -> Config], NEW t \in Tasks, NEW f \in Settings,
           NEW v \in Values \union BOOLEAN
    PROVE  [c EXCEPT ![t][f] = v] \in [Tasks -> Config]
  BY DEF Config

\* A code in a thread's result slot, and a message in its error slot.
LEMMA SlotsTyped ==
    ASSUME FfiTypeOK, NEW th \in Threads, NEW code \in Codes, NEW m \in RunErrors \union {None},
           Returns(th, code), set_last_error(th, m) \/ UNCHANGED last_error
    PROVE  /\ last' \in [Threads -> Codes \union {None}]
           /\ last_error' \in [Threads -> RunErrors \union {None}]
  <1>1. last' \in [Threads -> Codes \union {None}]
    BY DEF FfiTypeOK, Returns
  <1>2. last_error' \in [Threads -> RunErrors \union {None}]
    BY DEF FfiTypeOK, set_last_error
  <1> QED
    BY <1>1, <1>2

\* A setter's answer stays in its type.
LEMMA ConfigureAnswers ==
    ASSUME FfiTypeOK, NEW th \in Threads, NEW t \in Tasks, NEW valid, NEW ACTION store,
           Configure(th, t, valid, store)
    PROVE  /\ last' \in [Threads -> Codes \union {None}]
           /\ last_error' \in [Threads -> RunErrors \union {None}]
  <1>1. PICK code \in Codes : Returns(th, code)
                              /\ (set_last_error(th, None) \/ UNCHANGED last_error)
    BY DEF Configure, clear_last_error, Codes
  <1> QED
    BY <1>1, SlotsTyped

\* The settings functions of the ABI leave every variable in its type ...
LEMMA SetTyped ==
    ASSUME FfiTypeOK, NEW th \in Threads, NEW t \in Tasks, NEW valid, NEW f \in Settings,
           NEW v \in Values \union BOOLEAN, Configure(th, t, valid, Set(t, f, v))
    PROVE  FfiTypeOK'
  <1>1. inner' \in [Tasks -> Config] /\ accepted' \in [Tasks -> Config]
    <2>1. CASE inner' = inner /\ accepted' = accepted
      BY <2>1 DEF FfiTypeOK
    <2>2. CASE inner' = [inner EXCEPT ![t][f] = v] /\ accepted' = [accepted EXCEPT ![t][f] = v]
      <3>1. inner \in [Tasks -> Config] /\ accepted \in [Tasks -> Config]
        BY DEF FfiTypeOK
      <3>2. [inner EXCEPT ![t][f] = v] \in [Tasks -> Config]
        BY <3>1, PutBackTyped
      <3>3. [accepted EXCEPT ![t][f] = v] \in [Tasks -> Config]
        BY <3>1, PutBackTyped
      <3> QED
        BY <2>2, <3>2, <3>3
    <2> QED
      BY <2>1, <2>2 DEF Configure, Set, PutBack, askedVars
  <1>2. env' = env /\ named' = named
    BY DEF Configure, Set, askedVars
  <1> QED
    BY <1>1, <1>2, ConfigureAnswers DEF Configure, FfiTypeOK, runVars

\* ... and so does the one that sets a variable.
LEMMA SetEnvTyped ==
    ASSUME FfiTypeOK, NEW th \in Threads, NEW t \in Tasks, NEW valid, NEW k \in Keys, NEW v \in Values,
           Configure(th, t, valid, SetEnv(t, k, v))
    PROVE  FfiTypeOK'
  <1>1. with_env(env[t], k, v) \in Seq(Entries)
    BY WithEnvUpserts DEF FfiTypeOK
  <1>2. Var[k] \in Vars
    BY DEF Vars
  <1>3. env' \in [Tasks -> Seq(Entries)]
    <2>1. env \in [Tasks -> Seq(Entries)]
      BY DEF FfiTypeOK
    <2>2. env' = env \/ env' = [env EXCEPT ![t] = with_env(@, k, v)]
      BY DEF Configure, SetEnv
    <2> QED
      BY <1>1, <2>1, <2>2
  <1>4. named' \in [Tasks -> [Vars -> Values \union {None}]]
    <2>1. named \in [Tasks -> [Vars -> Values \union {None}]]
      BY DEF FfiTypeOK
    <2>2. named' = named \/ named' = [named EXCEPT ![t][Var[k]] = v]
      BY DEF Configure, SetEnv, askedVars
    <2> QED
      BY <1>2, <2>1, <2>2
  <1>5. inner' = inner /\ accepted' = accepted
    BY DEF Configure, SetEnv, askedVars
  <1> QED
    BY <1>3, <1>4, <1>5, ConfigureAnswers DEF Configure, FfiTypeOK, runVars

\* aer_task_run leaves every variable in its type, at its start ...
LEMMA RunTyped ==
    ASSUME FfiTypeOK, NEW th \in Threads, NEW t \in Tasks, aer_task_run(th, t)
    PROVE  FfiTypeOK'
  <1>0. Child(t) \in Childs
    BY ChildEnvTyped DEF FfiTypeOK, Child, Childs
  <1>1. Append(running[th], t) \in Seq(Tasks) /\ Append(spawned[t], Child(t)) \in Seq(Childs)
    BY <1>0 DEF FfiTypeOK
  <1>2. running' \in [Threads -> Seq(Tasks)] /\ spawned' \in [Tasks -> Seq(Childs)]
    <2>1. CASE running' = running /\ spawned' = spawned
      BY <2>1 DEF FfiTypeOK
    <2>2. CASE /\ running' = [running EXCEPT ![th] = Append(@, t)]
               /\ spawned' = [spawned EXCEPT ![t] = Append(@, Child(t))]
      BY <1>1, <2>2 DEF FfiTypeOK
    <2> QED
      BY <2>1, <2>2 DEF aer_task_run, runVars
  <1>3. has_run' \in [Tasks -> BOOLEAN]
    BY DEF aer_task_run, FfiTypeOK
  <1>4. last' \in [Threads -> Codes \union {None}]
        /\ last_error' \in [Threads -> RunErrors \union {None}]
    <2>1. CASE UNCHANGED <<last_error, last>>
      BY <2>1 DEF FfiTypeOK
    <2>2. CASE map_aer_error(th, "SpawnFailed")
      BY <2>2, SlotsTyped, "SpawnFailed" \in Codes, "SpawnFailed" \in RunErrors
      DEF map_aer_error, Codes, RunErrors
    <2>3. CASE Returns(th, "Rejected") /\ UNCHANGED last_error
      BY <2>3, SlotsTyped, "Rejected" \in Codes DEF Codes
    <2> QED
      BY <2>1, <2>2, <2>3 DEF aer_task_run
  <1> QED
    BY <1>2, <1>3, <1>4 DEF aer_task_run, FfiTypeOK, askedVars

\* ... and at its end.
LEMMA RunEndsTyped ==
    ASSUME FfiTypeOK, NEW th \in Threads, RunEnds(th)
    PROVE  FfiTypeOK'
  <1> DEFINE n == Len(running[th])
  <1>1. running[th] \in Seq(Tasks) /\ n \in Nat
    BY DEF FfiTypeOK
  <1>2. SubSeq(running[th], 1, n - 1) \in Seq(Tasks)
    <2>1. n \in Nat \ {0}
      BY <1>1, EmptySeq DEF RunEnds
    <2>2. \A i \in 1 .. n - 1 : running[th][i] \in Tasks
      BY <1>1
    <2> QED
      BY <1>1, <2>1, <2>2
  <1>3. running' \in [Threads -> Seq(Tasks)]
    BY <1>2 DEF RunEnds, RunEndsWith, FfiTypeOK
  <1>4. \A t \in Tasks : Results(t) \subseteq RunErrors \union {"Ok"}
    BY DEF Results, Failures, ResultOf, RunErrors
  <1>5. running[th][n] \in Tasks
    BY <1>1, EmptySeq DEF RunEnds
  <1>6. last' \in [Threads -> Codes \union {None}]
        /\ last_error' \in [Threads -> RunErrors \union {None}]
    <2>1. PICK result \in Results(running[th][n]) :
            IF result = "Ok" THEN clear_last_error(th) /\ Returns(th, "Ok")
                             ELSE map_aer_error(th, result)
      BY DEF RunEnds, RunEndsWith
    <2>2. result = "Ok" \/ result \in RunErrors
      BY <1>4, <1>5
    <2>3. PICK m \in RunErrors \union {None} : set_last_error(th, m) /\ Returns(th, result)
      BY <2>1, <2>2 DEF clear_last_error, map_aer_error
    <2>4. result \in Codes
      BY <2>2 DEF Codes
    <2> QED
      BY <2>3, <2>4, SlotsTyped
  <1> QED
    BY <1>3, <1>6 DEF RunEnds, RunEndsWith, FfiTypeOK, taskVars, askedVars

\* No call leaves a variable outside its type.
LEMMA FfiKeepsTypes ==
    ASSUME FfiTypeOK, [Next]_ffiVars
    PROVE  FfiTypeOK'
  <1>1. CASE UNCHANGED ffiVars
    BY <1>1 DEF FfiTypeOK, ffiVars, taskVars, runVars, askedVars
  <1>2. ASSUME NEW th \in Threads, NEW t \in Tasks, TaskCall(th, t)
        PROVE  FfiTypeOK'
    <2>1. CASE aer_task_new(th, t)
      BY <2>1 DEF aer_task_new, FfiTypeOK, Returns, Codes, runVars, askedVars
    <2>2. CASE aer_task_free(th, t)
      BY <2>2 DEF aer_task_free, FfiTypeOK, runVars, askedVars
    <2>3. CASE aer_task_run(th, t)
      BY <2>3, RunTyped
    <2>4. CASE \E h \in Handles : aer_task_make_cancel_handle(th, t, h)
      BY <2>4 DEF aer_task_make_cancel_handle, FfiTypeOK, Returns, Codes, runVars, askedVars
    <2>5. CASE \/ aer_task_with_timeout(th, t) \/ aer_task_with_capture_output(th, t)
               \/ aer_task_set_env(th, t) \/ aer_task_set_clear_env(th, t)
               \/ aer_task_set_cwd(th, t)
      BY <2>5, SetTyped, SetEnvTyped
      DEF aer_task_with_timeout, aer_task_with_capture_output, aer_task_set_env,
          aer_task_set_clear_env, aer_task_set_cwd, Settings
    <2> QED
      BY <1>2, <2>1, <2>2, <2>3, <2>4, <2>5 DEF TaskCall
  <1>3. ASSUME NEW th \in Threads, NEW h \in Handles,
               aer_cancel(th, h) \/ aer_cancel_free(th, h)
        PROVE  FfiTypeOK'
    BY <1>3 DEF aer_cancel, aer_cancel_free, FfiTypeOK, clear_last_error, set_last_error,
                Returns, Codes, taskVars, runVars, askedVars
  <1>4. ASSUME NEW th \in Threads, NullArgument(th)
        PROVE  FfiTypeOK'
    BY <1>4 DEF NullArgument, FfiTypeOK, Returns, Codes, taskVars, runVars, askedVars
  <1> QED
    BY <1>1, <1>2, <1>3, <1>4, RunEndsTyped DEF Next

\* Nothing is allocated at the start.
LEMMA FfiInit == Init => FfiTypeOK
  BY EmptySeq DEF Init, FfiTypeOK, Config, Default

\* Every call of the C ABI leaves handles, tasks, stacks of runs and error
\* slots in their types; no builder loses the Task it took out of inner.
THEOREM FfiTyped == Spec => []FfiTypeOK
  <1>1. Init => FfiTypeOK
    BY FfiInit
  <1>2. FfiTypeOK /\ [Next]_ffiVars => FfiTypeOK'
    BY FfiKeepsTypes
  <1> QED
    BY <1>1, <1>2, PTL DEF Spec

-----------------------------------------------------------------------------

\* A setter moves inner and accepted together, and only before the run.
LEMMA SetKeeps ==
    ASSUME FfiTypeOK, RunInv, RunErrorIsExplained, NEW th \in Threads, NEW t \in Tasks,
           NEW valid, NEW f, NEW v, Configure(th, t, valid, Set(t, f, v))
    PROVE  RunInv' /\ RunErrorIsExplained'
  <1>1. spawned' = spawned /\ has_run' = has_run /\ env' = env
    BY DEF Configure, Set, runVars
  <1>2. RunErrorIsExplained'
    BY DEF Configure, FfiTypeOK, RunErrorIsExplained, Returns, clear_last_error, set_last_error,
           RunErrors
  <1>3. CASE Ready(t) /\ valid
    <2>1. inner' = [inner EXCEPT ![t][f] = v] /\ accepted' = [accepted EXCEPT ![t][f] = v]
      BY <1>3 DEF Configure, Set, PutBack
    <2>2. spawned[t] = <<>>
      BY <1>3 DEF Ready, RunInv
    <2>3. \A u \in Tasks : u # t => inner'[u] = inner[u] /\ Child(u)' = Child(u)
      BY <1>1, <2>1 DEF Child, FfiTypeOK
    <2>4. inner'[t] = accepted'[t] /\ \A u \in Tasks : u # t => accepted'[u] = accepted[u]
      BY <2>1 DEF RunInv, FfiTypeOK
    <2> QED
      BY <1>1, <1>2, <2>2, <2>3, <2>4 DEF RunInv
  <1>4. CASE ~(Ready(t) /\ valid)
    BY <1>1, <1>2, <1>4 DEF Configure, RunInv, Child, askedVars
  <1> QED
    BY <1>3, <1>4

\* A variable is set only before the run.
LEMMA SetEnvKeeps ==
    ASSUME FfiTypeOK, RunInv, RunErrorIsExplained, NEW th \in Threads, NEW t \in Tasks,
           NEW valid, NEW k, NEW v, Configure(th, t, valid, SetEnv(t, k, v))
    PROVE  RunInv' /\ RunErrorIsExplained'
  <1>1. /\ spawned' = spawned /\ has_run' = has_run
        /\ inner' = inner /\ accepted' = accepted
    BY DEF Configure, SetEnv, runVars, askedVars
  <1>2. RunErrorIsExplained'
    BY DEF Configure, FfiTypeOK, RunErrorIsExplained, Returns, clear_last_error, set_last_error,
           RunErrors
  <1>3. CASE Ready(t) /\ valid
    <2>1. spawned[t] = <<>>
      BY <1>3 DEF Ready, RunInv
    <2>2. \A u \in Tasks : u # t => env'[u] = env[u]
      BY <1>3 DEF Configure, SetEnv, FfiTypeOK
    <2>3. \A u \in Tasks : u # t => Child(u)' = Child(u)
      BY <1>1, <2>2 DEF Child
    <2> QED
      BY <1>1, <1>2, <2>1, <2>3 DEF RunInv
  <1>4. CASE ~(Ready(t) /\ valid)
    BY <1>1, <1>2, <1>4 DEF Configure, RunInv, Child
  <1> QED
    BY <1>3, <1>4

\* aer_task_run raises has_run before it spawns, with what inner holds.
LEMMA RunKeeps ==
    ASSUME FfiTypeOK, RunInv, RunErrorIsExplained, NEW th \in Threads, NEW t \in Tasks,
           aer_task_run(th, t)
    PROVE  RunInv' /\ RunErrorIsExplained'
  <1>1. inner' = inner /\ accepted' = accepted /\ env' = env
    BY DEF aer_task_run, askedVars
  <1>0. \A u \in Tasks : Child(u)' = Child(u)
    BY <1>1 DEF Child
  <1>2. RunErrorIsExplained'
    BY DEF aer_task_run, FfiTypeOK, RunErrorIsExplained, Returns, map_aer_error, set_last_error,
           RunErrors
  <1>3. CASE spawned' = spawned
    BY <1>0, <1>1, <1>2, <1>3 DEF aer_task_run, RunInv, FfiTypeOK
  <1>4. CASE spawned' # spawned
    <2>1. Ready(t) /\ has_run' = [has_run EXCEPT ![t] = TRUE]
          /\ spawned' = [spawned EXCEPT ![t] = Append(@, Child(t))]
      BY <1>4 DEF aer_task_run, runVars
    <2>2. spawned[t] = <<>>
      BY <2>1 DEF Ready, RunInv
    <2>3. Append(<<>>, Child(t)) = <<Child(t)>>
      OBVIOUS
    <2> QED
      BY <1>0, <1>1, <1>2, <2>1, <2>2, <2>3 DEF RunInv, FfiTypeOK
  <1> QED
    BY <1>3, <1>4

\* No other call touches settings or spawned; each that returns a code of a
\* failed run has left that code's message on its own thread.
LEMMA OthersKeep ==
    ASSUME FfiTypeOK, RunInv, RunErrorIsExplained, NEW th \in Threads,
           \/ \E t \in Tasks : aer_task_new(th, t) \/ aer_task_free(th, t)
           \/ \E t \in Tasks, h \in Handles : aer_task_make_cancel_handle(th, t, h)
           \/ \E h \in Handles : aer_cancel(th, h) \/ aer_cancel_free(th, h)
           \/ NullArgument(th) \/ RunEnds(th)
    PROVE  RunInv' /\ RunErrorIsExplained'
  <1>1. /\ inner' = inner /\ accepted' = accepted /\ env' = env
        /\ has_run' = has_run /\ spawned' = spawned
    BY DEF aer_task_new, aer_task_free, aer_task_make_cancel_handle, aer_cancel,
           aer_cancel_free, NullArgument, RunEnds, RunEndsWith, taskVars, runVars, askedVars
  <1>2. RunInv'
    BY <1>1 DEF RunInv, Child
  <1>3. CASE RunEnds(th)
    <2>1. PICK result : IF result = "Ok" THEN clear_last_error(th) /\ Returns(th, "Ok")
                                         ELSE map_aer_error(th, result)
      BY <1>3 DEF RunEnds, RunEndsWith
    <2>2. PICK m : last_error' = [last_error EXCEPT ![th] = m]
                   /\ last' = [last EXCEPT ![th] = result]
                   /\ (result = "Ok" \/ m = result)
      BY <2>1 DEF Returns, clear_last_error, map_aer_error, set_last_error
    <2>3. "Ok" \notin RunErrors
      BY DEF RunErrors
    <2>4. RunErrorIsExplained'
      BY <2>2, <2>3 DEF FfiTypeOK, RunErrorIsExplained
    <2> QED
      BY <1>2, <2>4
  <1>4. CASE ~RunEnds(th)
    <2>1. RunErrorIsExplained'
      BY <1>4 DEF aer_task_new, aer_task_free, aer_task_make_cancel_handle, aer_cancel,
                  aer_cancel_free, NullArgument, FfiTypeOK, RunErrorIsExplained, Returns,
                  clear_last_error, set_last_error, RunErrors
    <2> QED
      BY <1>2, <2>1
  <1> QED
    BY <1>3, <1>4

\* Nothing is spawned before has_run, no setting moves after it, and every
\* thread that was told of a failed run has that run's message.
THEOREM FfiInvariant == Spec => [](RunInv /\ RunErrorIsExplained)
  <1> DEFINE Inv == FfiTypeOK /\ RunInv /\ RunErrorIsExplained
  <1>1. Init => RunInv /\ RunErrorIsExplained
    BY DEF Init, RunInv, RunErrorIsExplained, RunErrors
  <1>2. Inv /\ [Next]_ffiVars => RunInv' /\ RunErrorIsExplained'
    <2> SUFFICES ASSUME Inv, [Next]_ffiVars PROVE RunInv' /\ RunErrorIsExplained'
      OBVIOUS
    <2>1. CASE UNCHANGED ffiVars
      BY <2>1 DEF RunInv, RunErrorIsExplained, Child, ffiVars, taskVars, runVars, askedVars
    <2>2. ASSUME NEW th \in Threads, NEW t \in Tasks,
                 \/ aer_task_with_timeout(th, t) \/ aer_task_with_capture_output(th, t)
                 \/ aer_task_set_env(th, t) \/ aer_task_set_clear_env(th, t)
                 \/ aer_task_set_cwd(th, t)
          PROVE  RunInv' /\ RunErrorIsExplained'
      BY <2>2, SetKeeps, SetEnvKeeps
      DEF aer_task_with_timeout, aer_task_with_capture_output, aer_task_set_env,
          aer_task_set_clear_env, aer_task_set_cwd
    <2> QED
      BY <2>1, <2>2, RunKeeps, OthersKeep DEF Next, TaskCall
  <1> QED
    BY <1>1, <1>2, FfiTyped, PTL DEF Spec

\* A task handle is spawned at most once, whatever its callbacks call.
THEOREM SpawnsOnce == Spec => []OneRunPerHandle
  <1>1. ASSUME RunInv, NEW t \in Tasks PROVE Len(spawned[t]) <= 1
    <2>1. CASE spawned[t] = <<>>
      BY <2>1
    <2>2. CASE spawned[t] = <<Child(t)>>
      BY <2>2
    <2> QED
      BY <1>1, <2>1, <2>2 DEF RunInv
  <1>2. RunInv => OneRunPerHandle
    BY <1>1 DEF OneRunPerHandle
  <1> QED
    BY <1>2, FfiInvariant, PTL

\* A failed run's message survives other threads' calls and nested runs.
THEOREM ErrorsAreExplained == Spec => []RunErrorIsExplained
  BY FfiInvariant, PTL

-----------------------------------------------------------------------------

\* A variable that is set replaces what was last accepted for it, in the list
\* and in the promise alike.
LEMMA SetEnvKeepsEnv ==
    ASSUME ExactNames, FfiTypeOK, \A u \in Tasks : EnvInv(u), NEW th \in Threads,
           NEW t \in Tasks, NEW valid, NEW k \in Keys, NEW v \in Values,
           Configure(th, t, valid, SetEnv(t, k, v))
    PROVE  \A u \in Tasks : EnvInv(u)'
  <1>1. CASE env' = env /\ named' = named
    BY <1>1 DEF EnvInv
  <1>2. CASE /\ env' = [env EXCEPT ![t] = with_env(@, k, v)]
             /\ named' = [named EXCEPT ![t][Var[k]] = v]
    <2> DEFINE old == env[t]
               new == with_env(old, k, v)
    <2>1. old \in Seq(Entries) /\ OneEntryEach(old) /\ env'[t] = new
      BY <1>2 DEF FfiTypeOK, EnvInv
    <2>2. /\ new \in Seq(Entries) /\ OneEntryEach(new)
          /\ \E i \in DOMAIN new : new[i] = Entry(k, v)
          /\ \A i \in DOMAIN new : new[i] = Entry(k, v) \/ (i \in DOMAIN old /\ new[i] = old[i])
          /\ \A i \in DOMAIN old : i \in DOMAIN new /\ new[i].key = old[i].key
      BY <2>1, WithEnvUpserts
    <2>3. /\ named'[t][Var[k]] = v
          /\ \A x \in Vars : x # Var[k] => named'[t][x] = named[t][x]
          /\ \A u \in Tasks : u # t => named'[u] = named[u] /\ env'[u] = env[u]
      <3>1. Var[k] \in Vars
        BY DEF Vars
      <3> QED
        BY <1>2, <3>1 DEF FfiTypeOK
    <2> HIDE DEF old, new
    <2>4. \A i \in DOMAIN old : old[i].key \in Keys /\ named[t][Var[old[i].key]] = old[i].val
      <3>1. \A i \in DOMAIN old : old[i].key \in Keys
        BY <2>1, EntryFields DEF old
      <3> QED
        BY <3>1 DEF EnvInv, old
    <2>5. \A i \in DOMAIN new : new[i].key \in Keys /\ Var[new[i].key] \in Vars
      BY <2>2, EntryFields
    <2>6. PICK m \in DOMAIN new : new[m] = Entry(k, v)
      BY <2>2
    <2>7. new[m].key = k /\ new[m].val = v
      BY <2>6 DEF Entry
    <2>8. ASSUME NEW i \in DOMAIN new PROVE named'[t][Var[new[i].key]] = new[i].val
      <3>1. CASE new[i] = new[m]
        BY <2>3, <2>7, <3>1
      <3>2. CASE new[i] # new[m]
        <4>1. i \in DOMAIN old /\ new[i] = old[i]
          BY <2>2, <2>6, <3>2
        <4>2. new[i].key # k
          BY <2>2, <2>7, <3>2 DEF OneEntryEach
        <4>3. Var[new[i].key] # Var[k]
          BY <2>5, <4>2 DEF ExactNames
        <4> QED
          BY <2>3, <2>4, <2>5, <4>1, <4>3
      <3> QED
        BY <3>1, <3>2
    <2>9. ASSUME NEW x \in Vars, named'[t][x] # None PROVE Naming(new, x) # {}
      <3>1. CASE x = Var[k]
        BY <2>6, <2>7, <3>1 DEF Naming
      <3>2. CASE x # Var[k]
        <4>1. Naming(old, x) # {}
          BY <2>3, <2>9, <3>2 DEF EnvInv, old
        <4> QED
          BY <2>2, <4>1 DEF Naming
      <3> QED
        BY <3>1, <3>2
    <2>10. EnvInv(t)'
      BY <2>1, <2>2, <2>8, <2>9 DEF EnvInv
    <2>11. \A u \in Tasks : u # t => EnvInv(u)'
      BY <2>3 DEF EnvInv
    <2> QED
      BY <2>10, <2>11
  <1> QED
    BY <1>1, <1>2 DEF Configure, SetEnv, askedVars

\* Where a key names its own variable, the list of a task has one entry for
\* each variable that was set, with the value that was accepted last.
THEOREM EnvInvariant == ASSUME ExactNames PROVE Spec => [](\A t \in Tasks : EnvInv(t))
  <1> DEFINE Inv == \A t \in Tasks : EnvInv(t)
  <1>1. Init => Inv
    <2> SUFFICES ASSUME Init, NEW t \in Tasks PROVE EnvInv(t)
      OBVIOUS
    <2>1. env[t] = <<>> /\ \A x \in Vars : named[t][x] = None
      BY DEF Init
    <2> QED
      BY <2>1 DEF EnvInv, OneEntryEach
  <1>2. FfiTypeOK /\ Inv /\ [Next]_ffiVars => Inv'
    <2> SUFFICES ASSUME FfiTypeOK, Inv, [Next]_ffiVars PROVE Inv'
      OBVIOUS
    <2>1. CASE env' = env /\ named' = named
      BY <2>1 DEF EnvInv
    <2>2. ASSUME NEW th \in Threads, NEW t \in Tasks, aer_task_set_env(th, t)
          PROVE  Inv'
      BY <2>2, SetEnvKeepsEnv DEF aer_task_set_env
    <2>3. ASSUME NEW th \in Threads, NEW t \in Tasks, TaskCall(th, t), ~aer_task_set_env(th, t)
          PROVE  env' = env /\ named' = named
      <3>1. CASE \/ aer_task_new(th, t) \/ aer_task_free(th, t) \/ aer_task_run(th, t)
                 \/ \E h \in Handles : aer_task_make_cancel_handle(th, t, h)
        BY <3>1 DEF aer_task_new, aer_task_free, aer_task_run, aer_task_make_cancel_handle,
                    askedVars
      <3>2. ASSUME NEW valid, NEW f, NEW v, Configure(th, t, valid, Set(t, f, v))
            PROVE  env' = env /\ named' = named
        BY <3>2 DEF Configure, Set, askedVars
      <3> QED
        BY <2>3, <3>1, <3>2
        DEF TaskCall, aer_task_with_timeout, aer_task_with_capture_output,
            aer_task_set_clear_env, aer_task_set_cwd
    <2>4. ASSUME NEW th \in Threads,
                 \/ \E h \in Handles : aer_cancel(th, h) \/ aer_cancel_free(th, h)
                 \/ NullArgument(th) \/ RunEnds(th)
          PROVE  env' = env /\ named' = named
      BY <2>4 DEF aer_cancel, aer_cancel_free, NullArgument, RunEnds, RunEndsWith, taskVars,
                  askedVars
    <2>5. CASE UNCHANGED ffiVars
      BY <2>1, <2>5 DEF ffiVars, taskVars, askedVars
    <2> QED
      BY <2>1, <2>2, <2>3, <2>4, <2>5 DEF Next
  <1> QED
    BY <1>1, <1>2, FfiTyped, PTL DEF Spec

\* What a task would be spawned with is what its caller was promised.
LEMMA ChildIsPromised ==
    ASSUME FfiTypeOK, RunInv, NEW t \in Tasks, EnvInv(t)
    PROVE  Child(t) = Promised(t)
  <1>1. ASSUME NEW x \in Vars
        PROVE  ChildEnv(env[t], inner[t]["clear_env"])[x] = Promised(t).env[x]
    <2> DEFINE m == Max(Naming(env[t], x))
    <2>1. CASE Naming(env[t], x) # {}
      <3>1. env[t] \in Seq(Entries)
        BY DEF FfiTypeOK
      <3>2. m \in Naming(env[t], x)
        BY <2>1, <3>1, LastNaming
      <3> HIDE DEF m
      <3>3. m \in DOMAIN env[t] /\ Var[env[t][m].key] = x
        BY <3>2 DEF Naming
      <3>4. env[t][m].val \in Values /\ named[t][x] = env[t][m].val
        <4>1. env[t][m].val \in Values
          BY <3>1, <3>3, EntryFields
        <4>2. named[t][Var[env[t][m].key]] = env[t][m].val
          BY <3>3 DEF EnvInv
        <4> QED
          BY <3>3, <4>1, <4>2
      <3>5. ChildEnv(env[t], inner[t]["clear_env"])[x] = env[t][m].val
        BY <2>1 DEF ChildEnv, m
      <3> QED
        BY <3>4, <3>5, EnvAssumption DEF Promised
    <2>2. CASE Naming(env[t], x) = {}
      BY <2>2 DEF ChildEnv, Promised, EnvInv, RunInv
    <2> QED
      BY <2>1, <2>2
  <1>2. ChildEnv(env[t], inner[t]["clear_env"]) = Promised(t).env
    BY <1>1 DEF ChildEnv, Promised
  <1>3. inner[t] = Promised(t).set
    BY DEF RunInv, Promised
  <1> QED
    BY <1>2, <1>3 DEF Child, Promised

\* A process is spawned with exactly the settings and the environment that
\* were accepted, where a key names its own variable: the ordering of
\* with_env, ffi.rs and the two spawns together.
THEOREM SettingsTakeEffect == ASSUME ExactNames PROVE Spec => []OkMeansEffective
  <1>1. FfiTypeOK /\ RunInv /\ (\A t \in Tasks : EnvInv(t)) => OkMeansEffective
    BY ChildIsPromised DEF RunInv, OkMeansEffective
  <1> QED
    BY <1>1, FfiTyped, FfiInvariant, EnvInvariant, PTL
=============================================================================
