----------------------------- MODULE TaskConfig -----------------------------
(***************************************************************************)
(* What a Task carries besides its command, the builders of                *)
(* src/src/task.rs that set it, and the environment the two backends make  *)
(* of it at the spawn.                                                     *)
(***************************************************************************)
EXTENDS Naturals, Sequences, FiniteSetsExt

CONSTANTS
    Keys,       \* environment keys as the caller spells them
    Var,        \* the variable of the platform each key names
    Values,     \* timeouts, values of variables, directories
    Inherited,  \* the parent's value of a variable
    None        \* an empty Option, an unset variable, a NULL pointer

Vars == {Var[k] : k \in Keys}

ASSUME EnvAssumption ==
    /\ Var \in [Keys -> Vars]
    /\ None \notin Values /\ Inherited \notin Values /\ None # Inherited

\* Two keys name the same variable only if they are equal.  Windows folds
\* the case of names, so there it holds for callers that spell a name in one
\* way only.
ExactNames == \A j, k \in Keys : Var[j] = Var[k] => j = k

\* Task.timeout, capture_output, clear_env and cwd.
Settings == {"timeout", "capture", "clear_env", "cwd"}
Config == [Settings -> Values \union BOOLEAN \union {None}]
Default == [f \in Settings |-> IF f \in {"capture", "clear_env"} THEN FALSE ELSE None]

\* Task.env: pairs in the order their keys were first used.
Entry(k, v) == [key |-> k, val |-> v]
Entries == [key : Keys, val : Values]

Hits(env, k) == {i \in DOMAIN env : env[i].key = k}

\* A faulty variant, used only to test the properties: the newest entry is
\* put first, and a key may have several.
with_env_Prepends(env, k, v) == <<Entry(k, v)>> \o env

\* The first entry of the key gets the value, or there is a new one.
with_env(env, k, v) ==
    IF Hits(env, k) = {} THEN Append(env, Entry(k, v))
    ELSE [env EXCEPT ![Min(Hits(env, k))] = Entry(k, v)]

\* A key has one entry at most.
OneEntryEach(env) == \A i, j \in DOMAIN env : env[i].key = env[j].key => i = j

\* env_clear() if asked for, then env(key, value) for each entry in order, so
\* that of several entries for a variable the last one counts.
Naming(env, x) == {i \in DOMAIN env : Var[env[i].key] = x}
ChildEnv(env, clear) ==
    [x \in Vars |-> IF Naming(env, x) # {} THEN env[Max(Naming(env, x))].val
                    ELSE IF clear THEN None ELSE Inherited]
=============================================================================
