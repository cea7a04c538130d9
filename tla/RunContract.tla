----------------------------- MODULE RunContract -----------------------------
(***************************************************************************)
(* What one call of Task::run / run_with_cancel promises its caller,       *)
(* whatever the platform: the events on_event sees, in their order, and    *)
(* the result, against the part of the process tree that is live, i.e.     *)
(* that still runs and that the platform's kill can reach.                 *)
(*                                                                         *)
(*  - events are Started, then chunks numbered 0, 1, ... per stream, then  *)
(*    Exited, each callback made while run() has not returned;             *)
(*  - a spawn that is refused emits nothing;                               *)
(*  - Exited is emitted, and run() returns, only with nothing live: for    *)
(*    every reason, including a panic in the callback;                     *)
(*  - a live tree once dead stays dead;                                    *)
(*  - the result follows from the reason in Exited; a run that emitted no  *)
(*    Exited failed to wait or panicked.                                   *)
(***************************************************************************)
EXTENDS Integers, Sequences, FiniteSets

CONSTANTS Procs, Streams, Codes

VARIABLES events, ret, spawned, live

contractVars == <<events, ret, spawned, live>>

Killed == -1

Emitted(type) == \E i \in DOMAIN events : events[i].type = type

Init ==
    /\ events = <<>> /\ ret = "none"
    /\ spawned = FALSE /\ live = {}

\* The OS refuses the spawn.
Refuse ==
    /\ ~spawned /\ ret = "none"
    /\ ret' = "SpawnFailed"
    /\ UNCHANGED <<events, spawned, live>>

Launch ==
    /\ ~spawned /\ ret = "none"
    /\ spawned' = TRUE
    /\ live' \in SUBSET Procs
    /\ UNCHANGED <<events, ret>>

\* Live processes fork, exit and get killed.
TreeChanges ==
    /\ live # {}
    /\ live' \in SUBSET Procs
    /\ UNCHANGED <<events, ret, spawned>>

EmitStarted ==
    /\ spawned /\ ret = "none" /\ events = <<>>
    /\ events' = <<[type |-> "Started"]>>
    /\ UNCHANGED <<ret, spawned, live>>

ChunkCount(s) ==
    Cardinality({i \in DOMAIN events : events[i].type = "Chunk" /\ events[i].stream = s})

EmitChunk(s) ==
    /\ ret = "none" /\ Emitted("Started") /\ ~Emitted("Exited")
    /\ events' = Append(events, [type |-> "Chunk", stream |-> s, seq |-> ChunkCount(s)])
    /\ UNCHANGED <<ret, spawned, live>>

ResultOf(reason) ==
    CASE reason = "NaturalExit" -> "Ok"
      [] reason = "TimedOut" -> "TimedOut"
      [] reason = "CancelRequested" -> "Cancelled"

\* The last event and the return; the callback may panic instead.
Finish(code, reason) ==
    /\ ret = "none" /\ Emitted("Started") /\ ~Emitted("Exited") /\ live = {}
    /\ reason # "NaturalExit" => code = Killed
    /\ events' = Append(events, [type |-> "Exited", code |-> code, reason |-> reason])
    /\ ret' \in {ResultOf(reason), "Panic"}
    /\ UNCHANGED <<spawned, live>>

\* A run that is abandoned still leaves nothing live behind.
Abort ==
    /\ ret = "none" /\ Emitted("Started") /\ ~Emitted("Exited") /\ live = {}
    /\ ret' \in {"WaitFailed", "Panic"}
    /\ UNCHANGED <<events, spawned, live>>

Next ==
    \/ Refuse \/ Launch \/ TreeChanges \/ EmitStarted \/ Abort
    \/ \E s \in Streams : EmitChunk(s)
    \/ \E code \in Codes \union {Killed} :
         \E reason \in {"NaturalExit", "TimedOut", "CancelRequested"} : Finish(code, reason)

Spec == Init /\ [][Next]_contractVars
=============================================================================
