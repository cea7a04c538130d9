------------------------------ MODULE EventAbi ------------------------------
(***************************************************************************)
(* What a .NET program is told of a run.  An event: the Event of           *)
(* src/src/event.rs, the AerEvent struct that the closure of aer_task_run  *)
(* fills in, and the AerEventArgs that CallbackBridge and AerTask make of  *)
(* it.  A result: the AerErrorCode of src/src/ffi.rs, the one of the       *)
(* binding, and the exception for it.  Only the numbers of the ABI connect *)
(* them.                                                                   *)
(***************************************************************************)
EXTENDS Integers, Sequences

CONSTANT Null  \* no array

ExitReasons == {"NaturalExit", "TimedOut", "CancelRequested"}
Event ==
    [kind : {"Started"}, pid : Nat]
        \union [kind : {"Exited"}, code : Int, reason : ExitReasons]
        \union [kind : {"StdoutChunk", "StderrChunk"}, seq : Nat, bytes : Seq(Nat) \ {<<>>}]

\* ExitReason as u32.
ReasonNumber == [NaturalExit |-> 0, TimedOut |-> 1, CancelRequested |-> 2]

NoFields ==
    [kind |-> 0, pid |-> 0, code |-> 0, reason |-> 0, seq |-> 0, data |-> <<>>, data_len |-> 0]

Chunk(kind, e) ==
    [NoFields EXCEPT !.kind = kind, !.seq = e.seq, !.data = e.bytes, !.data_len = Len(e.bytes)]

\* The AerEvent of an event.
on_event(e) ==
    CASE e.kind = "Started" -> [NoFields EXCEPT !.kind = 0, !.pid = e.pid]
      [] e.kind = "Exited" ->
            [NoFields EXCEPT !.kind = 1, !.code = e.code, !.reason = ReasonNumber[e.reason]]
      [] e.kind = "StdoutChunk" -> Chunk(2, e)
      [] e.kind = "StderrChunk" -> Chunk(3, e)

-----------------------------------------------------------------------------

\* (AerExitReason)evt.Reason, named by the enumeration of the binding.
AerExitReason(n) ==
    CASE n = 0 -> "Natural" [] n = 1 -> "TimedOut" [] n = 2 -> "CancelRequested"
      [] OTHER -> "undefined"

\* CallbackBridge.Dispatch: the bytes of a chunk are copied.
ChunkData(evt) ==
    IF evt.kind \in {2, 3} /\ evt.data_len > 0 THEN SubSeq(evt.data, 1, evt.data_len) ELSE Null

NoArgs ==
    [Kind |-> Null, Pid |-> 0, ExitCode |-> 0, ExitReason |-> "Natural", Seq |-> 0, Data |-> Null]

\* AerTask.Dispatch; an event of an unknown kind is not raised.
Dispatch(evt) ==
    CASE evt.kind = 0 -> [NoArgs EXCEPT !.Kind = "Started", !.Pid = evt.pid]
      [] evt.kind = 1 -> [NoArgs EXCEPT !.Kind = "Exited", !.ExitCode = evt.code,
                                        !.ExitReason = AerExitReason(evt.reason)]
      [] evt.kind = 2 -> [NoArgs EXCEPT !.Kind = "StdoutChunk", !.Seq = evt.seq,
                                        !.Data = ChunkData(evt)]
      [] evt.kind = 3 -> [NoArgs EXCEPT !.Kind = "StderrChunk", !.Seq = evt.seq,
                                        !.Data = ChunkData(evt)]
      [] OTHER -> Null

-----------------------------------------------------------------------------

\* AerErrorCode as the C ABI returns it.
ErrorNumber ==
    [Ok |-> 0, NullPointer |-> 1, SpawnFailed |-> 2, WaitFailed |-> 3,
     InvalidStateTransition |-> 4, TimedOut |-> 5, KillFailed |-> 6, AlreadyRun |-> 7,
     Panic |-> 8, Cancelled |-> 9, InvalidArgument |-> 10]

\* The number, named by the enumeration of the binding.
AerErrorCode(n) ==
    CASE n = 0 -> "Ok" [] n = 1 -> "NullPointer" [] n = 2 -> "SpawnFailed"
      [] n = 3 -> "WaitFailed" [] n = 4 -> "InvalidStateTransition" [] n = 5 -> "TimedOut"
      [] n = 6 -> "KillFailed" [] n = 7 -> "AlreadyRun" [] n = 8 -> "Panic"
      [] n = 9 -> "Cancelled" [] n = 10 -> "InvalidArgument"
      [] OTHER -> "undefined"

\* The switch of BuildRunException: the class and the Code of the exception.
RunException(code) ==
    CASE code = "TimedOut" -> [type |-> "AerTimeoutException", code |-> "TimedOut"]
      [] code = "Cancelled" -> [type |-> "AerCancelException", code |-> "Cancelled"]
      [] OTHER -> [type |-> "AerException", code |-> code]

-----------------------------------------------------------------------------

\* What the binding calls the three reasons.
ReasonName ==
    [NaturalExit |-> "Natural", TimedOut |-> "TimedOut", CancelRequested |-> "CancelRequested"]
=============================================================================
