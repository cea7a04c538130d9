--------------------------- MODULE EventAbiProofs ---------------------------
(***************************************************************************)
(* Every event reaches the handler of a .NET program as it was emitted,    *)
(* and every result as it was returned.                                    *)
(***************************************************************************)
EXTENDS EventAbi, TLAPS, SequenceTheorems

\* The bytes of a chunk survive the copy that is made before the native
\* buffer goes away: CallbackBridge.Dispatch takes all of them.
LEMMA ChunkCopied ==
    ASSUME NEW e, e.seq \in Nat, e.bytes \in Seq(Nat) \ {<<>>}, NEW kind \in {2, 3}
    PROVE  ChunkData(Chunk(kind, e)) = e.bytes
  <1> DEFINE b == e.bytes
  <1>1. b \in Seq(Nat) /\ Len(b) \in Nat /\ Len(b) > 0
    BY EmptySeq
  <1>2. /\ Chunk(kind, e).kind = kind /\ Chunk(kind, e).data = b
        /\ Chunk(kind, e).data_len = Len(b)
    BY DEF Chunk, NoFields
  <1>3. ChunkData(Chunk(kind, e)) = SubSeq(b, 1, Len(b))
    BY <1>1, <1>2 DEF ChunkData
  <1>4. SubSeq(b, 1, Len(b)) = b
    <2>1. /\ SubSeq(b, 1, Len(b)) \in Seq(Nat) /\ Len(SubSeq(b, 1, Len(b))) = Len(b)
          /\ \A i \in 1 .. Len(b) : SubSeq(b, 1, Len(b))[i] = b[i]
      BY <1>1
    <2> HIDE DEF b
    <2> QED
      BY <1>1, <2>1, SeqEqual
  <1> QED
    BY <1>3, <1>4

\* An event is raised with the kind, process, code, reason, number and bytes
\* it was emitted with, through the struct of the C ABI: what the numbers in
\* event.rs, ffi.rs, AerEvent.cs and AerExitReason.cs have to agree on.
THEOREM EventsCrossTheAbi ==
    ASSUME NEW e \in Event
    PROVE  LET args == Dispatch(on_event(e)) IN
           /\ args.Kind = e.kind
           /\ e.kind = "Started" => args.Pid = e.pid
           /\ e.kind = "Exited" => args.ExitCode = e.code /\ args.ExitReason = ReasonName[e.reason]
           /\ e.kind \in {"StdoutChunk", "StderrChunk"} =>
                args.Seq = e.seq /\ args.Data = e.bytes
  <1>1. CASE e \in [kind : {"Started"}, pid : Nat]
    <2>1. on_event(e) = [NoFields EXCEPT !.kind = 0, !.pid = e.pid] /\ e.kind = "Started"
      BY <1>1 DEF on_event
    <2>2. on_event(e).kind = 0 /\ on_event(e).pid = e.pid
      BY <2>1 DEF NoFields
    <2>3. Dispatch(on_event(e)) = [NoArgs EXCEPT !.Kind = "Started", !.Pid = e.pid]
      BY <2>2 DEF Dispatch
    <2> QED
      BY <2>1, <2>3 DEF NoArgs
  <1>2. CASE e \in [kind : {"Exited"}, code : Int, reason : ExitReasons]
    <2> DEFINE n == ReasonNumber[e.reason]
    <2>1. /\ on_event(e) = [NoFields EXCEPT !.kind = 1, !.code = e.code, !.reason = n]
          /\ e.kind = "Exited" /\ e.reason \in ExitReasons
      BY <1>2 DEF on_event
    <2>2. AerExitReason(n) = ReasonName[e.reason]
      BY <2>1 DEF ExitReasons, ReasonNumber, AerExitReason, ReasonName
    <2> HIDE DEF n
    <2>3. on_event(e).kind = 1 /\ on_event(e).code = e.code /\ on_event(e).reason = n
      BY <2>1 DEF NoFields
    <2>4. Dispatch(on_event(e)) = [NoArgs EXCEPT !.Kind = "Exited", !.ExitCode = e.code,
                                                 !.ExitReason = AerExitReason(n)]
      BY <2>3 DEF Dispatch
    <2> QED
      BY <2>1, <2>2, <2>4 DEF NoArgs
  <1>3. CASE e \in [kind : {"StdoutChunk", "StderrChunk"}, seq : Nat, bytes : Seq(Nat) \ {<<>>}]
    <2>1. PICK k \in {2, 3} : /\ on_event(e) = Chunk(k, e)
                              /\ e.kind = IF k = 2 THEN "StdoutChunk" ELSE "StderrChunk"
      BY <1>3 DEF on_event
    <2>2. on_event(e).kind = k /\ on_event(e).seq = e.seq
      BY <2>1 DEF Chunk, NoFields
    <2>3. ChunkData(on_event(e)) = e.bytes
      BY <1>3, <2>1, ChunkCopied
    <2>4. Dispatch(on_event(e)) = [NoArgs EXCEPT !.Kind = e.kind, !.Seq = e.seq, !.Data = e.bytes]
      <3>1. CASE k = 2
        BY <2>1, <2>2, <2>3, <3>1 DEF Dispatch
      <3>2. CASE k = 3
        BY <2>1, <2>2, <2>3, <3>2 DEF Dispatch
      <3> QED
        BY <3>1, <3>2
    <2> QED
      BY <2>1, <2>4 DEF NoArgs
  <1> QED
    BY <1>1, <1>2, <1>3 DEF Event

\* A result is named by the binding as the library named it: the numbers of
\* ffi.rs and those of AerErrorCode.cs agree.
THEOREM CodesCrossTheAbi ==
    ASSUME NEW c \in DOMAIN ErrorNumber
    PROVE  AerErrorCode(ErrorNumber[c]) = c
  <1>1. c \in {"Ok", "NullPointer", "SpawnFailed", "WaitFailed", "InvalidStateTransition",
               "TimedOut", "KillFailed", "AlreadyRun", "Panic", "Cancelled", "InvalidArgument"}
    BY DEF ErrorNumber
  <1> QED
    BY <1>1 DEF ErrorNumber, AerErrorCode
=============================================================================
