-------------------------- MODULE ProcessTreeProofs --------------------------
(***************************************************************************)
(* Facts about the process tree that hold for every set of processes.      *)
(***************************************************************************)
EXTENDS ProcessTree, TLAPS

\* One process changes state, or ends, within the types.
LEMMA EndsTyped ==
    ASSUME TreeTypeOK, NEW p \in Procs, NEW code \in Codes \union {Killed}, Ends(p, code)
    PROVE  TreeTypeOK'
BY DEF TreeTypeOK, Ends, ProcStates

\* The tree's own moves keep its types: the type invariant of ProcessTree
\* under everything the processes, the kernel and the host do.
THEOREM TreeStepTyped == TreeTypeOK /\ TreeStep => TreeTypeOK'
<1> SUFFICES ASSUME TreeTypeOK, TreeStep PROVE TreeTypeOK'
  OBVIOUS
<1>1. ASSUME NEW p \in Procs, NEW q \in Desc, Fork(p, q) PROVE TreeTypeOK'
  BY <1>1 DEF TreeTypeOK, Fork, Alive, ProcStates, Procs
<1>2. ASSUME NEW p \in Procs, Escape(p) PROVE TreeTypeOK'
  BY <1>2 DEF TreeTypeOK, Escape, ProcStates
<1>3. ASSUME NEW p \in Procs, Exit(p) PROVE TreeTypeOK'
  BY <1>3, EndsTyped DEF Exit
<1>4. ASSUME NEW p \in Procs, TermEnds(p) PROVE TreeTypeOK'
  BY <1>4, EndsTyped DEF TermEnds
<1>5. ASSUME NEW p \in Procs, KillEnds(p) PROVE TreeTypeOK'
  BY <1>5, EndsTyped DEF KillEnds
<1>6. ASSUME NEW p \in Procs, ReapDesc(p) PROVE TreeTypeOK'
  BY <1>6 DEF TreeTypeOK, ReapDesc, ProcStates
<1>7. ASSUME NEW p \in Procs, NEW s \in Streams, Close(p, s) PROVE TreeTypeOK'
  BY <1>7 DEF TreeTypeOK, Close
<1>8. ASSUME HostReap PROVE TreeTypeOK'
  BY <1>8 DEF TreeTypeOK, HostReap, ProcStates
<1>9. ASSUME NEW p \in Procs, Setuid(p) PROVE TreeTypeOK'
  BY <1>9 DEF TreeTypeOK, Setuid
<1> QED
  BY <1>1, <1>2, <1>3, <1>4, <1>5, <1>6, <1>7, <1>8, <1>9 DEF TreeStep

\* The calls unix.rs and windows.rs make keep the types too.
LEMMA CallsTyped ==
    ASSUME TreeTypeOK
    PROVE  /\ SigTerm => TreeTypeOK'
           /\ SigKill => TreeTypeOK'
           /\ Waitpid => TreeTypeOK'
           /\ \A s \in Streams : ReadUnit(s) => TreeTypeOK'
           /\ \A s \in Streams : CloseRead(s) => TreeTypeOK'
           /\ \A p \in Procs, s \in Streams : Write(p, s) => TreeTypeOK'
           /\ \A p \in Procs, s \in Streams : BrokenPipe(p, s) => TreeTypeOK'
<1>1. SigTerm => TreeTypeOK'
  BY DEF TreeTypeOK, SigTerm, Reachable, Group
<1>2. SigKill => TreeTypeOK'
  BY DEF TreeTypeOK, SigKill, ProcStates
<1>3. Waitpid => TreeTypeOK'
  BY DEF TreeTypeOK, Waitpid, ProcStates
<1>4. ASSUME NEW s \in Streams, ReadUnit(s) PROVE TreeTypeOK'
  BY <1>4, PipeAssumption DEF TreeTypeOK, ReadUnit
<1>5. ASSUME NEW p \in Procs, NEW s \in Streams, Write(p, s) PROVE TreeTypeOK'
  BY <1>5, PipeAssumption DEF TreeTypeOK, Write
<1>6. ASSUME NEW s \in Streams, CloseRead(s) PROVE TreeTypeOK'
  BY <1>6, PipeAssumption DEF TreeTypeOK, CloseRead
<1>7. ASSUME NEW p \in Procs, NEW s \in Streams, BrokenPipe(p, s) PROVE TreeTypeOK'
  BY <1>7, EndsTyped DEF BrokenPipe
<1> QED
  BY <1>1, <1>2, <1>3, <1>4, <1>5, <1>6, <1>7

\* Once no process of the group runs within reach of a signal, none ever will:
\* only a reachable member could fork one, and nobody joins from outside.
THEOREM QuietStable ==
    /\ TreeTypeOK /\ Reachable = {}
    /\ TreeStep \/ \E p \in Procs, s \in Streams : BrokenPipe(p, s)
    => Reachable' = {}
<1> SUFFICES ASSUME TreeTypeOK, Reachable = {},
                    TreeStep \/ \E p \in Procs, s \in Streams : BrokenPipe(p, s),
                    NEW r \in Procs, proc'[r] = "running", r \notin suid'
             PROVE  FALSE
  BY DEF Reachable, Group
<1>1. \A p \in Procs : proc[p] = "running" => p \in suid
  BY DEF Reachable, Group
<1>2. ASSUME NEW p \in Procs, NEW q \in Desc, Fork(p, q) PROVE FALSE
  BY <1>1, <1>2 DEF TreeTypeOK, Fork, Alive, Procs
<1>3. ASSUME NEW p \in Procs, Escape(p) PROVE FALSE
  BY <1>1, <1>3 DEF TreeTypeOK, Escape
<1>4. ASSUME NEW p \in Procs, NEW code, Ends(p, code) PROVE FALSE
  BY <1>1, <1>4 DEF TreeTypeOK, Ends
<1>5. ASSUME NEW p \in Procs, ReapDesc(p) PROVE FALSE
  BY <1>1, <1>5 DEF TreeTypeOK, ReapDesc
<1>6. ASSUME NEW p \in Procs, NEW s \in Streams, Close(p, s) PROVE FALSE
  BY <1>1, <1>6 DEF Close
<1>7. ASSUME HostReap PROVE FALSE
  BY <1>1, <1>7 DEF TreeTypeOK, HostReap
<1>8. ASSUME NEW p \in Procs, Setuid(p) PROVE FALSE
  BY <1>1, <1>8 DEF Setuid
<1> QED
  BY <1>2, <1>3, <1>4, <1>5, <1>6, <1>7, <1>8 DEF TreeStep, Exit, TermEnds, KillEnds, BrokenPipe

\* killpg(SIGKILL) leaves nothing running within reach, and the two answers
\* after which kill_escalating sends none, ESRCH and EPERM, say so already.
LEMMA KillQuiets ==
    ASSUME TreeTypeOK
    PROVE  /\ SigKill => Reachable' = {}
           /\ ESRCH => Reachable = {}
           /\ EPERM => Reachable = {}
BY DEF TreeTypeOK, SigKill, Reachable, Group, ESRCH, EPERM

\* The root is created once: neither the tree's own moves nor a broken pipe
\* bring it back to life, revive it after the reaping or kill it; credentials
\* are not given back, and nobody but aer sends SIGTERM.
LEMMA RootStays ==
    ASSUME TreeTypeOK, TreeStep \/ \E p \in Procs, s \in Streams : BrokenPipe(p, s) \/ Write(p, s)
    PROVE  /\ proc[Root] \in {"none", "gone"} => proc'[Root] = proc[Root]
           /\ proc'[Root] = "running" => proc[Root] = "running"
           /\ proc'[Root] = "dying" => proc[Root] = "dying"
           /\ suid \subseteq suid' /\ termed' = termed
<1> DEFINE Goal == /\ proc[Root] \in {"none", "gone"} => proc'[Root] = proc[Root]
                   /\ proc'[Root] = "running" => proc[Root] = "running"
                   /\ proc'[Root] = "dying" => proc[Root] = "dying"
                   /\ suid \subseteq suid' /\ termed' = termed
<1> USE DEF TreeTypeOK
<1>r. Root \in Procs /\ Root \notin Desc /\ CanEscape \subseteq Desc
  BY ProcAssumption DEF Procs
<1>1. ASSUME NEW p \in Procs, NEW q \in Desc, Fork(p, q) PROVE Goal
  BY <1>1, <1>r DEF Fork, Alive
<1>2. ASSUME NEW p \in Procs, Escape(p) PROVE Goal
  BY <1>2, <1>r DEF Escape
<1>3. ASSUME NEW p \in Procs, NEW code, Ends(p, code), proc[p] \notin {"none", "gone"} PROVE Goal
  BY <1>3, <1>r DEF Ends
<1>4. ASSUME NEW p \in Procs, ReapDesc(p) PROVE Goal
  BY <1>4, <1>r DEF ReapDesc
<1>5. ASSUME NEW p \in Procs, NEW s \in Streams, Close(p, s) \/ Write(p, s) PROVE Goal
  BY <1>5 DEF Close, Write
<1>6. ASSUME HostReap PROVE Goal
  BY <1>6, <1>r DEF HostReap
<1>7. ASSUME NEW p \in Procs, Setuid(p) PROVE Goal
  BY <1>7 DEF Setuid
<1> QED
  BY <1>1, <1>2, <1>3, <1>4, <1>5, <1>6, <1>7
  DEF TreeStep, Exit, TermEnds, KillEnds, BrokenPipe, Alive

\* End of file is for good: what is read is gone, and only a holder of the
\* write end could write or hand it on.
LEMMA EOFStable ==
    ASSUME TreeTypeOK, NEW s \in Streams, EOF(s),
           \/ TreeStep
           \/ \E p \in Procs, r \in Streams : BrokenPipe(p, r) \/ Write(p, r)
           \/ \E r \in Streams : ReadUnit(r) \/ CloseRead(r)
    PROVE  EOF(s)'
<1> USE DEF TreeTypeOK, EOF
<1>1. ASSUME NEW p \in Procs, NEW q \in Desc, Fork(p, q) PROVE EOF(s)'
  BY <1>1 DEF Fork
<1>2. ASSUME NEW p \in Procs, NEW code, Ends(p, code) PROVE EOF(s)'
  BY <1>2 DEF Ends
<1>3. ASSUME NEW p \in Procs, NEW r \in Streams, Close(p, r) \/ Write(p, r) PROVE EOF(s)'
  BY <1>3 DEF Close, Write
<1>4. ASSUME NEW r \in Streams, ReadUnit(r) \/ CloseRead(r) PROVE EOF(s)'
  BY <1>4 DEF ReadUnit, CloseRead
<1>5. ASSUME NEW p \in Procs, Escape(p) \/ Setuid(p) \/ ReapDesc(p) \/ HostReap PROVE EOF(s)'
  BY <1>5 DEF Escape, Setuid, ReapDesc, HostReap
<1> QED
  BY <1>1, <1>2, <1>3, <1>4, <1>5
  DEF TreeStep, Exit, TermEnds, KillEnds, BrokenPipe, HostReap

\* How the root of an unsignalled tree can end: with a code of its own, or
\* because it was killed; once over it keeps its status.  A root that runs
\* outside the group stays there.
LEMMA RootEnds ==
    ASSUME TreeTypeOK, TreeStep \/ \E p \in Procs, s \in Streams : Write(p, s),
           termed = {}, CanSetuid = {}, suid = {}
    PROVE  /\ proc[Root] \in {"zombie", "gone"} =>
                  proc'[Root] \in {"zombie", "gone"} /\ status' = status
           /\ proc'[Root] \in {"zombie", "gone"} /\ status' = Killed =>
                  \/ proc[Root] = "dying"
                  \/ proc[Root] \in {"zombie", "gone"} /\ status = Killed
           /\ proc[Root] = "escaped" => proc'[Root] \in {"escaped", "gone"}
           /\ proc[Root] = "dying" => proc'[Root] \in {"dying", "zombie"}
           /\ suid' = {}
<1> DEFINE Goal ==
           /\ proc[Root] \in {"zombie", "gone"} =>
                  proc'[Root] \in {"zombie", "gone"} /\ status' = status
           /\ proc'[Root] \in {"zombie", "gone"} /\ status' = Killed =>
                  \/ proc[Root] = "dying"
                  \/ proc[Root] \in {"zombie", "gone"} /\ status = Killed
           /\ proc[Root] = "escaped" => proc'[Root] \in {"escaped", "gone"}
           /\ proc[Root] = "dying" => proc'[Root] \in {"dying", "zombie"}
           /\ suid' = {}
<1> USE DEF TreeTypeOK
<1>r. Root \in Procs /\ Root \notin Desc /\ CanEscape \subseteq Desc
  BY ProcAssumption DEF Procs
<1>1. ASSUME NEW p \in Procs, NEW q \in Desc, Fork(p, q) PROVE Goal
  BY <1>1, <1>r DEF Fork, Alive
<1>2. ASSUME NEW p \in Procs, Escape(p) PROVE Goal
  BY <1>2, <1>r DEF Escape
<1>3. ASSUME NEW p \in Procs, Exit(p) PROVE Goal
  <2>1. PICK code \in Codes : Alive(p) /\ Ends(p, code)
    BY <1>3 DEF Exit
  <2>2. code # Killed
    BY PipeAssumption DEF Killed
  <2> QED
    BY <1>r, <2>1, <2>2 DEF Ends, Alive
<1>4. ASSUME NEW p \in Procs, TermEnds(p) PROVE Goal
  BY <1>4 DEF TermEnds
<1>5. ASSUME NEW p \in Procs, KillEnds(p) PROVE Goal
  BY <1>5, <1>r DEF KillEnds, Ends
<1>6. ASSUME NEW p \in Procs, ReapDesc(p) PROVE Goal
  BY <1>6, <1>r DEF ReapDesc
<1>7. ASSUME NEW p \in Procs, NEW s \in Streams, Close(p, s) \/ Write(p, s) PROVE Goal
  BY <1>7 DEF Close, Write
<1>8. ASSUME HostReap PROVE Goal
  BY <1>8, <1>r DEF HostReap
<1>9. ASSUME NEW p \in Procs, Setuid(p) PROVE Goal
  BY <1>9 DEF Setuid
<1> QED
  BY <1>1, <1>2, <1>3, <1>4, <1>5, <1>6, <1>7, <1>8, <1>9 DEF TreeStep
=============================================================================
