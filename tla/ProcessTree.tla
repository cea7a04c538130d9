----------------------------- MODULE ProcessTree -----------------------------
(***************************************************************************)
(* The operating system as src/src/os/unix.rs uses it: the process group   *)
(* the child leads after setsid(), the pipes its members hold, the signals *)
(* sent to the group, waitpid().  External to the repository; modelled by  *)
(* what the calls in unix.rs rely on.  WindowsTask reads "group" as "job". *)
(*                                                                         *)
(* A process is                                                            *)
(*   none     not created yet                                              *)
(*   running  alive, a member of the group                                 *)
(*   escaped  alive, in a session of its own (the group cannot reach it)   *)
(*   dying    hit by SIGKILL, still in the group, runs no more user code   *)
(*   zombie   exited and not reaped: still a member of the group, so       *)
(*            killpg(pgid, 0) succeeds because of it                       *)
(*   gone     reaped                                                       *)
(* Pids are not recycled.                                                  *)
(***************************************************************************)
EXTENDS Integers, FiniteSets

CONSTANTS
    Root,        \* the process spawn() creates; its pid is the pgid
    Desc,        \* the descendants the tree may grow
    Streams,     \* the pipes that are watched: stdout, stderr
    Codes,       \* exit codes a process may choose
    PipeCap,     \* bound: what a pipe buffers before a write blocks
    CanEscape,   \* descendants that may leave the group
    CanSetuid,   \* processes that may run a setuid program
    HostReaps    \* the host program reaps foreign children: waitpid(-1)

ASSUME ProcAssumption ==
    /\ Root \notin Desc
    /\ CanEscape \subseteq Desc
    /\ CanSetuid \subseteq Desc \union {Root}

ASSUME PipeAssumption ==
    /\ Streams \subseteq {"stdout", "stderr"}
    /\ Codes \subseteq Nat
    /\ PipeCap \in Nat
    /\ HostReaps \in BOOLEAN

VARIABLES
    proc,    \* state of every process
    termed,  \* processes that were delivered a SIGTERM
    suid,    \* processes with other credentials: a signal is refused, EPERM
    status,  \* exit code of the root, -1 when a signal ended it
    holds,   \* per stream, the processes that have its write end open
    pipe     \* per stream, the units written and not read yet

treeVars == <<proc, termed, suid, status, holds, pipe>>

Procs == {Root} \union Desc
Killed == -1
ProcStates == {"none", "running", "escaped", "dying", "zombie", "gone"}

TreeTypeOK ==
    /\ proc \in [Procs -> ProcStates]
    /\ termed \subseteq Procs /\ suid \subseteq Procs
    /\ status \in Codes \union {Killed}
    /\ holds \in [Streams -> SUBSET Procs]
    /\ pipe \in [Streams -> 0 .. PipeCap]

TreeInit ==
    /\ proc = [p \in Procs |-> "none"]
    /\ termed = {} /\ suid = {}
    /\ status = Killed
    /\ holds = [s \in Streams |-> {}]
    /\ pipe = [s \in Streams |-> 0]

-----------------------------------------------------------------------------
(* What the system calls of unix.rs see and do. *)

\* Members of the process group pgid.
Group == {p \in Procs : proc[p] \in {"running", "dying", "zombie"}}

Alive(p) == proc[p] \in {"running", "escaped"}

\* killpg() reaches the members whose credentials match the caller's.
Reachable == {p \in Group : proc[p] = "running" /\ p \notin suid}

ESRCH == Group = {}
EPERM == Group # {} /\ Group \subseteq suid

\* fork + setsid + exec: the root leads the group and holds both pipes.
CreateRoot ==
    /\ proc' = [proc EXCEPT ![Root] = "running"]
    /\ holds' = [s \in Streams |-> {Root}]
    /\ UNCHANGED <<termed, suid, status, pipe>>

\* killpg(pgid, SIGTERM): may be handled or ignored by each receiver.
SigTerm ==
    /\ termed' = termed \union Reachable
    /\ UNCHANGED <<proc, suid, status, holds, pipe>>

\* killpg(pgid, SIGKILL): no receiver runs another instruction.
SigKill ==
    /\ proc' = [p \in Procs |-> IF p \in Reachable THEN "dying" ELSE proc[p]]
    /\ UNCHANGED <<termed, suid, status, holds, pipe>>

\* waitpid(root): blocks until there is a zombie to reap or no child at all.
WaitpidReady == proc[Root] \in {"zombie", "gone"}
Waitpid ==
    /\ WaitpidReady
    /\ proc' = [proc EXCEPT ![Root] = "gone"]
    /\ UNCHANGED <<termed, suid, status, holds, pipe>>

\* read() on the parent's end: one unit is what one call returns.
ReadUnit(s) ==
    /\ pipe[s] > 0
    /\ pipe' = [pipe EXCEPT ![s] = @ - 1]
    /\ UNCHANGED <<proc, termed, suid, status, holds>>

\* The parent's end is closed with what is in the pipe.
CloseRead(s) ==
    /\ pipe' = [pipe EXCEPT ![s] = 0]
    /\ UNCHANGED <<proc, termed, suid, status, holds>>

EOF(s) == pipe[s] = 0 /\ holds[s] = {}

-----------------------------------------------------------------------------
(* What the processes and the kernel do on their own. *)

\* A member forks.  The child inherits group, credentials and open pipes.
Fork(p, q) ==
    /\ Alive(p) /\ q \in Desc /\ proc[q] = "none"
    /\ proc' = [proc EXCEPT ![q] = proc[p]]
    /\ suid' = IF p \in suid THEN suid \union {q} ELSE suid
    /\ holds' = [s \in Streams |->
                   IF p \in holds[s] THEN holds[s] \union {q} ELSE holds[s]]
    /\ UNCHANGED <<termed, status, pipe>>

\* A descendant daemonises: setsid() takes it out of the group.
Escape(p) ==
    /\ p \in CanEscape /\ proc[p] = "running"
    /\ proc' = [proc EXCEPT ![p] = "escaped"]
    /\ UNCHANGED <<termed, suid, status, holds, pipe>>

\* A process executes a setuid program.
Setuid(p) ==
    /\ p \in CanSetuid \ suid /\ Alive(p)
    /\ suid' = suid \union {p}
    /\ UNCHANGED <<proc, termed, status, holds, pipe>>

\* A process closes one of its standard streams.
Close(p, s) ==
    /\ Alive(p) /\ p \in holds[s]
    /\ holds' = [holds EXCEPT ![s] = @ \ {p}]
    /\ UNCHANGED <<proc, termed, suid, status, pipe>>

\* A write of one unit; it blocks while the pipe is full.
Write(p, s) ==
    /\ Alive(p) /\ p \in holds[s] /\ pipe[s] < PipeCap
    /\ pipe' = [pipe EXCEPT ![s] = @ + 1]
    /\ UNCHANGED <<proc, termed, suid, status, holds>>

\* p stops existing as a program: its descriptors close, its parent is told.
Ends(p, code) ==
    /\ proc' = [proc EXCEPT ![p] = IF @ = "escaped" THEN "gone" ELSE "zombie"]
    /\ holds' = [s \in Streams |-> holds[s] \ {p}]
    /\ status' = IF p = Root THEN code ELSE status
    /\ UNCHANGED <<termed, suid, pipe>>

\* p exits with a code of its own, after a SIGTERM or without one.
Exit(p) == Alive(p) /\ \E code \in Codes : Ends(p, code)

\* SIGTERM's default action ends p.
TermEnds(p) == proc[p] = "running" /\ p \in termed /\ Ends(p, Killed)

\* The kernel completes a SIGKILL.
KillEnds(p) == proc[p] = "dying" /\ Ends(p, Killed)

\* A write that nobody can read: SIGPIPE's default action ends the writer.
BrokenPipe(p, s) == Alive(p) /\ p \in holds[s] /\ Ends(p, Killed)

\* A descendant's parent, in the end init, reaps it.
ReapDesc(p) ==
    /\ p \in Desc /\ proc[p] = "zombie"
    /\ proc' = [proc EXCEPT ![p] = "gone"]
    /\ UNCHANGED <<termed, suid, status, holds, pipe>>

\* The host program's own SIGCHLD handler takes the root's status away.
HostReap ==
    /\ HostReaps /\ proc[Root] = "zombie"
    /\ proc' = [proc EXCEPT ![Root] = "gone"]
    /\ UNCHANGED <<termed, suid, status, holds, pipe>>

TreeStep ==
    \/ \E p \in Procs, q \in Desc : Fork(p, q)
    \/ \E p \in Procs : Escape(p) \/ Setuid(p) \/ Exit(p) \/ TermEnds(p) \/ KillEnds(p) \/ ReapDesc(p)
    \/ \E p \in Procs, s \in Streams : Close(p, s)
    \/ HostReap

\* The kernel finishes a kill; programs promise nothing, not even to reap.
TreeFairness == \A p \in Procs : WF_treeVars(KillEnds(p))
=============================================================================
