-------------------------- MODULE DotnetTaskProofs --------------------------
(***************************************************************************)
(* The safety of the .NET binding for any number of callers, disposers and *)
(* cancel handles: what its threads do to the native objects is what       *)
(* include/aer.h allows, every native object is freed once and in time,    *)
(* and every caller of Run is told what happened.                          *)
(***************************************************************************)
EXTENDS DotnetTask, AerFfiProofs, EventAbiProofs, FiniteSetTheorems

-----------------------------------------------------------------------------
(* Where a thread can be. *)

Configures == {"enter with", "with", "leave with"}
Cancels == {"enter cancel", "cancel", "leave cancel"}
\* A run from its claim on, up to the registration of its callback, while the
\* callback may be called, and after that.
Claimed == {"enter make", "make", "leave make", "publish", "register"} \union Cancels
Registered == {"enter run", "run", "running", "leave run", "throw", "finally"}
Runs == Claimed \union Registered \union {"clear", "close"}
Disposes == {"read", "close seen", "close task"}

\* The first run that claimed the object, whether or not it has ended.
Ran(r) == pc[r] \in Runs \/ local[r] # None

\* Every thread keeps to its own code, and nobody runs while the owner
\* configures.
PlaceInv ==
    /\ \A r \in Runners : pc[r] \in {"idle", "claim", "done"} \union Runs \union Configures
    /\ \A r \in Runners : pc[r] \in Configures => r = Owner /\ \A q \in Runners \ {r} : ~Busy(q)
    /\ \A d \in Disposers : pc[d] \in {"idle", "done"} \union Disposes
    /\ pc[Source] \in {"idle", "notify", "done"} \union Cancels

\* One run claims the object, and only that one ever has a cancel handle.
ClaimInv ==
    /\ \A r, q \in Runners : Ran(r) => hasRunFlag /\ (Ran(q) => r = q)
    /\ \A r \in Runners :
        /\ pc[r] \in {"idle", "claim", "enter make", "make"} \union Configures => local[r] = None
        /\ pc[r] \in {"leave make", "publish", "register"} \union Cancels => local[r] # None
    /\ \A d \in Disposers : pc[d] = "close seen" => local[d] # None

\* A callback is called while its run is between Register and the end of
\* registration.Dispose, with that run's handle.
CallbackInv ==
    /\ \A r \in Runners : registration[r] \in {"set", "called"} =>
        pc[r] \in Registered /\ local[r] # None
    /\ pc[Source] \in Cancels =>
        \E r \in Runners : registration[r] = "called" /\ local[Source] = local[r]

\* The types of what the binding adds to the ABI, but for the counts.
BindingTypeOK ==
    /\ refs \in [Safe -> Int] /\ closed \in [Safe -> BOOLEAN]
    /\ hasRunFlag \in BOOLEAN /\ disposedFlag \in BOOLEAN
    /\ cancelHandle \in Handles \union {None}
    /\ pc \in [Threads -> Places] /\ local \in [Threads -> Handles \union {None}]
    /\ token \in [Runners -> BOOLEAN]
    /\ registration \in [Runners -> {"unset", "set", "called", "over"}]
    /\ requested \in BOOLEAN /\ cancelThrew \in BOOLEAN /\ endless \in BOOLEAN

ControlInv == BindingTypeOK /\ PlaceInv /\ ClaimInv /\ CallbackInv

-----------------------------------------------------------------------------
(* References. *)

\* The threads between the add-ref and the release of a P/Invoke on h.
UsesTask == InTask \union {"leave with", "leave make", "leave run"}
UsesCancel == InCancel \union {"leave cancel"}
Holds(th, h) == IF h = obj THEN pc[th] \in UsesTask ELSE pc[th] \in UsesCancel /\ local[th] = h
Holders(h) == {th \in Threads : Holds(th, h)}

Made(h) == IF h = obj THEN task[obj] # None ELSE box[h] # None
Live(h) == IF h = obj THEN task[obj] = "live" ELSE box[h] = obj
Owned(h) == IF Made(h) /\ ~closed[h] THEN 1 ELSE 0

\* A SafeHandle counts its owner and the calls that are under way, and what
\* it stands for is freed when, and only when, nothing is left to count.
Counted(h) ==
    /\ refs[h] = Owned(h) + Cardinality(Holders(h))
    /\ Live(h) <=> refs[h] > 0
    /\ closed[h] => Made(h)
RefInv == \A h \in Safe : Counted(h)

\* Whoever uses a handle or the task got it from the ABI.
MadeInv ==
    /\ \A th \in Threads : local[th] # None => Made(local[th])
    /\ cancelHandle # None => Made(cancelHandle)
    /\ \A th \in Threads \ {Source} : pc[th] # "idle" => Made(obj)

\* Who closes what: the task is closed by Dispose, a cancel handle by its run
\* or by Dispose, and none of them is forgotten.
CloseInv ==
    /\ closed[obj] => disposedFlag
    /\ \A d \in Disposers : pc[d] \in Disposes => disposedFlag
    /\ disposedFlag => closed[obj] \/ \E d \in Disposers : pc[d] \in Disposes
    /\ \A h \in Handles :
        /\ closed[h] => disposedFlag \/ \E r \in Runners : local[r] = h /\ pc[r] = "done"
        /\ Made(h) /\ ~closed[h] => \E r \in Runners : local[r] = h /\ pc[r] \in Runs

\* A thread is in a run of the task exactly while it is in aer_task_run.
StackInv == \A th \in Threads : running[th] = IF pc[th] = "running" THEN <<obj>> ELSE <<>>

NativeInv == RefInv /\ MadeInv /\ CloseInv /\ StackInv

\* What a run is told: from the return of aer_task_run on its Exited event and
\* its result agree, from the exception on that one agrees with both.
Ended == {"finally", "clear", "close", "done"}
Told(r) ==
    /\ pc[r] \in {"leave run", "throw"} =>
        /\ last[r] \in Codes
        /\ last[r] = "TimedOut" <=> raised[r] = "TimedOut"
        /\ last[r] = "Cancelled" <=> raised[r] = "CancelRequested"
    /\ pc[r] \notin {"leave run", "throw"} \union Ended => raised[r] = None
    /\ pc[r] \notin Ended => thrown[r] = None
    /\ thrown[r] # None =>
        /\ thrown[r].code \in RunErrors => thrown[r].message = thrown[r].code
        /\ thrown[r].type = "AerTimeoutException" <=> raised[r] = "TimedOut"
        /\ thrown[r].type = "AerCancelException" <=> raised[r] = "CancelRequested"
ToldInv ==
    /\ raised \in [Runners -> {"Natural", "TimedOut", "CancelRequested", None}]
    /\ thrown \in [Runners -> Exceptions \union {None}]
    /\ \A r \in Runners : Told(r)

-----------------------------------------------------------------------------
(* The control of the threads, which does not depend on the native side.    *)

\* The threads are of different kinds, and None is no handle.
LEMMA Kinds ==
    /\ Runners \subseteq Threads /\ Disposers \subseteq Threads
    /\ Source \in Threads /\ Owner \in Threads /\ Owner \in Runners
    /\ \A r \in Runners : r # Source /\ r \notin Disposers
    /\ \A d \in Disposers : d # Source
    /\ obj \in Safe /\ Handles \subseteq Safe /\ obj \notin Handles /\ None \notin Handles
  BY DotnetAssumption, FfiAssumption DEF Safe

\* A thread that goes somewhere leaves the others where they are.
LEMMA Moved ==
    ASSUME BindingTypeOK, NEW th \in Threads, NEW to \in Places, Goto(th, to)
    PROVE  /\ pc' \in [Threads -> Places] /\ pc'[th] = to
           /\ \A u \in Threads \ {th} : pc'[u] = pc[u]
  BY DEF BindingTypeOK, Goto

\* The places that are named in the steps.
LEMMA PlacesNamed ==
    /\ Runs \subseteq Places /\ Configures \subseteq Places /\ Disposes \subseteq Places
    /\ Cancels \subseteq Places
    /\ {"idle", "claim", "notify", "done"} \subseteq Places
  BY DEF Runs, Claimed, Registered, Configures, Disposes, Cancels, Places, InTask, InCancel

\* Counts and flags stay in their types: in an add-ref, ...
LEMMA CountTyped ==
    ASSUME BindingTypeOK, NEW h, NEW n, h \in Safe => n \in Int, refs' = [refs EXCEPT ![h] = n]
    PROVE  refs' \in [Safe -> Int]
  <1>1. refs \in [Safe -> Int]
    BY DEF BindingTypeOK
  <1>2. CASE h \in Safe
    BY <1>1, <1>2
  <1>3. CASE h \notin Safe
    BY <1>1, <1>3
  <1> QED
    BY <1>2, <1>3

\* ... in a release, ...
LEMMA ReleaseTyped ==
    ASSUME BindingTypeOK, NEW th, NEW h, Release(th, h)
    PROVE  refs' \in [Safe -> Int]
  <1>1. h \in Safe => refs[h] - 1 \in Int
    BY DEF BindingTypeOK
  <1>2. refs' = [refs EXCEPT ![h] = refs[h] - 1]
    BY DEF Release
  <1> QED
    BY <1>1, <1>2, CountTyped

\* ... and in SafeHandle.Dispose, ...
LEMMA CloseTyped ==
    ASSUME BindingTypeOK, NEW th, NEW h, Close(th, h)
    PROVE  refs' \in [Safe -> Int] /\ closed' \in [Safe -> BOOLEAN]
  <1>1. CASE UNCHANGED safeVars
    BY <1>1 DEF safeVars, BindingTypeOK
  <1>2. CASE closed' = [closed EXCEPT ![h] = TRUE] /\ Release(th, h)
    <2>1. closed' \in [Safe -> BOOLEAN]
      BY <1>2 DEF BindingTypeOK
    <2> QED
      BY <1>2, <2>1, ReleaseTyped
  <1> QED
    BY <1>1, <1>2 DEF Close

\* ... and so does every step of a P/Invoke.
LEMMA CallTyped ==
    ASSUME BindingTypeOK, NEW th \in Threads, NEW to \in Places, NEW from, NEW h,
           Enter(th, from, h, to) \/ Leave(th, from, h, to) \/ Native(th, from, to)
    PROVE  BindingTypeOK'
  <1>1. pc' \in [Threads -> Places]
    BY Moved DEF Enter, Leave, Native
  <1>2. refs' \in [Safe -> Int]
    <2>1. CASE Enter(th, from, h, to)
      <3>1. h \in Safe => refs[h] + 1 \in Int
        BY DEF BindingTypeOK
      <3>2. refs' = [refs EXCEPT ![h] = refs[h] + 1]
        BY <2>1 DEF Enter, AddRef
      <3> QED
        BY <3>1, <3>2, CountTyped
    <2>2. CASE Leave(th, from, h, to)
      BY <2>2, ReleaseTyped DEF Leave
    <2>3. CASE Native(th, from, to)
      BY <2>3 DEF Native, safeVars, BindingTypeOK
    <2> QED
      BY <2>1, <2>2, <2>3
  <1>3. UNCHANGED <<closed, objVars, tokenVars, callVars>>
    BY DEF Enter, Leave, Native, safeVars
  <1> QED
    BY <1>1, <1>2, <1>3 DEF BindingTypeOK, objVars, tokenVars, callVars

\* Every step of a run leaves the binding's variables in their types.
LEMMA RunStepTyped ==
    ASSUME BindingTypeOK, NEW r \in Runners, RunStep(r)
    PROVE  BindingTypeOK'
  <1> USE DEF objVars, safeVars, tokenVars, callVars
  <1>0. r \in Threads
    BY Kinds
  <1>1. CASE Claim(r)
    BY <1>0, <1>1, PlacesNamed DEF Claim, Runs, Claimed, Registered, BindingTypeOK, Goto
  <1>2. CASE \/ Enter(r, "enter make", obj, "make") \/ Enter(r, "enter run", obj, "run")
             \/ Enter(r, "enter cancel", local[r], "cancel")
    BY <1>0, <1>2, CallTyped DEF Places, InTask, InCancel
  <1>3. CASE \/ Leave(r, "leave make", obj, "publish") \/ Leave(r, "leave run", obj, "throw")
             \/ Leave(r, "leave cancel", local[r], "enter run")
    BY <1>0, <1>3, CallTyped DEF Places
  <1>4. CASE RunNative(r) \/ CancelNative(r)
    BY <1>0, <1>4, CallTyped DEF RunNative, CancelNative, Places, InTask
  <1>5. CASE MakeNative(r)
    <2>1. PICK h \in Handles : refs' = [refs EXCEPT ![h] = 1] /\ local' = [local EXCEPT ![r] = h]
      BY <1>5 DEF MakeNative
    <2>2. refs' \in [Safe -> Int]
      <3>1. 1 \in Int
        OBVIOUS
      <3> QED
        BY <2>1, <3>1, CountTyped
    <2>4. local' \in [Threads -> Handles \union {None}]
      BY <2>1 DEF BindingTypeOK
    <2>3. pc' \in [Threads -> Places]
      BY <1>0, <1>5, Moved DEF MakeNative, Places
    <2> QED
      BY <1>5, <2>2, <2>3, <2>4 DEF MakeNative, BindingTypeOK
  <1>6. CASE Publish(r)
    BY <1>0, <1>6 DEF Publish, BindingTypeOK, Goto, Places
  <1>7. CASE Register(r)
    BY <1>0, <1>7 DEF Register, BindingTypeOK, Goto, Places
  <1>8. CASE RunDisposed(r) \/ BuildRunException(r) \/ RunReturnsNative(r)
    <2>1. pc' \in [Threads -> Places]
      BY <1>0, <1>8, Moved DEF RunDisposed, BuildRunException, RunReturnsNative, Places
    <2> QED
      BY <1>8, <2>1 DEF RunDisposed, BuildRunException, RunReturnsNative, BindingTypeOK
  <1>9. CASE Unregister(r)
    BY <1>0, <1>9 DEF Unregister, BindingTypeOK, Goto, Places
  <1>10. CASE ClearField(r)
    BY <1>0, <1>10 DEF ClearField, BindingTypeOK, Goto, Places
  <1>11. CASE CloseLocal(r)
    <2>1. refs' \in [Safe -> Int] /\ closed' \in [Safe -> BOOLEAN]
      BY <1>11, CloseTyped DEF CloseLocal, BindingTypeOK
    <2> QED
      BY <1>0, <1>11, <2>1 DEF CloseLocal, BindingTypeOK, Goto, Places
  <1> QED
    BY <1>1, <1>2, <1>3, <1>4, <1>5, <1>6, <1>7, <1>8, <1>9, <1>10, <1>11 DEF RunStep

\* So does every other step.
LEMMA OthersTyped ==
    ASSUME BindingTypeOK,
           Begin \/ WithStep \/ (\E d \in Disposers : DisposeStep(d)) \/ SourceStep
    PROVE  BindingTypeOK'
  <1> USE DEF objVars, safeVars, tokenVars, callVars
  <1>1. CASE Begin
    <2>1. CASE Construct
      <3>1. PICK n : n = (IF task'[obj] = "live" THEN 1 ELSE 0)
        OBVIOUS
      <3>3. n \in Int /\ refs' = [refs EXCEPT ![obj] = n]
        BY <2>1, <3>1 DEF Construct
      <3>2. refs' \in [Safe -> Int]
        BY <3>3, CountTyped
      <3> QED
        BY <2>1, <3>2 DEF Construct, BindingTypeOK
    <2>2. CASE With
      <3>1. Native(Owner, "idle", "enter with")
        BY <2>2 DEF With, Moves
      <3> QED
        BY <3>1, CallTyped, Kinds DEF Places
    <2>3. ASSUME NEW r \in Runners, Run(r) PROVE BindingTypeOK'
      BY <2>3, Kinds DEF Run, BindingTypeOK, Goto, Places
    <2>4. ASSUME NEW d \in Disposers, Dispose(d) PROVE BindingTypeOK'
      BY <2>4, Kinds DEF Dispose, BindingTypeOK, Goto, Places
    <2>5. CASE Cancel
      BY <2>5, Kinds DEF Cancel, BindingTypeOK, Goto, Places
    <2> QED
      BY <1>1, <2>1, <2>2, <2>3, <2>4, <2>5 DEF Begin
  <1>2. CASE WithStep
    BY <1>2, CallTyped, Kinds DEF WithStep, WithNative, WithDisposed, Moves, Places, InTask
  <1>3. ASSUME NEW d \in Disposers, DisposeStep(d) PROVE BindingTypeOK'
    <2>1. pc' \in [Threads -> Places]
      BY <1>3, Kinds, Moved DEF DisposeStep, ReadField, CloseSeen, CloseTask, Places
    <2>2. CASE ReadField(d)
      BY <2>1, <2>2 DEF ReadField, BindingTypeOK
    <2>3. CASE CloseSeen(d) \/ CloseTask(d)
      <3>1. refs' \in [Safe -> Int] /\ closed' \in [Safe -> BOOLEAN]
        BY <2>3, CloseTyped DEF CloseSeen, CloseTask
      <3> QED
        BY <2>1, <2>3, <3>1 DEF CloseSeen, CloseTask, BindingTypeOK
    <2> QED
      BY <1>3, <2>2, <2>3 DEF DisposeStep
  <1>4. CASE SourceStep
    <2>1. ASSUME NEW r \in Runners, Notify(r) PROVE BindingTypeOK'
      BY <2>1, Kinds DEF Notify, BindingTypeOK, Goto, Places
    <2>2. CASE NoMore \/ CancelNative(Source) \/ Enter(Source, "enter cancel", local[Source], "cancel")
      BY <2>2, CallTyped, Kinds DEF NoMore, CancelNative, Moves, Places, InCancel
    <2>3. CASE CallbackDisposed \/ Called
      <3>1. pc' \in [Threads -> Places]
        BY <2>3, Kinds, Moved DEF CallbackDisposed, Called, CallbackOver, Places
      <3>2. refs' \in [Safe -> Int]
        <4>1. CASE CallbackDisposed
          BY <4>1 DEF CallbackDisposed, BindingTypeOK
        <4>2. CASE Called
          BY <4>2, ReleaseTyped DEF Called
        <4> QED
          BY <2>3, <4>1, <4>2
      <3>3. registration' \in [Runners -> {"unset", "set", "called", "over"}]
            /\ cancelThrew' \in BOOLEAN
        BY <2>3 DEF CallbackDisposed, Called, CallbackOver, BindingTypeOK
      <3> QED
        BY <2>3, <3>1, <3>2, <3>3 DEF CallbackDisposed, Called, BindingTypeOK
    <2> QED
      BY <1>4, <2>1, <2>2, <2>3 DEF SourceStep
  <1> QED
    BY <1>1, <1>2, <1>3, <1>4

-----------------------------------------------------------------------------

\* A step of the run that has the claim.
Advances(r) ==
    /\ pc[r] \in Runs /\ pc'[r] \in Runs \union {"done"}
    /\ pc'[r] \in {"enter make", "make"} => local'[r] = None
    /\ pc'[r] \in {"leave make", "publish", "register"} \union Cancels => local'[r] # None
    /\ registration'[r] \in {"set", "called"} => pc'[r] \in Registered /\ local'[r] # None
    /\ registration[r] = "called" => registration'[r] = "called"
    /\ local'[r] = local[r] \/ local[r] = None
    /\ \A u \in Threads \ {r} : pc'[u] = pc[u] /\ local'[u] = local[u]
    /\ \A q \in Runners \ {r} : registration'[q] = registration[q]
    /\ hasRunFlag' = hasRunFlag

\* Such a step keeps every thread in its code.
LEMMA AdvanceKeepsControl ==
    ASSUME PlaceInv, ClaimInv, CallbackInv, NEW r \in Runners, Advances(r)
    PROVE  PlaceInv' /\ ClaimInv' /\ CallbackInv'
  <1>1. /\ r \in Threads /\ r # Source /\ r \notin Disposers
        /\ \A q \in Runners : q \in Threads /\ q # Source
        /\ \A d \in Disposers : d \in Threads /\ d # r
    BY Kinds
  <1>2. pc[r] \notin Configures /\ pc'[r] \notin Configures /\ Busy(r)
    BY DEF Advances, Runs, Claimed, Registered, Cancels, Configures, Busy
  <1>3. PlaceInv'
    <2>1. \A q \in Runners \ {r} : pc'[q] = pc[q]
      BY <1>1 DEF Advances
    <2>2. \A q \in Runners : q # r => pc[q] \notin Configures
      BY <1>2 DEF PlaceInv
    <2> QED
      BY <1>1, <1>2, <2>1, <2>2, Kinds DEF PlaceInv, Advances
  <1>4. ClaimInv'
    <2>1. \A q \in Runners : Ran(q)' => Ran(q)
      BY <1>1 DEF Advances, Ran
    <2>2. \A q \in Runners : q # r => pc'[q] = pc[q] /\ local'[q] = local[q]
      BY <1>1 DEF Advances
    <2>3. \A d \in Disposers : pc'[d] = pc[d] /\ local'[d] = local[d]
      BY <1>1 DEF Advances
    <2>4. /\ pc'[r] \notin {"idle", "claim"} \union Configures
          /\ pc'[r] \in {"enter make", "make"} => local'[r] = None
          /\ pc'[r] \in {"leave make", "publish", "register"} \union Cancels => local'[r] # None
      BY <1>2 DEF Advances, Runs, Claimed, Registered, Cancels
    <2>5. \A q, u \in Runners : Ran(q)' => hasRunFlag' /\ (Ran(u)' => q = u)
      BY <2>1 DEF ClaimInv, Advances
    <2> QED
      BY <2>2, <2>3, <2>4, <2>5 DEF ClaimInv
  <1>5. CallbackInv'
    <2>1. \A q \in Runners : registration'[q] \in {"set", "called"} =>
            pc'[q] \in Registered /\ local'[q] # None
      BY <1>1 DEF CallbackInv, Advances
    <2>2. ASSUME pc'[Source] \in Cancels
          PROVE  \E q \in Runners : registration'[q] = "called" /\ local'[Source] = local'[q]
      <3>1. pc'[Source] = pc[Source] /\ local'[Source] = local[Source]
        BY <1>1, Kinds DEF Advances
      <3>2. PICK q \in Runners : registration[q] = "called" /\ local[Source] = local[q]
        BY <2>2, <3>1 DEF CallbackInv
      <3>3. local[q] # None
        BY <3>2 DEF CallbackInv
      <3> QED
        BY <1>1, <3>1, <3>2, <3>3 DEF Advances
    <2> QED
      BY <2>1, <2>2 DEF CallbackInv
  <1> QED
    BY <1>3, <1>4, <1>5

\* Every step of RunCore after the claim is such a step.
LEMMA RunAdvances ==
    ASSUME ControlInv, NEW r \in Runners, RunStep(r), ~Claim(r)
    PROVE  Advances(r)
  <1> USE DEF objVars, safeVars, tokenVars, callVars, At
  <1>0. /\ r \in Threads /\ BindingTypeOK /\ PlaceInv /\ ClaimInv /\ CallbackInv
        /\ BindingTypeOK'
    BY Kinds, RunStepTyped DEF ControlInv
  <1>1. ASSUME NEW from \in Runs, NEW to \in Runs \union {"done"}, pc[r] = from, Goto(r, to),
               local' = local, registration' = registration, hasRunFlag' = hasRunFlag,
               to \in {"enter make", "make"} => local[r] = None,
               to \in {"leave make", "publish", "register"} \union Cancels => local[r] # None,
               from \in Registered => to \in Registered
        PROVE  Advances(r)
    <2>1. pc'[r] = to /\ \A u \in Threads \ {r} : pc'[u] = pc[u]
      BY <1>0, <1>1, Moved, PlacesNamed
    <2> QED
      BY <1>0, <1>1, <2>1 DEF Advances, CallbackInv
  <1>2. CASE \/ Enter(r, "enter make", obj, "make") \/ Enter(r, "enter run", obj, "run")
             \/ Enter(r, "enter cancel", local[r], "cancel")
    BY <1>0, <1>1, <1>2 DEF Enter, ClaimInv, Runs, Claimed, Registered, Cancels
  <1>3. CASE \/ Leave(r, "leave make", obj, "publish") \/ Leave(r, "leave run", obj, "throw")
             \/ Leave(r, "leave cancel", local[r], "enter run")
    BY <1>0, <1>1, <1>3 DEF Leave, ClaimInv, Runs, Claimed, Registered, Cancels
  <1>4. CASE RunNative(r)
    BY <1>0, <1>1, <1>4 DEF RunNative, Native, Runs, Registered, Cancels
  <1>5. CASE CancelNative(r)
    BY <1>0, <1>1, <1>5 DEF CancelNative, Native, ClaimInv, Runs, Claimed, Registered, Cancels
  <1>6. CASE MakeNative(r)
    <2>1. PICK h \in Handles : local' = [local EXCEPT ![r] = h]
      BY <1>6 DEF MakeNative
    <2>2. /\ pc[r] = "make" /\ pc'[r] = "leave make"
          /\ \A u \in Threads \ {r} : pc'[u] = pc[u]
      BY <1>0, <1>6, Moved DEF MakeNative, Places
    <2>3. local[r] = None /\ local'[r] # None /\ \A u \in Threads \ {r} : local'[u] = local[u]
      BY <1>0, <2>1, <2>2, Kinds DEF ClaimInv, BindingTypeOK
    <2>4. registration' = registration /\ hasRunFlag' = hasRunFlag
      BY <1>6 DEF MakeNative
    <2>5. registration[r] \notin {"set", "called"}
      BY <1>0, <2>2 DEF CallbackInv, Registered
    <2> QED
      BY <2>2, <2>3, <2>4, <2>5 DEF Advances, Runs, Claimed
  <1>7. CASE Publish(r)
    BY <1>0, <1>1, <1>7 DEF Publish, ClaimInv, Runs, Claimed, Registered, Cancels
  <1>8. CASE Register(r)
    <2>1. CASE requested
      BY <1>0, <1>1, <1>8, <2>1 DEF Register, ClaimInv, Runs, Claimed, Registered, Cancels
    <2>2. CASE ~requested
      <3>1. /\ pc[r] = "register" /\ pc'[r] = "enter run"
            /\ \A u \in Threads \ {r} : pc'[u] = pc[u]
        BY <1>0, <1>8, <2>2, Moved DEF Register, Places
      <3>2. /\ local' = local /\ hasRunFlag' = hasRunFlag
            /\ registration' = [registration EXCEPT ![r] = "set"]
        BY <1>8, <2>2 DEF Register
      <3>3. local[r] # None /\ registration[r] # "called"
        BY <1>0, <3>1 DEF ClaimInv, CallbackInv, Registered
      <3> QED
        BY <1>0, <3>1, <3>2, <3>3 DEF Advances, Runs, Claimed, Registered, Cancels, BindingTypeOK
    <2> QED
      BY <2>1, <2>2
  <1>9. CASE RunDisposed(r) \/ BuildRunException(r) \/ RunReturnsNative(r)
    BY <1>0, <1>1, <1>9
    DEF RunDisposed, BuildRunException, RunReturnsNative, Runs, Claimed, Registered, Cancels
  <1>10. CASE Unregister(r)
    <2>1. /\ pc[r] = "finally" /\ pc'[r] = "clear"
          /\ \A u \in Threads \ {r} : pc'[u] = pc[u]
      BY <1>0, <1>10, Moved DEF Unregister, Places
    <2>2. /\ local' = local /\ hasRunFlag' = hasRunFlag /\ registration[r] # "called"
          /\ registration' = [registration EXCEPT ![r] = "over"]
      BY <1>10 DEF Unregister
    <2> QED
      BY <1>0, <2>1, <2>2 DEF Advances, Runs, Registered, Cancels, BindingTypeOK
  <1>11. CASE ClearField(r)
    BY <1>0, <1>1, <1>11 DEF ClearField, Runs, Registered, Cancels
  <1>12. CASE CloseLocal(r)
    BY <1>0, <1>1, <1>12 DEF CloseLocal, Runs, Registered, Cancels
  <1> QED
    BY <1>2, <1>3, <1>4, <1>5, <1>6, <1>7, <1>8, <1>9, <1>10, <1>11, <1>12 DEF RunStep

\* A step of Run or With before the claim, or of With after it.
Prepares(r) ==
    /\ pc[r] \notin Runs /\ pc'[r] \notin Runs
    /\ pc'[r] \in {"idle", "claim", "done"} \union Configures
    /\ pc[r] \in {"claim", "done"} => pc'[r] = "done"
    /\ pc'[r] \in Configures => r = Owner /\ \A q \in Runners \ {r} : ~Busy(q)
    /\ Busy(r)' => pc'[r] \in Configures \/ pc[Owner] \notin Configures
    /\ \A u \in Threads \ {r} : pc'[u] = pc[u]
    /\ local' = local /\ registration' = registration /\ hasRunFlag' = hasRunFlag

\* Such a step keeps every thread in its code, too.
LEMMA PrepareKeepsControl ==
    ASSUME PlaceInv, ClaimInv, CallbackInv, NEW r \in Runners, Prepares(r)
    PROVE  PlaceInv' /\ ClaimInv' /\ CallbackInv'
  <1>1. /\ r \in Threads /\ r # Source /\ r \notin Disposers
        /\ \A q \in Runners : q \in Threads /\ q # Source
        /\ \A d \in Disposers : d \in Threads /\ d # r
    BY Kinds
  <1>2. \A q \in Runners \ {r} : pc'[q] = pc[q]
    BY <1>1 DEF Prepares
  <1>3. PlaceInv'
    <2>1. \A q \in Runners : pc'[q] \in {"idle", "claim", "done"} \union Runs \union Configures
      BY <1>2 DEF PlaceInv, Prepares
    <2>2. ASSUME NEW q \in Runners, pc'[q] \in Configures
          PROVE  q = Owner /\ \A u \in Runners \ {q} : ~Busy(u)'
      <3>1. CASE q = r
        BY <1>2, <2>2, <3>1 DEF Prepares, Busy
      <3>2. CASE q # r
        <4>1. pc[q] \in Configures /\ q = Owner /\ \A u \in Runners \ {q} : ~Busy(u)
          BY <1>2, <2>2, <3>2 DEF PlaceInv
        <4>2. pc'[r] \notin Configures
          BY <3>2, <4>1 DEF Prepares
        <4>3. ~Busy(r)'
          BY <4>1, <4>2 DEF Prepares
        <4> QED
          BY <1>2, <4>1, <4>3 DEF Busy
      <3> QED
        BY <3>1, <3>2
    <2> QED
      BY <1>1, <2>1, <2>2, Kinds DEF PlaceInv, Prepares
  <1>4. ClaimInv'
    <2>1. \A q \in Runners : Ran(q)' = Ran(q)
      BY <1>2 DEF Prepares, Ran
    <2>2. pc[r] \in {"idle", "claim"} \union Configures \/ pc'[r] = "done"
      BY DEF PlaceInv, Prepares
    <2>3. pc'[r] \notin Cancels \union {"enter make", "make", "leave make", "publish", "register"}
      BY DEF Prepares, Runs, Claimed
    <2>4. pc'[r] \in {"idle", "claim", "enter make", "make"} \union Configures => local[r] = None
      BY <2>2 DEF ClaimInv, Prepares, Configures
    <2>5. \A d \in Disposers : pc'[d] = pc[d]
      BY <1>1 DEF Prepares
    <2> QED
      BY <1>2, <2>1, <2>3, <2>4, <2>5 DEF ClaimInv, Prepares
  <1>5. CallbackInv'
    <2>1. pc[r] \notin Registered
      BY DEF Prepares, Runs
    <2>2. registration[r] \notin {"set", "called"}
      BY <2>1 DEF CallbackInv
    <2> QED
      BY <1>1, <1>2, <2>2, Kinds DEF CallbackInv, Prepares
  <1> QED
    BY <1>3, <1>4, <1>5

\* The claim: the flag was down, so nobody had it.
LEMMA ClaimKeepsControl ==
    ASSUME ControlInv, NEW r \in Runners, Claim(r)
    PROVE  PlaceInv' /\ ClaimInv' /\ CallbackInv'
  <1> USE DEF objVars, safeVars, tokenVars, callVars, At
  <1>0. r \in Threads /\ BindingTypeOK /\ PlaceInv /\ ClaimInv /\ CallbackInv
    BY Kinds DEF ControlInv
  <1>1. CASE hasRunFlag
    <2>1. pc[r] = "claim" /\ pc'[r] = "done" /\ \A u \in Threads \ {r} : pc'[u] = pc[u]
      BY <1>0, <1>1, Moved, PlacesNamed DEF Claim
    <2>2. /\ local' = local /\ registration' = registration
          /\ hasRunFlag' = TRUE
      BY DEF Claim
    <2>3. hasRunFlag' = hasRunFlag
      BY <1>0, <1>1, <2>2 DEF BindingTypeOK
    <2>4. Prepares(r)
      BY <2>1, <2>2, <2>3 DEF Prepares, Busy, Runs, Claimed, Registered, Cancels, Configures
    <2> QED
      BY <1>0, <2>4, PrepareKeepsControl
  <1>2. CASE ~hasRunFlag
    <2>1. PICK to \in {"enter make", "enter run"} : Goto(r, to)
      BY <1>2 DEF Claim
    <2>2. pc[r] = "claim" /\ pc'[r] = to /\ \A u \in Threads \ {r} : pc'[u] = pc[u]
      BY <1>0, <2>1, Moved DEF Claim, Places
    <2>3. local' = local /\ registration' = registration /\ hasRunFlag'
      BY DEF Claim
    <2>4. \A q \in Runners : ~Ran(q)
      BY <1>0, <1>2 DEF ClaimInv
    <2>5. \A q \in Runners : pc[q] \notin Configures
      <3>1. Busy(r) /\ pc[r] \notin Configures
        BY <2>2 DEF Busy, Configures
      <3> QED
        BY <1>0, <3>1 DEF PlaceInv
    <2>6. to \in Runs /\ to \notin Configures
      BY DEF Runs, Claimed, Registered, Configures
    <2>7. \A q \in Runners \ {r} : pc'[q] = pc[q]
      BY <2>2, Kinds
    <2>8. \A d \in Disposers : pc'[d] = pc[d]
      BY <2>2, Kinds
    <2>9. pc'[Source] = pc[Source]
      BY <2>2, Kinds
    <2>10. PlaceInv'
      BY <1>0, <2>2, <2>5, <2>6, <2>7, <2>8, <2>9 DEF PlaceInv
    <2>11. ClaimInv'
      <3>1. \A q \in Runners : Ran(q)' => q = r
        BY <2>3, <2>4, <2>7 DEF Ran
      <3>2. local[r] = None /\ to \notin {"leave make", "publish", "register"} \union Cancels
        BY <1>0, <2>2 DEF ClaimInv, Cancels
      <3> QED
        BY <1>0, <2>2, <2>3, <2>7, <2>8, <3>1, <3>2 DEF ClaimInv
    <2>12. CallbackInv'
      <3>1. registration[r] \notin {"set", "called"}
        BY <1>0, <2>2 DEF CallbackInv, Registered
      <3> QED
        BY <1>0, <2>2, <2>3, <2>7, <2>9, <3>1 DEF CallbackInv
    <2> QED
      BY <2>10, <2>11, <2>12
  <1> QED
    BY <1>1, <1>2

\* With* and the beginning of Run are made by threads that have no claim.
LEMMA CallerPrepares ==
    ASSUME ControlInv,
           With \/ WithStep \/ \E r \in Runners : Run(r)
    PROVE  PlaceInv' /\ ClaimInv' /\ CallbackInv'
  <1> USE DEF objVars, safeVars, tokenVars, callVars, At
  <1>0. BindingTypeOK /\ PlaceInv /\ ClaimInv /\ CallbackInv
    BY DEF ControlInv
  <1>1. ASSUME NEW r \in Runners, Run(r) PROVE Prepares(r)
    <2>1. PICK to \in {"claim", "done"} : Goto(r, to)
      BY <1>1 DEF Run
    <2>2. pc[r] = "idle" /\ pc'[r] = to /\ \A u \in Threads \ {r} : pc'[u] = pc[u]
      BY <1>0, <1>1, <2>1, Moved, PlacesNamed, Kinds DEF Run
    <2>3. /\ local' = local /\ registration' = registration /\ hasRunFlag' = hasRunFlag
          /\ pc[Owner] \notin Configures
      BY <1>1 DEF Run, Configuring, Configures
    <2> QED
      BY <2>2, <2>3 DEF Prepares, Runs, Claimed, Registered, Cancels, Configures
  <1>2. ASSUME NEW from, NEW to \in {"idle"} \union Configures, pc[Owner] = from, Goto(Owner, to),
               from = "idle" \/ from \in Configures,
               from = "idle" => ~\E q \in Runners : Busy(q),
               local' = local, registration' = registration, hasRunFlag' = hasRunFlag
        PROVE  Prepares(Owner)
    <2>1. pc'[Owner] = to /\ \A u \in Threads \ {Owner} : pc'[u] = pc[u]
      BY <1>0, <1>2, Moved, PlacesNamed, Kinds
    <2>2. \A q \in Runners \ {Owner} : ~Busy(q)
      BY <1>0, <1>2, Kinds DEF PlaceInv
    <2>3. from \notin Runs /\ to \notin Runs /\ from \notin {"done", "claim"}
      BY <1>2 DEF Configures, Runs, Claimed, Registered, Cancels
    <2> QED
      BY <1>2, <2>1, <2>2, <2>3 DEF Prepares, Busy
  <1>3. ASSUME With PROVE Prepares(Owner)
    BY <1>2, <1>3 DEF With, Moves, Native, Configures
  <1>4. ASSUME WithStep PROVE Prepares(Owner)
    <2>1. PICK from \in Configures, to \in {"idle"} \union Configures :
            pc[Owner] = from /\ Goto(Owner, to)
      BY <1>4 DEF WithStep, Enter, WithDisposed, WithNative, Leave, Moves, Native, Configures
    <2>2. local' = local /\ registration' = registration /\ hasRunFlag' = hasRunFlag
      BY <1>4 DEF WithStep, Enter, WithDisposed, WithNative, Leave, Moves, Native
    <2>3. from # "idle"
      BY DEF Configures
    <2> QED
      BY <1>2, <2>1, <2>2, <2>3
  <1> QED
    BY <1>0, <1>1, <1>3, <1>4, PrepareKeepsControl, Kinds

\* Dispose and the thread that cancels the token move only themselves.
LEMMA DisposerKeepsControl ==
    ASSUME ControlInv, NEW d \in Disposers, Dispose(d) \/ DisposeStep(d)
    PROVE  PlaceInv' /\ ClaimInv' /\ CallbackInv'
  <1> USE DEF objVars, safeVars, tokenVars, callVars, At
  <1>0. BindingTypeOK /\ PlaceInv /\ ClaimInv /\ CallbackInv
    BY DEF ControlInv
  <1>1. /\ d \in Threads /\ d # Source /\ d \notin Runners
        /\ \A q \in Runners : q \in Threads /\ q # d
        /\ \A u \in Disposers : u \in Threads
        /\ Source \in Threads
    BY Kinds
  <1>2. PICK to \in {"done"} \union Disposes : Goto(d, to)
    BY DEF Dispose, DisposeStep, ReadField, CloseSeen, CloseTask, Disposes
  <1>3. pc'[d] = to /\ \A u \in Threads \ {d} : pc'[u] = pc[u]
    BY <1>0, <1>1, <1>2, Moved, PlacesNamed
  <1>4. registration' = registration /\ hasRunFlag' = hasRunFlag
    BY DEF Dispose, DisposeStep, ReadField, CloseSeen, CloseTask
  <1>5. (\A u \in Threads \ {d} : local'[u] = local[u]) /\ (to = "close seen" => local'[d] # None)
    <2>1. CASE ReadField(d)
      BY <1>0, <1>1, <1>3, <2>1 DEF ReadField, BindingTypeOK, Goto
    <2>2. CASE ~ReadField(d)
      <3>1. local' = local
        BY <2>2 DEF Dispose, DisposeStep, CloseSeen, CloseTask
      <3>2. to # "close seen"
        BY <1>0, <1>1, <1>3, <2>2 DEF Dispose, DisposeStep, CloseSeen, CloseTask, Goto, BindingTypeOK
      <3> QED
        BY <3>1, <3>2
    <2> QED
      BY <2>1, <2>2
  <1>6. PlaceInv'
    BY <1>0, <1>1, <1>2, <1>3 DEF PlaceInv, Busy
  <1>7. ClaimInv'
    BY <1>0, <1>1, <1>3, <1>4, <1>5 DEF ClaimInv, Ran
  <1>8. CallbackInv'
    BY <1>0, <1>1, <1>3, <1>4, <1>5 DEF CallbackInv
  <1> QED
    BY <1>6, <1>7, <1>8

\* The source calls back only while the run it was registered by waits for it.
LEMMA SourceKeepsControl ==
    ASSUME ControlInv, Cancel \/ SourceStep
    PROVE  PlaceInv' /\ ClaimInv' /\ CallbackInv'
  <1> USE DEF objVars, safeVars, tokenVars, callVars, At
  <1>0. BindingTypeOK /\ PlaceInv /\ ClaimInv /\ CallbackInv
    BY DEF ControlInv
  <1>1. /\ Source \in Threads /\ \A q \in Runners : q \in Threads /\ q # Source
        /\ \A u \in Disposers : u \in Threads /\ u # Source
    BY Kinds
  <1>2. PICK to \in {"notify", "done"} \union Cancels : Goto(Source, to)
    BY DEF Cancel, SourceStep, Notify, NoMore, Enter, CallbackDisposed, CallbackOver, CancelNative,
           Called, Moves, Native, Cancels
  <1>3. pc'[Source] = to /\ \A u \in Threads \ {Source} : pc'[u] = pc[u]
    BY <1>0, <1>1, <1>2, Moved, PlacesNamed
  <1>4. hasRunFlag' = hasRunFlag /\ \A u \in Threads \ {Source} : local'[u] = local[u]
    <2>1. ASSUME NEW r \in Runners, Notify(r)
          PROVE  hasRunFlag' = hasRunFlag /\ \A u \in Threads \ {Source} : local'[u] = local[u]
      BY <1>0, <2>1 DEF Notify, BindingTypeOK
    <2>2. CASE ~\E r \in Runners : Notify(r)
      BY <2>2 DEF Cancel, SourceStep, NoMore, Enter, CallbackDisposed, CancelNative, Called, Moves,
                  Native
    <2> QED
      BY <2>1, <2>2
  <1>5. PlaceInv'
    BY <1>0, <1>1, <1>2, <1>3 DEF PlaceInv, Busy
  <1>6. ClaimInv'
    BY <1>0, <1>1, <1>3, <1>4 DEF ClaimInv, Ran
  <1>7. CallbackInv'
    <2>1. ASSUME NEW r \in Runners, Notify(r) PROVE CallbackInv'
      <3>1. /\ registration[r] = "set" /\ registration' = [registration EXCEPT ![r] = "called"]
            /\ local'[Source] = local[r]
        BY <1>0, <1>1, <2>1 DEF Notify, BindingTypeOK
      <3>2. registration'[r] = "called" /\ \A q \in Runners \ {r} : registration'[q] = registration[q]
        BY <1>0, <3>1 DEF BindingTypeOK
      <3> QED
        BY <1>0, <1>1, <1>3, <1>4, <3>1, <3>2 DEF CallbackInv
    <2>2. CASE CallbackDisposed \/ Called
      <3>1. PICK q \in Runners : registration' = [registration EXCEPT ![q] = "over"]
        BY <2>2 DEF CallbackDisposed, Called, CallbackOver
      <3>2. \A u \in Runners : registration'[u] \in {registration[u], "over"}
        BY <1>0, <3>1 DEF BindingTypeOK
      <3>3. pc'[Source] = "notify"
        BY <1>0, <1>1, <2>2 DEF CallbackDisposed, Called, CallbackOver, Goto, BindingTypeOK
      <3>4. "notify" \notin Cancels
        BY DEF Cancels
      <3>5. \A u \in Runners : registration'[u] \in {"set", "called"} =>
                registration[u] \in {"set", "called"}
        BY <3>2
      <3> QED
        BY <1>0, <1>1, <1>3, <1>4, <3>3, <3>4, <3>5 DEF CallbackInv
    <2>3. CASE Cancel \/ NoMore \/ Enter(Source, "enter cancel", local[Source], "cancel")
               \/ CancelNative(Source)
      <3>1. registration' = registration /\ local' = local
        BY <2>3 DEF Cancel, NoMore, Enter, CancelNative, Moves, Native
      <3>2. pc'[Source] \in Cancels => pc[Source] \in Cancels
        BY <1>0, <1>1, <2>3
        DEF Cancel, NoMore, Enter, CancelNative, Moves, Native, Goto, BindingTypeOK, Cancels
      <3> QED
        BY <1>0, <1>1, <1>3, <3>1, <3>2 DEF CallbackInv
    <2> QED
      BY <2>1, <2>2, <2>3 DEF SourceStep
  <1> QED
    BY <1>5, <1>6, <1>7

\* What a run, a Dispose and a callback may find, whatever the native side
\* does: one claim, and a callback only between Register and its undoing.
LEMMA ControlInvariance ==
    ASSUME ControlInv, [DotnetNext]_dotnetVars
    PROVE  ControlInv'
  <1>1. CASE UNCHANGED dotnetVars
    BY <1>1 DEF ControlInv, BindingTypeOK, PlaceInv, ClaimInv, CallbackInv, Ran, Busy, dotnetVars,
                objVars, safeVars, tokenVars, callVars
  <1>2. CASE Construct
    <2>1. UNCHANGED <<pc, local, registration, hasRunFlag>>
      BY <1>2 DEF Construct, objVars, tokenVars, callVars
    <2>2. BindingTypeOK'
      BY <1>2, OthersTyped DEF Begin, ControlInv
    <2> QED
      BY <2>1, <2>2 DEF ControlInv, PlaceInv, ClaimInv, CallbackInv, Ran, Busy
  <1>3. CASE With \/ WithStep \/ \E r \in Runners : Run(r)
    BY <1>3, CallerPrepares, OthersTyped DEF Begin, ControlInv
  <1>4. CASE \E d \in Disposers : Dispose(d) \/ DisposeStep(d)
    BY <1>4, DisposerKeepsControl, OthersTyped DEF Begin, ControlInv
  <1>5. CASE Cancel \/ SourceStep
    BY <1>5, SourceKeepsControl, OthersTyped DEF Begin, ControlInv
  <1>6. ASSUME NEW r \in Runners, RunStep(r) PROVE ControlInv'
    BY <1>6, ClaimKeepsControl, RunAdvances, AdvanceKeepsControl, RunStepTyped DEF ControlInv
  <1> QED
    BY <1>1, <1>2, <1>3, <1>4, <1>5, <1>6 DEF DotnetNext, Begin, Proceed

\* At the start every thread is idle and no callback is set.
LEMMA ControlInit == DotnetInit => ControlInv
  <1> SUFFICES ASSUME DotnetInit PROVE ControlInv
    OBVIOUS
  <1>1. /\ \A th \in Threads : pc[th] = "idle" /\ local[th] = None
        /\ \A r \in Runners : registration[r] = "unset"
    BY DEF DotnetInit
  <1>2. BindingTypeOK
    <2>1. refs \in [Safe -> Int] /\ closed \in [Safe -> BOOLEAN] /\ token \in [Runners -> BOOLEAN]
      BY DEF DotnetInit
    <2>2. /\ hasRunFlag \in BOOLEAN /\ disposedFlag \in BOOLEAN /\ requested \in BOOLEAN
          /\ cancelThrew \in BOOLEAN /\ endless \in BOOLEAN
      BY DEF DotnetInit
    <2>3. /\ pc \in [Threads -> Places] /\ local \in [Threads -> Handles \union {None}]
          /\ cancelHandle \in Handles \union {None}
          /\ registration \in [Runners -> {"unset", "set", "called", "over"}]
      BY DEF DotnetInit, Places
    <2> QED
      BY <2>1, <2>2, <2>3 DEF BindingTypeOK
  <1>3. PlaceInv
    BY <1>1, Kinds DEF PlaceInv, Configures, Runs
  <1>4. ClaimInv
    BY <1>1, Kinds DEF ClaimInv, Ran, Runs, Claimed, Registered, Cancels
  <1>5. CallbackInv
    BY <1>1, Kinds DEF CallbackInv, Cancels
  <1> QED
    BY <1>2, <1>3, <1>4, <1>5 DEF ControlInv

-----------------------------------------------------------------------------
(* The binding uses the native side by calls of the C ABI only, so that     *)
(* what AerFfiProofs shows of the ABI holds of the binding.                 *)

\* A thread in, or about to be in, a P/Invoke on a cancel handle has one.
LEMMA HandleAtHand ==
    ASSUME ControlInv
    PROVE  /\ \A th \in Threads : pc[th] \in Cancels => local[th] \in Handles
           /\ \A d \in Disposers : pc[d] = "close seen" => local[d] \in Handles
  <1>1. /\ BindingTypeOK /\ PlaceInv /\ ClaimInv /\ CallbackInv
        /\ \A th \in Threads : local[th] \in Handles \union {None}
    BY DEF ControlInv, BindingTypeOK
  <1>2. \A r \in Runners : pc[r] \in Cancels => local[r] # None
    BY <1>1 DEF ClaimInv
  <1>3. pc[Source] \in Cancels => local[Source] # None
    BY <1>1 DEF CallbackInv
  <1>4. \A d \in Disposers : pc[d] \notin Cancels /\ (pc[d] = "close seen" => local[d] # None)
    BY <1>1 DEF PlaceInv, ClaimInv, Cancels, Disposes
  <1> QED
    BY <1>1, <1>2, <1>3, <1>4, DotnetAssumption

\* What a thread does to the native side in one step.
Calls(th) ==
    \/ UNCHANGED ffiVars \/ TaskCall(th, obj) \/ RunEnds(th)
    \/ \E h \in Handles : aer_cancel(th, h) \/ aer_cancel_free(th, h)

\* A release or SafeHandle.Dispose is a free or nothing.
LEMMA ReleaseCalls ==
    ASSUME NEW th \in Threads, NEW h \in Safe, Release(th, h) \/ Close(th, h)
    PROVE  Calls(th)
  <1>0. CASE UNCHANGED ffiVars
    BY <1>0 DEF Calls
  <1>1. CASE Release(th, h) /\ h = obj
    <2>1. UNCHANGED ffiVars \/ aer_task_free(th, obj)
      BY <1>1 DEF Release
    <2> QED
      BY <2>1 DEF Calls, TaskCall
  <1>2. CASE Release(th, h) /\ h # obj
    <2>1. UNCHANGED ffiVars \/ aer_cancel_free(th, h)
      BY <1>2 DEF Release
    <2>2. h \in Handles
      BY <1>2, DotnetAssumption DEF Safe
    <2> QED
      BY <2>1, <2>2 DEF Calls
  <1> QED
    BY <1>0, <1>1, <1>2 DEF Close

\* aer_cancel is called on a handle, and so is its release.
LEMMA CancelCalls ==
    ASSUME ControlInv, NEW th \in Threads,
           CancelNative(th) \/ (At(th, "leave cancel") /\ Release(th, local[th]))
    PROVE  Calls(th)
  <1>1. local[th] \in Handles
    BY HandleAtHand DEF CancelNative, Native, At, Cancels
  <1>2. CASE CancelNative(th)
    BY <1>1, <1>2 DEF CancelNative, Calls
  <1>3. CASE Release(th, local[th])
    BY <1>1, <1>3, ReleaseCalls, Kinds
  <1> QED
    BY <1>2, <1>3

\* new AerTask and With* call the task's functions, ...
LEMMA CallerCalls ==
    ASSUME Construct \/ With \/ WithStep
    PROVE  Calls(Owner)
  <1>0. obj \in Safe /\ Owner \in Threads
    BY Kinds
  <1>1. CASE WithNative
    BY <1>1 DEF WithNative, Calls, TaskCall
  <1>2. CASE Leave(Owner, "leave with", obj, "idle")
    BY <1>0, <1>2, ReleaseCalls DEF Leave
  <1>3. CASE Enter(Owner, "enter with", obj, "with") \/ WithDisposed \/ With
    BY <1>3 DEF Enter, WithDisposed, With, Moves, Calls
  <1>4. CASE Construct
    BY <1>4 DEF Construct, Calls, TaskCall
  <1> QED
    BY <1>1, <1>2, <1>3, <1>4 DEF WithStep

\* ... Dispose frees, ...
LEMMA DisposerCalls ==
    ASSUME ControlInv, NEW d \in Disposers, Dispose(d) \/ DisposeStep(d)
    PROVE  Calls(d)
  <1>0. obj \in Safe /\ Handles \subseteq Safe /\ d \in Threads
    BY Kinds
  <1>1. CASE Dispose(d) \/ ReadField(d)
    BY <1>1 DEF Dispose, ReadField, Calls
  <1>2. CASE CloseSeen(d)
    <2>1. local[d] \in Handles
      BY <1>2, HandleAtHand DEF CloseSeen, At
    <2> QED
      BY <1>0, <1>2, <2>1, ReleaseCalls DEF CloseSeen
  <1>3. CASE CloseTask(d)
    BY <1>0, <1>3, ReleaseCalls DEF CloseTask
  <1> QED
    BY <1>1, <1>2, <1>3 DEF DisposeStep

\* ... the token's callback cancels and may free, ...
LEMMA SourceCalls ==
    ASSUME ControlInv, Cancel \/ SourceStep
    PROVE  Calls(Source)
  <1>1. CASE Called
    BY <1>1, CancelCalls, Kinds DEF Called
  <1>2. CASE CancelNative(Source)
    BY <1>2, CancelCalls, Kinds
  <1>3. CASE ~Called /\ ~CancelNative(Source)
    BY <1>3 DEF Cancel, SourceStep, Notify, NoMore, Enter, CallbackDisposed, Moves, Calls
  <1> QED
    BY <1>1, <1>2, <1>3

\* ... and RunCore makes a handle, cancels, runs and frees.
LEMMA RunnerCalls ==
    ASSUME ControlInv, FfiTypeOK, NEW r \in Runners, Run(r) \/ RunStep(r)
    PROVE  Calls(r)
  <1>0. r \in Threads /\ obj \in Safe /\ Handles \subseteq Safe
    BY Kinds
  <1>1. CASE CancelNative(r) \/ Leave(r, "leave cancel", local[r], "enter run")
    BY <1>0, <1>1, CancelCalls DEF Leave
  <1>2. CASE Leave(r, "leave make", obj, "publish") \/ Leave(r, "leave run", obj, "throw")
    BY <1>0, <1>2, ReleaseCalls DEF Leave
  <1>3. CASE MakeNative(r)
    BY <1>3 DEF MakeNative, Calls, TaskCall
  <1>4. CASE RunNative(r)
    BY <1>4 DEF RunNative, Calls, TaskCall
  <1>5. CASE RunReturnsNative(r)
    <2>1. running[r] \in Seq(Tasks) /\ running[r] # <<>>
      BY <1>0, <1>5 DEF RunReturnsNative, FfiTypeOK
    <2>2. running[r][Len(running[r])] = obj
      BY <2>1, EmptySeq, DotnetAssumption
    <2>3. PICK result \in Results(obj) : RunEndsWith(r, result)
      BY <1>5 DEF RunReturnsNative, Results
    <2> QED
      BY <2>1, <2>2, <2>3 DEF RunEnds, Calls
  <1>6. CASE CloseLocal(r)
    <2>1. local[r] \in Handles \union {None}
      BY <1>0 DEF ControlInv, BindingTypeOK
    <2>2. CASE UNCHANGED ffiVars
      BY <2>2 DEF Calls
    <2> QED
      BY <1>0, <1>6, <2>1, <2>2, ReleaseCalls DEF CloseLocal
  <1>7. CASE \/ Enter(r, "enter make", obj, "make") \/ Enter(r, "enter run", obj, "run")
             \/ Enter(r, "enter cancel", local[r], "cancel")
             \/ Run(r) \/ Claim(r) \/ Publish(r) \/ Register(r) \/ RunDisposed(r)
             \/ BuildRunException(r) \/ Unregister(r) \/ ClearField(r)
    BY <1>7 DEF Enter, Run, Claim, Publish, Register, RunDisposed, BuildRunException, Unregister,
                ClearField, Calls
  <1> QED
    BY <1>1, <1>2, <1>3, <1>4, <1>5, <1>6, <1>7 DEF RunStep

\* A step of the binding is a call of the ABI, its run's end, or neither.
LEMMA StepCalls ==
    ASSUME ControlInv, FfiTypeOK, [DotnetNext]_dotnetVars
    PROVE  [Next]_ffiVars
  <1>1. ASSUME NEW th \in Threads, Calls(th) PROVE [Next]_ffiVars
    BY <1>1, DotnetAssumption DEF Calls, Next
  <1>2. CASE UNCHANGED dotnetVars
    BY <1>2 DEF dotnetVars
  <1> QED
    BY <1>1, <1>2, CallerCalls, DisposerCalls, SourceCalls, RunnerCalls, Kinds
    DEF DotnetNext, Begin, Proceed

\* Whatever its threads do, what the binding does to the native side is a
\* behaviour of the C ABI: its Run, With*, Dispose and the callback of its
\* token pass only handles the ABI gave out.
THEOREM BindingCallsTheAbi == DotnetSpec => Spec
  <1>1. DotnetInit => ControlInv /\ FfiTypeOK /\ Init
    BY ControlInit, FfiInit DEF DotnetInit
  <1>2. ControlInv /\ FfiTypeOK /\ [DotnetNext]_dotnetVars
        => ControlInv' /\ FfiTypeOK' /\ [Next]_ffiVars
    BY ControlInvariance, StepCalls, FfiKeepsTypes
  <1> QED
    BY <1>1, <1>2, PTL DEF DotnetSpec, Spec

\* So what AerFfi's theorems say holds under the binding: however many threads
\* call Run, one process is spawned.
THEOREM BindingSpawnsOnce == DotnetSpec => []OneRunPerHandle
  BY BindingCallsTheAbi, SpawnsOnce, PTL

\* And it is spawned with what the With* calls set, where a key names its own
\* variable.
THEOREM BindingSettingsTakeEffect == ASSUME ExactNames PROVE DotnetSpec => []OkMeansEffective
  BY BindingCallsTheAbi, SettingsTakeEffect, PTL

-----------------------------------------------------------------------------
(* What a caller of Run is told. *)

\* The result and the reason in the handler's Exited event are made of the
\* same two flags, by one match each in run_impl, and then cross the C ABI.
LEMMA ExitedArgsAre ==
    ASSUME NEW f \in [timed_out : BOOLEAN, kill_fired : BOOLEAN]
    PROVE  /\ ExitedArgs(f) \in {"Natural", "TimedOut", "CancelRequested"}
           /\ ResultOf(f) \in {"Ok", "TimedOut", "Cancelled"}
           /\ ResultOf(f) = "TimedOut" <=> ExitedArgs(f) = "TimedOut"
           /\ ResultOf(f) = "Cancelled" <=> ExitedArgs(f) = "CancelRequested"
  <1>1. ReasonOf(f) \in ExitReasons
    BY DEF ReasonOf, ExitReasons
  <1>2. PICK code \in Int : Exited(f) = [kind |-> "Exited", code |-> code, reason |-> ReasonOf(f)]
    BY DEF Exited
  <1>3. Exited(f) \in Event /\ Exited(f).kind = "Exited" /\ Exited(f).reason = ReasonOf(f)
    BY <1>1, <1>2 DEF Event
  <1>4. ExitedArgs(f) = ReasonName[ReasonOf(f)]
    BY <1>3, EventsCrossTheAbi DEF ExitedArgs
  <1>5. CASE f.timed_out
    BY <1>4, <1>5 DEF ReasonOf, ResultOf, ReasonName
  <1>6. CASE ~f.timed_out /\ f.kill_fired
    BY <1>4, <1>6 DEF ReasonOf, ResultOf, ReasonName
  <1>7. CASE ~f.timed_out /\ ~f.kill_fired
    BY <1>4, <1>7 DEF ReasonOf, ResultOf, ReasonName
  <1> QED
    BY <1>5, <1>6, <1>7

\* Only a thread's own calls set its result.
LEMMA LastIsOwn ==
    ASSUME FfiTypeOK, NEW th \in Threads, Calls(th)
    PROVE  \A u \in Threads \ {th} : last'[u] = last[u]
  <1>1. last' = last \/ \E code : last' = [last EXCEPT ![th] = code]
    <2>1. CASE UNCHANGED ffiVars
      BY <2>1 DEF ffiVars
    <2>2. CASE TaskCall(th, obj)
      <3>1. CASE \/ aer_task_new(th, obj) \/ aer_task_free(th, obj) \/ aer_task_run(th, obj)
                 \/ \E h \in Handles : aer_task_make_cancel_handle(th, obj, h)
        BY <3>1 DEF aer_task_new, aer_task_free, aer_task_run, aer_task_make_cancel_handle,
                    map_aer_error, Returns
      <3>2. ASSUME NEW valid, NEW ACTION store, Configure(th, obj, valid, store)
            PROVE  \E code : last' = [last EXCEPT ![th] = code]
        BY <3>2 DEF Configure, Returns
      <3> QED
        BY <2>2, <3>1, <3>2
        DEF TaskCall, aer_task_with_timeout, aer_task_with_capture_output, aer_task_set_env,
            aer_task_set_clear_env, aer_task_set_cwd
    <2>3. CASE RunEnds(th)
      BY <2>3 DEF RunEnds, RunEndsWith, map_aer_error, Returns
    <2>4. CASE \E h \in Handles : aer_cancel(th, h) \/ aer_cancel_free(th, h)
      BY <2>4 DEF aer_cancel, aer_cancel_free, Returns
    <2> QED
      BY <2>1, <2>2, <2>3, <2>4 DEF Calls
  <1> QED
    BY <1>1 DEF FfiTypeOK

\* A run that is told nothing new.
LEMMA ToldStays ==
    ASSUME NEW r \in Runners, Told(r), thrown'[r] = thrown[r], raised'[r] = raised[r],
           pc'[r] \in {"leave run", "throw"} =>
                pc[r] \in {"leave run", "throw"} /\ last'[r] = last[r],
           pc'[r] \notin {"leave run", "throw"} \union Ended =>
                pc[r] \notin {"leave run", "throw"} \union Ended,
           pc'[r] \notin Ended => pc[r] \notin Ended
    PROVE  Told(r)'
  BY DEF Told

\* A run learns nothing from the steps of other threads ...
LEMMA ToldByOthers ==
    ASSUME FfiTypeOK, NEW th \in Threads, Calls(th), NEW r \in Runners \ {th}, Told(r),
           thrown'[r] = thrown[r], raised'[r] = raised[r], pc'[r] = pc[r]
    PROVE  Told(r)'
  <1>1. last'[r] = last[r]
    BY LastIsOwn, Kinds
  <1> QED
    BY <1>1, ToldStays

\* ... and an exception that is not the run's is no reason and no result.
LEMMA ToldRefused ==
    ASSUME BindingTypeOK, ToldInv, NEW r \in Runners, pc[r] \notin {"leave run", "throw"} \union Ended,
           NEW to \in {"finally", "done"}, Goto(r, to), raised' = raised,
           NEW type \in {"ObjectDisposedException", "InvalidOperationException"},
           Throws(r, type, None, None)
    PROVE  Told(r)'
  <1>1. pc'[r] = to /\ to \in Ended
    BY Moved, Kinds DEF Places, Ended
  <1>2. raised'[r] = None
    BY DEF ToldInv, Told
  <1> DEFINE x == [type |-> type, code |-> None, message |-> None]
  <1>3. thrown'[r] = x
    BY DEF Throws, ToldInv
  <1>4. x.type = type /\ x.message = None /\ x.code = None
    OBVIOUS
  <1> HIDE DEF x
  <1>5. raised'[r] \notin {"TimedOut", "CancelRequested"}
    BY <1>2, DotnetAssumption
  <1>6. to \notin {"leave run", "throw"}
    OBVIOUS
  <1> QED
    BY <1>1, <1>3, <1>4, <1>5, <1>6 DEF Told

\* A native run that does not start leaves a result that has no Exited event.
LEMMA ToldOfStart ==
    ASSUME BindingTypeOK, FfiTypeOK, ToldInv, NEW r \in Runners, RunNative(r)
    PROVE  Told(r)'
  <1>1. r \in Threads /\ Told(r) /\ thrown' = thrown /\ raised' = raised /\ pc[r] = "run"
    BY Kinds DEF ToldInv, RunNative, Native, callVars, At
  <1>2. CASE running'[r] # <<>>
    <2>1. pc'[r] = "running"
      BY <1>1, <1>2, Moved DEF RunNative, Native, Places, InTask
    <2> QED
      BY <1>1, <2>1, ToldStays DEF Ended
  <1>3. CASE running'[r] = <<>>
    <2>1. pc'[r] = "leave run"
      BY <1>1, <1>3, Moved DEF RunNative, Native, Places
    <2>2. running' # [running EXCEPT ![r] = Append(@, obj)]
      <3>1. running[r] \in Seq(Tasks) /\ obj \in Tasks
        BY <1>1, DotnetAssumption DEF FfiTypeOK
      <3>2. Append(running[r], obj) # <<>>
        BY <3>1
      <3> QED
        BY <1>1, <1>3, <3>2 DEF FfiTypeOK
    <2>3. PICK code \in {"SpawnFailed", "Rejected"} : last' = [last EXCEPT ![r] = code]
      BY <2>2 DEF RunNative, aer_task_run, map_aer_error, Returns
    <2>4. last'[r] = code /\ code \in Codes \ {"Ok", "TimedOut", "Cancelled"}
      BY <1>1, <2>3 DEF FfiTypeOK, Codes, RunErrors
    <2>5. raised[r] = None /\ thrown[r] = None
      BY <1>1 DEF Told, Ended
    <2> QED
      BY <1>1, <2>1, <2>4, <2>5, DotnetAssumption DEF Told, Ended
  <1> QED
    BY <1>2, <1>3

\* A native run that ends leaves a result and the Exited event for it, or a
\* failure and no event.
LEMMA ToldOfEnd ==
    ASSUME BindingTypeOK, FfiTypeOK, ToldInv, NEW r \in Runners, RunReturnsNative(r)
    PROVE  /\ Told(r)' /\ raised' \in [Runners -> {"Natural", "TimedOut", "CancelRequested", None}]
           /\ raised' = raised \/ \E x : raised' = [raised EXCEPT ![r] = x]
  <1>1. /\ r \in Threads /\ Told(r) /\ thrown' = thrown /\ pc[r] = "running"
        /\ raised[r] = None /\ thrown[r] = None
    BY Kinds DEF ToldInv, RunReturnsNative, At, Told, Ended
  <1>2. pc'[r] = "leave run"
    BY <1>1, Moved DEF RunReturnsNative, Places
  <1>3. ASSUME NEW result, RunEndsWith(r, result) PROVE last'[r] = result
    <2>1. last' = [last EXCEPT ![r] = result]
      BY <1>3 DEF RunEndsWith, map_aer_error, Returns
    <2> QED
      BY <1>1, <2>1 DEF FfiTypeOK
  <1>4. PICK f \in [timed_out : BOOLEAN, kill_fired : BOOLEAN] :
            \/ RunEndsWith(r, ResultOf(f)) /\ raised' = [raised EXCEPT ![r] = ExitedArgs(f)]
            \/ (\E failure \in Failures : RunEndsWith(r, failure)) /\ UNCHANGED raised
    BY DEF RunReturnsNative, Flags
  <1>5. CASE RunEndsWith(r, ResultOf(f)) /\ raised' = [raised EXCEPT ![r] = ExitedArgs(f)]
    <2>1. last'[r] = ResultOf(f) /\ ResultOf(f) \in Codes
      BY <1>3, <1>5, ExitedArgsAre DEF Codes, RunErrors
    <2>2. /\ raised' \in [Runners -> {"Natural", "TimedOut", "CancelRequested", None}]
          /\ raised'[r] = ExitedArgs(f)
      BY <1>5, ExitedArgsAre DEF ToldInv
    <2>3. Told(r)'
      BY <1>1, <1>2, <2>1, <2>2, ExitedArgsAre DEF Told, Ended
    <2> QED
      BY <1>5, <2>2, <2>3
  <1>6. CASE (\E failure \in Failures : RunEndsWith(r, failure)) /\ UNCHANGED raised
    <2>1. last'[r] \in Failures
      BY <1>3, <1>6
    <2>2. last'[r] \in Codes \ {"TimedOut", "Cancelled"}
      BY <2>1 DEF Failures, Codes, RunErrors
    <2>3. Told(r)'
      BY <1>1, <1>2, <1>6, <2>2, DotnetAssumption DEF Told, Ended
    <2> QED
      BY <1>6, <2>3 DEF ToldInv
  <1> QED
    BY <1>4, <1>5, <1>6

\* What BuildRunException makes of a result: AerErrorCode's numbers lead to the
\* code that was returned, and the switch to the class that stands for it.
LEMMA ExceptionOfResult ==
    ASSUME NEW r \in Runners, last[r] \in Codes
    PROVE  LET e == RunException(RunResult(r)) IN
           /\ RunResult(r) = IF last[r] = "Rejected" THEN "AlreadyRun" ELSE last[r]
           /\ e.code = RunResult(r)
           /\ e.type \in {"AerException", "AerTimeoutException", "AerCancelException"}
           /\ e.type = "AerTimeoutException" <=> last[r] = "TimedOut"
           /\ e.type = "AerCancelException" <=> last[r] = "Cancelled"
  <1> DEFINE c == IF last[r] = "Rejected" THEN "AlreadyRun" ELSE last[r]
  <1>1. c \in {"Ok", "SpawnFailed", "WaitFailed", "TimedOut", "Cancelled", "Panic", "AlreadyRun"}
    BY DEF Codes, RunErrors
  <1>2. c = "TimedOut" <=> last[r] = "TimedOut"
    OBVIOUS
  <1>3. c = "Cancelled" <=> last[r] = "Cancelled"
    OBVIOUS
  <1>4. RunResult(r) = AerErrorCode(ErrorNumber[c])
    BY DEF RunResult
  <1> HIDE DEF c
  <1>5. c \in DOMAIN ErrorNumber
    BY <1>1 DEF ErrorNumber
  <1>6. RunResult(r) = c
    BY <1>4, <1>5, CodesCrossTheAbi
  <1>7. /\ RunException(c).code = c
        /\ RunException(c).type \in {"AerException", "AerTimeoutException", "AerCancelException"}
        /\ RunException(c).type = "AerTimeoutException" <=> c = "TimedOut"
        /\ RunException(c).type = "AerCancelException" <=> c = "Cancelled"
    BY <1>1 DEF RunException
  <1> QED
    BY <1>2, <1>3, <1>6, <1>7 DEF c

\* The exception of a run is made of its result and its message.
LEMMA ToldOfException ==
    ASSUME BindingTypeOK, FfiTypeOK, RunErrorIsExplained, ToldInv, NEW r \in Runners,
           BuildRunException(r)
    PROVE  /\ Told(r)' /\ thrown'[r].type # "ObjectDisposedException"
           /\ thrown' \in [Runners -> Exceptions \union {None}]
           /\ \E x : thrown' = [thrown EXCEPT ![r] = x]
  <1>1. r \in Threads /\ Told(r) /\ raised' = raised /\ pc[r] = "throw"
    BY Kinds DEF ToldInv, BuildRunException, At
  <1>2. pc'[r] = "finally"
    BY <1>1, Moved DEF BuildRunException, Places
  <1>3. /\ last[r] \in Codes
        /\ last[r] = "TimedOut" <=> raised[r] = "TimedOut"
        /\ last[r] = "Cancelled" <=> raised[r] = "CancelRequested"
    BY <1>1 DEF Told
  <1>4. last_error[r] \in RunErrors \union {None} /\ (last[r] \in RunErrors => last_error[r] = last[r])
    BY <1>1 DEF FfiTypeOK, RunErrorIsExplained
  <1>5. RunResult(r) = IF last[r] = "Rejected" THEN "AlreadyRun" ELSE last[r]
    BY <1>3, ExceptionOfResult
  <1>6. ASSUME NEW x \in Exceptions, thrown' = [thrown EXCEPT ![r] = x],
               x.type # "ObjectDisposedException",
               x.code \in RunErrors => x.message = x.code,
               x.type = "AerTimeoutException" <=> last[r] = "TimedOut",
               x.type = "AerCancelException" <=> last[r] = "Cancelled"
        PROVE  /\ Told(r)' /\ thrown'[r].type # "ObjectDisposedException"
               /\ thrown' \in [Runners -> Exceptions \union {None}]
               /\ \E y : thrown' = [thrown EXCEPT ![r] = y]
    <2>1. thrown'[r] = x
      BY <1>6 DEF ToldInv
    <2>2. thrown' \in [Runners -> Exceptions \union {None}]
      BY <1>6 DEF ToldInv
    <2>3. Told(r)'
      BY <1>1, <1>2, <1>3, <1>6, <2>1 DEF Told, Ended
    <2> QED
      BY <1>6, <2>1, <2>2, <2>3
  <1>7. CASE RunResult(r) = "Ok"
    <2> DEFINE x == [type |-> "none", code |-> "Ok", message |-> None]
    <2>1. thrown' = [thrown EXCEPT ![r] = x]
      BY <1>7 DEF BuildRunException, Throws
    <2>2. x \in Exceptions
      BY DEF Exceptions, ErrorCodes
    <2>3. last[r] = "Ok" /\ x.code \notin RunErrors
      BY <1>5, <1>7 DEF RunErrors
    <2>4. x.type = "none"
      OBVIOUS
    <2> HIDE DEF x
    <2> QED
      BY <1>6, <2>1, <2>2, <2>3, <2>4
  <1>8. CASE RunResult(r) # "Ok"
    <2> DEFINE e == RunException(RunResult(r))
               x == [type |-> e.type, code |-> e.code, message |-> last_error[r]]
    <2>1. thrown' = [thrown EXCEPT ![r] = x]
      BY <1>8 DEF BuildRunException, Throws
    <2>2. /\ e.code = RunResult(r)
          /\ e.type \in {"AerException", "AerTimeoutException", "AerCancelException"}
          /\ e.type = "AerTimeoutException" <=> last[r] = "TimedOut"
          /\ e.type = "AerCancelException" <=> last[r] = "Cancelled"
      BY <1>3, ExceptionOfResult
    <2>3. e.code \in ErrorCodes /\ (e.code \in RunErrors => last_error[r] = e.code)
      BY <1>3, <1>4, <1>5, <2>2 DEF ErrorCodes, Codes, RunErrors
    <2> HIDE DEF e
    <2>4. x \in Exceptions
      BY <1>4, <2>2, <2>3 DEF Exceptions
    <2>5. x.type = e.type /\ x.code = e.code /\ x.message = last_error[r]
      OBVIOUS
    <2> HIDE DEF x
    <2> QED
      BY <1>6, <2>1, <2>2, <2>3, <2>4, <2>5
  <1> QED
    BY <1>7, <1>8

\* The steps of a run tell that run, and no other, how it ended.
LEMMA RunnerTells ==
    ASSUME ControlInv, FfiTypeOK, RunErrorIsExplained, ToldInv, NEW r \in Runners,
           Run(r) \/ RunStep(r)
    PROVE  ToldInv'
  <1> USE DEF callVars, At
  <1>0. /\ r \in Threads /\ BindingTypeOK /\ ClaimInv /\ Told(r)
        /\ raised \in [Runners -> {"Natural", "TimedOut", "CancelRequested", None}]
        /\ thrown \in [Runners -> Exceptions \union {None}]
    BY Kinds DEF ControlInv, ToldInv
  <1>1. ASSUME NEW type \in {"ObjectDisposedException", "InvalidOperationException"},
               Throws(r, type, None, None)
        PROVE  thrown' \in [Runners -> Exceptions \union {None}]
    <2>1. [type |-> type, code |-> None, message |-> None] \in Exceptions
      BY DEF Exceptions
    <2> QED
      BY <1>0, <1>1, <2>1 DEF Throws
  <1>2. /\ Told(r)'
        /\ raised' = raised \/ \E x : raised' = [raised EXCEPT ![r] = x]
        /\ thrown' = thrown \/ \E x : thrown' = [thrown EXCEPT ![r] = x]
        /\ raised' \in [Runners -> {"Natural", "TimedOut", "CancelRequested", None}]
        /\ thrown' \in [Runners -> Exceptions \union {None}]
        /\ \E to \in Places : Goto(r, to)
    <2>1. CASE Run(r)
      <3>1. raised' = raised /\ pc[r] = "idle"
        BY <2>1 DEF Run
      <3>2. CASE Goto(r, "claim") /\ UNCHANGED thrown
        <4>1. pc'[r] = "claim"
          BY <1>0, <3>2, Moved, PlacesNamed
        <4>2. Told(r)'
          BY <1>0, <3>1, <3>2, <4>1, ToldStays DEF Ended
        <4> QED
          BY <1>0, <3>1, <3>2, <4>2, PlacesNamed
      <3>3. CASE Goto(r, "done") /\ Throws(r, "ObjectDisposedException", None, None)
        <4>1. Told(r)'
          BY <1>0, <3>1, <3>3, ToldRefused DEF Ended
        <4> QED
          BY <1>0, <1>1, <3>1, <3>3, <4>1, PlacesNamed DEF Throws
      <3> QED
        BY <2>1, <3>2, <3>3 DEF Run
    <2>2. CASE Claim(r)
      <3>1. raised' = raised /\ pc[r] = "claim"
        BY <2>2 DEF Claim
      <3>2. ASSUME NEW to \in {"enter make", "enter run"}, Goto(r, to), UNCHANGED thrown
            PROVE  pc'[r] = to /\ to \in Places /\ Told(r)'
        <4>1. pc'[r] = to /\ to \in Places
          BY <1>0, <3>2, Moved DEF Places
        <4> QED
          BY <1>0, <3>1, <3>2, <4>1, ToldStays DEF Ended
      <3>3. CASE Goto(r, "done") /\ Throws(r, "InvalidOperationException", None, None)
        <4>1. Told(r)'
          BY <1>0, <3>1, <3>3, ToldRefused DEF Ended
        <4> QED
          BY <1>0, <1>1, <3>1, <3>3, <4>1, PlacesNamed DEF Throws
      <3>4. CASE \/ Goto(r, "done") /\ Throws(r, "InvalidOperationException", None, None)
                 \/ \E to \in {"enter make", "enter run"} : Goto(r, to) /\ UNCHANGED thrown
        BY <1>0, <3>1, <3>2, <3>3, <3>4
      <3> QED
        BY <2>2, <3>4 DEF Claim
    <2>3. CASE RunDisposed(r)
      <3>1. /\ raised' = raised /\ Goto(r, "finally") /\ Throws(r, "ObjectDisposedException", None, None)
            /\ pc[r] \in {"enter make", "enter run", "enter cancel"}
        BY <2>3 DEF RunDisposed
      <3>2. Told(r)'
        BY <1>0, <3>1, ToldRefused DEF Ended
      <3> QED
        BY <1>0, <1>1, <3>1, <3>2, PlacesNamed DEF Throws, Runs, Registered
    <2>4. CASE RunNative(r)
      <3>1. \E to \in Places : Goto(r, to)
        BY <2>4 DEF RunNative, Native, Places, InTask
      <3>2. thrown' = thrown /\ raised' = raised
        BY <2>4 DEF RunNative, Native
      <3> QED
        BY <1>0, <2>4, <3>1, <3>2, ToldOfStart
    <2>5. CASE RunReturnsNative(r)
      <3>1. Goto(r, "leave run") /\ thrown' = thrown
        BY <2>5 DEF RunReturnsNative
      <3>2. "leave run" \in Places
        BY DEF Places
      <3> QED
        BY <1>0, <2>5, <3>1, <3>2, ToldOfEnd
    <2>6. CASE BuildRunException(r)
      <3>1. Goto(r, "finally") /\ raised' = raised
        BY <2>6 DEF BuildRunException
      <3>2. "finally" \in Places
        BY DEF Places
      <3> QED
        BY <1>0, <2>6, <3>1, <3>2, ToldOfException
    <2>7. CASE Leave(r, "leave run", obj, "throw")
      <3>1. pc[r] = "leave run" /\ pc'[r] = "throw" /\ thrown' = thrown /\ raised' = raised
        BY <1>0, <2>7, Moved DEF Leave, Places
      <3>2. last' = last
        BY <2>7 DEF Leave, Release, aer_task_free, ffiVars, aer_cancel_free
      <3>3. Told(r)'
        BY <1>0, <3>1, <3>2, ToldStays DEF Ended
      <3> QED
        BY <1>0, <2>7, <3>1, <3>3 DEF Leave, Places
    <2>8. ASSUME NEW from \in Places, NEW to \in Places, pc[r] = from, Goto(r, to),
                 thrown' = thrown, raised' = raised,
                 \/ /\ from \notin {"leave run", "throw"} \union Ended
                    /\ to \notin {"leave run", "throw"} \union Ended
                 \/ from \in Ended /\ to \in Ended
          PROVE  Told(r)'
      <3>1. pc'[r] = to
        BY <1>0, <2>8, Moved
      <3> QED
        BY <1>0, <2>8, <3>1, ToldStays DEF Ended
    <2>9. CASE \/ Enter(r, "enter make", obj, "make") \/ Enter(r, "enter run", obj, "run")
               \/ Enter(r, "enter cancel", local[r], "cancel")
               \/ Leave(r, "leave make", obj, "publish")
               \/ Leave(r, "leave cancel", local[r], "enter run")
               \/ MakeNative(r) \/ CancelNative(r) \/ Publish(r) \/ Register(r)
      <3>1. thrown' = thrown /\ raised' = raised
        BY <2>9 DEF Enter, Leave, MakeNative, CancelNative, Native, Publish, Register
      <3>2. PICK to \in Claimed \union {"enter run", "run"} : Goto(r, to)
        BY <2>9 DEF Enter, Leave, MakeNative, CancelNative, Native, Publish, Register, Claimed,
                    Cancels
      <3>3. pc[r] \in Claimed \union {"enter run", "run"}
        BY <2>9 DEF Enter, Leave, MakeNative, CancelNative, Native, Publish, Register, Claimed,
                    Cancels
      <3>4. \A place \in Claimed \union {"enter run", "run"} :
                place \in Places /\ place \notin {"leave run", "throw"} \union Ended
        BY DEF Claimed, Cancels, Places, InTask, InCancel, Ended
      <3> QED
        BY <1>0, <2>8, <3>1, <3>2, <3>3, <3>4
    <2>10. CASE Unregister(r) \/ ClearField(r) \/ CloseLocal(r)
      <3>1. thrown' = thrown /\ raised' = raised
        BY <2>10 DEF Unregister, ClearField, CloseLocal
      <3>2. PICK from \in Places, to \in Places :
                pc[r] = from /\ Goto(r, to) /\ from \in Ended /\ to \in Ended
        BY <2>10 DEF Unregister, ClearField, CloseLocal, Places, Ended
      <3> QED
        BY <1>0, <2>8, <3>1, <3>2
    <2> QED
      BY <2>1, <2>2, <2>3, <2>4, <2>5, <2>6, <2>7, <2>9, <2>10 DEF RunStep
  <1>3. ASSUME NEW q \in Runners \ {r} PROVE Told(q)'
    <2>1. thrown'[q] = thrown[q] /\ raised'[q] = raised[q]
      BY <1>0, <1>2
    <2>2. pc'[q] = pc[q]
      BY <1>0, <1>2, Moved, Kinds
    <2> QED
      BY <1>0, <2>1, <2>2, ToldByOthers, RunnerCalls DEF ToldInv
  <1> QED
    BY <1>2, <1>3 DEF ToldInv

\* What every run is told stays what happened to it, whoever takes a step.
LEMMA ToldInvariance ==
    ASSUME ControlInv, FfiTypeOK, RunErrorIsExplained, ToldInv, [DotnetNext]_dotnetVars
    PROVE  ToldInv'
  <1>0. BindingTypeOK /\ PlaceInv
    BY DEF ControlInv
  <1>1. ASSUME NEW th \in Threads, Calls(th), thrown' = thrown, raised' = raised,
               \A u \in Threads \ {th} : pc'[u] = pc[u],
               th \in Runners =>
                    /\ pc[th] \notin {"leave run", "throw"} \union Ended
                    /\ pc'[th] \notin {"leave run", "throw"} \union Ended
        PROVE  ToldInv'
    <2>1. ASSUME NEW r \in Runners, r # th PROVE Told(r)'
      BY <1>1, <2>1, ToldByOthers, Kinds DEF ToldInv
    <2>2. ASSUME th \in Runners PROVE Told(th)'
      BY <1>1, <2>2, ToldStays DEF ToldInv, Ended
    <2> QED
      BY <1>1, <2>1, <2>2 DEF ToldInv
  <1>2. CASE UNCHANGED dotnetVars
    BY <1>2 DEF dotnetVars, ffiVars, callVars, ToldInv, Told
  <1>3. CASE Construct
    <2>1. UNCHANGED <<pc, thrown, raised>> /\ pc[Owner] = "idle"
      BY <1>3 DEF Construct, callVars, At
    <2> QED
      BY <1>1, <1>3, <2>1, CallerCalls, Kinds DEF Ended
  <1>4. CASE With \/ WithStep
    <2>1. thrown' = thrown /\ raised' = raised
      BY <1>4 DEF With, WithStep, WithNative, WithDisposed, Enter, Leave, Moves, Native, callVars
    <2>2. PICK from \in {"idle"} \union Configures, to \in {"idle"} \union Configures :
            pc[Owner] = from /\ Goto(Owner, to)
      BY <1>4 DEF With, WithStep, WithNative, WithDisposed, Enter, Leave, Moves, Native, At, Configures
    <2>3. pc'[Owner] = to /\ \A u \in Threads \ {Owner} : pc'[u] = pc[u]
      BY <1>0, <2>2, Moved, PlacesNamed, Kinds
    <2> QED
      BY <1>1, <1>4, <2>1, <2>2, <2>3, CallerCalls, Kinds DEF Ended, Configures
  <1>5. ASSUME NEW d \in Disposers, Dispose(d) \/ DisposeStep(d) PROVE ToldInv'
    <2>1. thrown' = thrown /\ raised' = raised
      BY <1>5 DEF Dispose, DisposeStep, ReadField, CloseSeen, CloseTask, callVars
    <2>2. PICK to \in Places : Goto(d, to)
      BY <1>5 DEF Dispose, DisposeStep, ReadField, CloseSeen, CloseTask, Places
    <2> QED
      BY <1>0, <1>1, <1>5, <2>1, <2>2, DisposerCalls, Moved, Kinds
  <1>6. CASE Cancel \/ SourceStep
    <2>1. thrown' = thrown /\ raised' = raised
      BY <1>6 DEF Cancel, SourceStep, Notify, NoMore, Enter, CallbackDisposed, CancelNative, Called,
                  Moves, Native, callVars
    <2>2. PICK to \in Places : Goto(Source, to)
      BY <1>6 DEF Cancel, SourceStep, Notify, NoMore, Enter, CallbackDisposed, CallbackOver,
                  CancelNative, Called, Moves, Native, Places, InCancel
    <2> QED
      BY <1>0, <1>1, <1>6, <2>1, <2>2, SourceCalls, Moved, Kinds
  <1>7. ASSUME NEW r \in Runners, Run(r) \/ RunStep(r) PROVE ToldInv'
    BY <1>7, RunnerTells
  <1> QED
    BY <1>2, <1>3, <1>4, <1>5, <1>6, <1>7 DEF DotnetNext, Begin, Proceed

\* The invariant of what a run is told, with the control and the ABI's own
\* invariants that it rests on.
THEOREM TellsTheTruth == DotnetSpec => [](ControlInv /\ FfiTypeOK /\ ToldInv)
  <1> DEFINE Inv == ControlInv /\ FfiTypeOK /\ RunErrorIsExplained
  <1>1. DotnetSpec => []Inv
    <2>1. DotnetInit => ControlInv
      BY ControlInit
    <2>2. ControlInv /\ [DotnetNext]_dotnetVars => ControlInv'
      BY ControlInvariance
    <2>3. DotnetSpec => [](FfiTypeOK /\ RunErrorIsExplained)
      BY BindingCallsTheAbi, FfiTyped, FfiInvariant, PTL
    <2> QED
      BY <2>1, <2>2, <2>3, PTL DEF DotnetSpec
  <1>2. DotnetInit => ToldInv
    <2> SUFFICES ASSUME DotnetInit PROVE ToldInv
      OBVIOUS
    <2>1. \A r \in Runners : pc[r] = "idle" /\ raised[r] = None /\ thrown[r] = None
      BY Kinds DEF DotnetInit
    <2>2. \A r \in Runners : Told(r)
      BY <2>1 DEF Told, Ended
    <2> QED
      BY <2>2 DEF ToldInv, DotnetInit
  <1>3. Inv /\ ToldInv /\ [DotnetNext]_dotnetVars => ToldInv'
    BY ToldInvariance
  <1> QED
    BY <1>1, <1>2, <1>3, PTL DEF DotnetSpec

\* The exception of a failed run carries the message of that failure, although
\* BuildRunException reads it after the release of the task and other threads
\* use the ABI in the meantime.
THEOREM FailuresAreExplained == DotnetSpec => []RunFailureExplained
  <1>1. ToldInv => RunFailureExplained
    BY DEF ToldInv, Told, RunFailureExplained
  <1> QED
    BY <1>1, TellsTheTruth, PTL

-----------------------------------------------------------------------------
(* The references of the SafeHandles. *)

\* How many threads are in a P/Invoke on h, when one thread moves.
LEMMA CountMoves ==
    ASSUME NEW th \in Threads, NEW h,
           \A u \in Threads \ {th} : pc'[u] = pc[u] /\ local'[u] = local[u]
    PROVE  /\ Cardinality(Holders(h)) \in Nat /\ Cardinality(Holders(h)') \in Nat
           /\ (Holds(th, h) <=> Holds(th, h)') => Cardinality(Holders(h)') = Cardinality(Holders(h))
           /\ ~Holds(th, h) /\ Holds(th, h)' =>
                Cardinality(Holders(h)') = Cardinality(Holders(h)) + 1
           /\ Holds(th, h) /\ ~Holds(th, h)' =>
                Cardinality(Holders(h)') = Cardinality(Holders(h)) - 1
  <1>1. IsFiniteSet(Threads) /\ Holders(h) \subseteq Threads /\ Holders(h)' \subseteq Threads
    BY DotnetAssumption DEF Holders
  <1>2. /\ IsFiniteSet(Holders(h)) /\ IsFiniteSet(Holders(h)')
        /\ Cardinality(Holders(h)) \in Nat /\ Cardinality(Holders(h)') \in Nat
    BY <1>1, FS_Subset, FS_CardinalityType
  <1>3. \A u \in Threads \ {th} : Holds(u, h)' <=> Holds(u, h)
    BY DEF Holds
  <1>4. CASE Holds(th, h) <=> Holds(th, h)'
    <2>1. Holders(h)' = Holders(h)
      BY <1>3, <1>4 DEF Holders
    <2> QED
      BY <1>2, <1>4, <2>1
  <1>5. CASE ~Holds(th, h) /\ Holds(th, h)'
    <2>1. Holders(h)' = Holders(h) \union {th} /\ th \notin Holders(h)
      BY <1>3, <1>5 DEF Holders
    <2>2. Cardinality(Holders(h)') = Cardinality(Holders(h)) + 1
      BY <1>2, <2>1, FS_AddElement
    <2> QED
      BY <1>2, <1>5, <2>2
  <1>6. CASE Holds(th, h) /\ ~Holds(th, h)'
    <2>1. Holders(h)' = Holders(h) \ {th} /\ th \in Holders(h)
      BY <1>3, <1>6 DEF Holders
    <2>2. Cardinality(Holders(h)') = Cardinality(Holders(h)) - 1
      BY <1>2, <2>1, FS_RemoveElement
    <2> QED
      BY <1>2, <1>6, <2>2
  <1> QED
    BY <1>2, <1>4, <1>5, <1>6 DEF Holds

\* What the ABI has given out it never takes back for another use.
LEMMA MadeStays ==
    ASSUME FfiTypeOK, NEW th \in Threads, Calls(th), NEW h \in Safe, Made(h)
    PROVE  Made(h)'
  <1>1. /\ None # "live" /\ None # Freed /\ None # obj /\ obj \in Tasks
        /\ \A g \in Handles : g # obj
    BY FfiAssumption, DotnetAssumption
  <1>2. task' = task \/ \E x \in {"live", Freed} : task' = [task EXCEPT ![obj] = x]
    <2>1. CASE TaskCall(th, obj)
      BY <2>1 DEF TaskCall, aer_task_new, aer_task_free, aer_task_run, aer_task_make_cancel_handle,
                  aer_task_with_timeout, aer_task_with_capture_output, aer_task_set_env,
                  aer_task_set_clear_env, aer_task_set_cwd, Configure
    <2>2. CASE ~TaskCall(th, obj)
      BY <2>2 DEF Calls, RunEnds, RunEndsWith, aer_cancel, aer_cancel_free, taskVars, ffiVars
    <2> QED
      BY <2>1, <2>2
  <1>3. box' = box \/ \E x \in {obj, Freed}, g \in Handles : box' = [box EXCEPT ![g] = x]
    <2>1. CASE TaskCall(th, obj)
      BY <2>1 DEF TaskCall, aer_task_new, aer_task_free, aer_task_run, aer_task_make_cancel_handle,
                  aer_task_with_timeout, aer_task_with_capture_output, aer_task_set_env,
                  aer_task_set_clear_env, aer_task_set_cwd, Configure
    <2>2. CASE ~TaskCall(th, obj)
      BY <2>2 DEF Calls, RunEnds, RunEndsWith, aer_cancel, aer_cancel_free, ffiVars
    <2> QED
      BY <2>1, <2>2
  <1>4. CASE h = obj
    BY <1>1, <1>2, <1>4 DEF Made, FfiTypeOK
  <1>5. CASE h # obj
    <2>1. h \in Handles
      BY <1>5, DotnetAssumption DEF Safe
    <2> QED
      BY <1>1, <1>3, <1>5, <2>1 DEF Made, FfiTypeOK
  <1> QED
    BY <1>4, <1>5

\* The release of a SafeHandle: the last one frees it, and touches no other.
LEMMA ReleaseFrees ==
    ASSUME BindingTypeOK, FfiTypeOK, NEW th \in Threads, NEW h \in Safe, Release(th, h),
           Live(h), refs[h] > 0
    PROVE  /\ refs'[h] = refs[h] - 1 /\ Made(h) /\ Made(h)' /\ (Live(h)' <=> refs'[h] > 0)
           /\ \A g \in Safe \ {h} : refs'[g] = refs[g] /\ Made(g)' = Made(g) /\ Live(g)' = Live(g)
           /\ running' = running
  <1>1. /\ None # "live" /\ Freed # "live" /\ None # Freed /\ Freed # obj /\ None # obj
        /\ obj \in Tasks /\ obj \notin Handles
    BY FfiAssumption, DotnetAssumption
  <1>2. refs'[h] = refs[h] - 1 /\ \A g \in Safe \ {h} : refs'[g] = refs[g]
    BY DEF Release, BindingTypeOK
  <1>3. refs[h] \in Int
    BY DEF BindingTypeOK
  <1>4. CASE refs[h] # 1
    <2>1. task' = task /\ box' = box /\ running' = running
      BY <1>4 DEF Release, ffiVars, taskVars, runVars
    <2>2. \A g \in Safe : Made(g)' = Made(g) /\ Live(g)' = Live(g)
      BY <2>1 DEF Made, Live
    <2>3. Made(h)
      BY <1>1 DEF Made, Live
    <2> QED
      BY <1>2, <1>3, <1>4, <2>1, <2>2, <2>3
  <1>5. CASE refs[h] = 1 /\ h = obj
    <2>1. task' = [task EXCEPT ![obj] = Freed] /\ box' = box /\ running' = running
      BY <1>5 DEF Release, aer_task_free, runVars
    <2>2. task'[obj] = Freed
      BY <1>1, <2>1 DEF FfiTypeOK
    <2>3. \A g \in Safe \ {h} : Made(g)' = Made(g) /\ Live(g)' = Live(g)
      BY <1>5, <2>1 DEF Made, Live
    <2>4. Made(h) /\ Made(h)' /\ ~Live(h)'
      BY <1>1, <1>5, <2>2 DEF Made, Live
    <2> QED
      BY <1>2, <1>5, <2>1, <2>3, <2>4
  <1>6. CASE refs[h] = 1 /\ h # obj
    <2>1. box' = [box EXCEPT ![h] = Freed] /\ task' = task /\ running' = running
      BY <1>6 DEF Release, aer_cancel_free, taskVars, runVars
    <2>2. h \in Handles
      BY <1>6, DotnetAssumption DEF Safe
    <2>3. box'[h] = Freed /\ \A g \in Handles \ {h} : box'[g] = box[g]
      BY <2>1, <2>2 DEF FfiTypeOK
    <2>4. \A g \in Safe \ {h} : Made(g)' = Made(g) /\ Live(g)' = Live(g)
      <3>1. \A g \in Safe : g # obj => g \in Handles
        BY DotnetAssumption DEF Safe
      <3> QED
        BY <2>1, <2>3, <3>1 DEF Made, Live
    <2>5. Made(h) /\ Made(h)' /\ ~Live(h)'
      BY <1>1, <1>6, <2>3 DEF Made, Live
    <2> QED
      BY <1>2, <1>6, <2>1, <2>4, <2>5
  <1> QED
    BY <1>4, <1>5, <1>6

\* A step of one thread, which may change that thread's place and variable.
OnlyMoves(th) == \A u \in Threads \ {th} : pc'[u] = pc[u] /\ local'[u] = local[u]

\* A handle that a step does not touch.
LEMMA UntouchedCounts ==
    ASSUME NEW th \in Threads, OnlyMoves(th), NEW h \in Safe, Counted(h),
           refs'[h] = refs[h], closed'[h] = closed[h], Made(h)' = Made(h), Live(h)' = Live(h),
           Holds(th, h)' <=> Holds(th, h)
    PROVE  Counted(h)'
  <1>1. Cardinality(Holders(h)') = Cardinality(Holders(h))
    BY CountMoves DEF OnlyMoves
  <1>2. Owned(h)' = Owned(h)
    BY DEF Owned
  <1> QED
    BY <1>1, <1>2 DEF Counted

\* The add-ref of a P/Invoke, ...
LEMMA EnterCounts ==
    ASSUME BindingTypeOK, RefInv, NEW th \in Threads, OnlyMoves(th), NEW h \in Safe, AddRef(h),
           task' = task, box' = box, closed' = closed,
           \A g \in Safe : ~Holds(th, g), \A g \in Safe : Holds(th, g)' <=> g = h
    PROVE  RefInv'
  <1>1. \A g \in Safe : Made(g)' = Made(g) /\ Live(g)' = Live(g)
    BY DEF Made, Live
  <1>2. /\ refs'[h] = refs[h] + 1 /\ refs[h] > 0 /\ refs[h] \in Int
        /\ \A g \in Safe \ {h} : refs'[g] = refs[g]
    BY DEF AddRef, BindingTypeOK
  <1>3. ASSUME NEW g \in Safe, g # h PROVE Counted(g)'
    <2>1. Holds(th, g)' <=> Holds(th, g)
      BY <1>3
    <2> QED
      BY <1>1, <1>2, <1>3, <2>1, UntouchedCounts DEF RefInv
  <1>4. Counted(h)'
    <2>1. Cardinality(Holders(h)) \in Nat /\ Cardinality(Holders(h)') = Cardinality(Holders(h)) + 1
      BY CountMoves DEF OnlyMoves
    <2>2. Owned(h)' = Owned(h) /\ Owned(h) \in {0, 1}
      BY <1>1 DEF Owned
    <2>3. refs'[h] = Owned(h)' + Cardinality(Holders(h)')
      BY <1>2, <2>1, <2>2 DEF RefInv, Counted
    <2>4. Live(h)' <=> refs'[h] > 0
      BY <1>1, <1>2 DEF RefInv, Counted
    <2> QED
      BY <1>1, <2>3, <2>4 DEF RefInv, Counted
  <1> QED
    BY <1>3, <1>4 DEF RefInv

\* ... its release, which frees what is closed and used by no other, ...
LEMMA LeaveCounts ==
    ASSUME BindingTypeOK, FfiTypeOK, RefInv, NEW th \in Threads, OnlyMoves(th), NEW h \in Safe,
           Release(th, h), closed' = closed,
           \A g \in Safe : Holds(th, g) <=> g = h, \A g \in Safe : ~Holds(th, g)'
    PROVE  RefInv' /\ running' = running /\ \A g \in Safe : Made(g)' <=> Made(g)
  <1>1. /\ Cardinality(Holders(h)') \in Nat /\ Cardinality(Holders(h)) \in Nat
        /\ Cardinality(Holders(h)') = Cardinality(Holders(h)) - 1
    BY CountMoves DEF OnlyMoves
  <1>2. Owned(h) \in {0, 1} /\ refs[h] = Owned(h) + Cardinality(Holders(h))
    BY DEF Owned, RefInv, Counted
  <1>3. refs[h] > 0 /\ Live(h)
    BY <1>1, <1>2 DEF RefInv, Counted
  <1>4. /\ refs'[h] = refs[h] - 1 /\ Made(h) /\ Made(h)' /\ (Live(h)' <=> refs'[h] > 0)
        /\ \A g \in Safe \ {h} : refs'[g] = refs[g] /\ Made(g)' = Made(g) /\ Live(g)' = Live(g)
        /\ running' = running
    BY <1>3, ReleaseFrees
  <1>5. ASSUME NEW g \in Safe, g # h PROVE Counted(g)'
    <2>1. Holds(th, g)' <=> Holds(th, g)
      BY <1>5
    <2> QED
      BY <1>4, <1>5, <2>1, UntouchedCounts DEF RefInv
  <1>6. Counted(h)'
    <2>1. Owned(h)' = Owned(h)
      BY <1>4 DEF Owned
    <2>2. refs'[h] = Owned(h)' + Cardinality(Holders(h)')
      BY <1>1, <1>2, <1>4, <2>1
    <2> QED
      BY <1>4, <2>2 DEF Counted
  <1> QED
    BY <1>4, <1>5, <1>6 DEF RefInv

\* ... and SafeHandle.Dispose, which gives up the owner's reference once.
LEMMA CloseCounts ==
    ASSUME BindingTypeOK, FfiTypeOK, RefInv, NEW th \in Threads, OnlyMoves(th), NEW h \in Safe,
           Close(th, h), Made(h), \A g \in Safe : ~Holds(th, g), \A g \in Safe : ~Holds(th, g)'
    PROVE  /\ RefInv' /\ running' = running /\ closed'[h]
           /\ \A g \in Safe \ {h} : closed'[g] = closed[g] /\ Made(g)' = Made(g)
  <1>0. \A g \in Safe : Holds(th, g)' <=> Holds(th, g)
    OBVIOUS
  <1>1. CASE closed[h]
    <2>1. /\ task' = task /\ box' = box /\ refs' = refs /\ closed' = closed /\ running' = running
      BY <1>1 DEF Close, ffiVars, taskVars, runVars, safeVars
    <2>2. \A g \in Safe : Made(g)' = Made(g) /\ Live(g)' = Live(g)
      BY <2>1 DEF Made, Live
    <2>3. ASSUME NEW g \in Safe PROVE Counted(g)'
      BY <1>0, <2>1, <2>2, <2>3, UntouchedCounts DEF RefInv
    <2> QED
      BY <1>1, <2>1, <2>2, <2>3 DEF RefInv
  <1>2. CASE ~closed[h]
    <2>1. Release(th, h) /\ closed' = [closed EXCEPT ![h] = TRUE]
      BY <1>2 DEF Close
    <2>2. closed'[h] /\ \A g \in Safe \ {h} : closed'[g] = closed[g]
      BY <2>1 DEF BindingTypeOK
    <2>3. /\ Cardinality(Holders(h)') = Cardinality(Holders(h)) /\ Cardinality(Holders(h)) \in Nat
      BY <1>0, CountMoves DEF OnlyMoves
    <2>4. Owned(h) = 1 /\ refs[h] = Owned(h) + Cardinality(Holders(h))
      BY <1>2 DEF Owned, RefInv, Counted
    <2>5. refs[h] > 0 /\ Live(h)
      BY <2>3, <2>4 DEF RefInv, Counted
    <2>6. /\ refs'[h] = refs[h] - 1 /\ Made(h)' /\ (Live(h)' <=> refs'[h] > 0)
          /\ \A g \in Safe \ {h} : refs'[g] = refs[g] /\ Made(g)' = Made(g) /\ Live(g)' = Live(g)
          /\ running' = running
      BY <2>1, <2>5, ReleaseFrees
    <2>7. ASSUME NEW g \in Safe, g # h PROVE Counted(g)'
      BY <1>0, <2>2, <2>6, <2>7, UntouchedCounts DEF RefInv
    <2>8. Counted(h)'
      <3>1. Owned(h)' = 0
        BY <2>2 DEF Owned
      <3>2. refs'[h] = Owned(h)' + Cardinality(Holders(h)')
        BY <2>3, <2>4, <2>6, <3>1
      <3> QED
        BY <2>6, <3>2 DEF Counted
    <2> QED
      BY <2>2, <2>6, <2>7, <2>8 DEF RefInv
  <1> QED
    BY <1>1, <1>2

\* What a thread holds, by its place.
LEMMA HoldsAt ==
    ASSUME NEW th
    PROVE  /\ pc[th] \notin UsesTask \union UsesCancel => \A g \in Safe : ~Holds(th, g)
           /\ pc'[th] \notin UsesTask \union UsesCancel => \A g \in Safe : ~Holds(th, g)'
           /\ pc[th] \in UsesTask => \A g \in Safe : Holds(th, g) <=> g = obj
           /\ pc'[th] \in UsesTask => \A g \in Safe : Holds(th, g)' <=> g = obj
           /\ pc[th] \in UsesCancel /\ local[th] \in Handles =>
                \A g \in Safe : Holds(th, g) <=> g = local[th]
           /\ pc'[th] \in UsesCancel /\ local'[th] \in Handles =>
                \A g \in Safe : Holds(th, g)' <=> g = local'[th]
  <1>1. UsesTask \intersect UsesCancel = {}
    BY DEF UsesTask, UsesCancel, InTask, InCancel
  <1>2. obj \notin Handles
    BY Kinds
  <1> QED
    BY <1>1, <1>2 DEF Holds

\* Every step is the step of one thread.
LEMMA StepsMoveOne ==
    ASSUME BindingTypeOK
    PROVE  /\ Construct \/ With \/ WithStep => OnlyMoves(Owner)
           /\ \A r \in Runners : Run(r) \/ RunStep(r) => OnlyMoves(r)
           /\ \A d \in Disposers : Dispose(d) \/ DisposeStep(d) => OnlyMoves(d)
           /\ Cancel \/ SourceStep => OnlyMoves(Source)
  <1> USE DEF callVars
  <1>1. ASSUME NEW th \in Threads, UNCHANGED <<pc, local>> PROVE OnlyMoves(th)
    BY <1>1 DEF OnlyMoves
  <1>2. ASSUME NEW th \in Threads, NEW to, Goto(th, to),
               local' = local \/ \E x : local' = [local EXCEPT ![th] = x]
        PROVE  OnlyMoves(th)
    BY <1>2 DEF OnlyMoves, BindingTypeOK, Goto
  <1>3. ASSUME Construct \/ With \/ WithStep PROVE OnlyMoves(Owner)
    BY <1>1, <1>2, <1>3, Kinds DEF Construct, With, WithStep, Enter, Leave, WithDisposed, WithNative,
                                   Moves, Native
  <1>4. ASSUME NEW r \in Runners, Run(r) \/ RunStep(r) PROVE OnlyMoves(r)
    <2>1. CASE Run(r) \/ Claim(r) \/ MakeNative(r) \/ Publish(r) \/ Register(r) \/ RunDisposed(r)
               \/ RunNative(r) \/ CancelNative(r) \/ RunReturnsNative(r)
      BY <1>2, <2>1, Kinds DEF Run, Claim, MakeNative, Publish, Register, RunDisposed, RunNative,
                               CancelNative, RunReturnsNative, Native
    <2>2. CASE BuildRunException(r) \/ Unregister(r) \/ ClearField(r) \/ CloseLocal(r)
      BY <1>2, <2>2, Kinds DEF BuildRunException, Unregister, ClearField, CloseLocal
    <2>3. ASSUME NEW from, NEW h, NEW to, Enter(r, from, h, to) \/ Leave(r, from, h, to)
          PROVE  OnlyMoves(r)
      BY <1>2, <2>3, Kinds DEF Enter, Leave
    <2> QED
      BY <1>4, <2>1, <2>2, <2>3 DEF RunStep
  <1>5. ASSUME NEW d \in Disposers, Dispose(d) \/ DisposeStep(d) PROVE OnlyMoves(d)
    BY <1>2, <1>5, Kinds DEF Dispose, DisposeStep, ReadField, CloseSeen, CloseTask
  <1>6. ASSUME Cancel \/ SourceStep PROVE OnlyMoves(Source)
    BY <1>2, <1>6, Kinds DEF Cancel, SourceStep, Notify, NoMore, Enter, CallbackDisposed,
                             CallbackOver, CancelNative, Called, Moves, Native
  <1> QED
    BY <1>3, <1>4, <1>5, <1>6

\* A step that touches no SafeHandle.
LEMMA QuietCounts ==
    ASSUME RefInv, NEW th \in Threads, OnlyMoves(th), refs' = refs, closed' = closed,
           task' = task, box' = box, \A g \in Safe : Holds(th, g)' <=> Holds(th, g)
    PROVE  RefInv'
  <1>1. \A g \in Safe : Made(g)' = Made(g) /\ Live(g)' = Live(g)
    BY DEF Made, Live
  <1>2. ASSUME NEW g \in Safe PROVE Counted(g)'
    BY <1>1, <1>2, UntouchedCounts DEF RefInv
  <1> QED
    BY <1>2 DEF RefInv

\* A new task has its owner's reference, ...
LEMMA ConstructCounts ==
    ASSUME ControlInv, FfiTypeOK, RefInv, Construct
    PROVE  RefInv'
  <1>0. /\ BindingTypeOK /\ Owner \in Threads /\ obj \in Safe /\ obj \in Tasks /\ None # "live"
        /\ \A g \in Safe : g # obj => g \in Handles
    BY Kinds, DotnetAssumption DEF ControlInv, Safe
  <1>1. OnlyMoves(Owner)
    BY <1>0, StepsMoveOne
  <1>2. /\ pc' = pc /\ local' = local /\ closed' = closed /\ box' = box /\ task[obj] = None
        /\ refs' = [refs EXCEPT ![obj] = IF task'[obj] = "live" THEN 1 ELSE 0]
    BY DEF Construct, Constructed, aer_task_new, callVars
  <1>3. \A g \in Safe : Holds(Owner, g)' <=> Holds(Owner, g)
    BY <1>2 DEF Holds
  <1>4. ASSUME NEW g \in Safe, g # obj PROVE Counted(g)'
    <2>1. refs'[g] = refs[g] /\ Made(g)' = Made(g) /\ Live(g)' = Live(g)
      BY <1>0, <1>2, <1>4 DEF Made, Live, BindingTypeOK
    <2> QED
      BY <1>0, <1>1, <1>2, <1>3, <2>1, UntouchedCounts DEF RefInv
  <1>5. Counted(obj)'
    <2>1. ~Made(obj) /\ ~Live(obj) /\ Counted(obj)
      BY <1>0, <1>2 DEF Made, Live, RefInv
    <2>2. ~closed[obj] /\ Owned(obj) = 0
      BY <2>1 DEF Counted, Owned
    <2>3. /\ Cardinality(Holders(obj)) \in Nat
          /\ Cardinality(Holders(obj)') = Cardinality(Holders(obj))
      BY <1>0, <1>1, <1>3, CountMoves DEF OnlyMoves
    <2>4. Cardinality(Holders(obj)') = 0
      BY <2>1, <2>2, <2>3 DEF Counted
    <2>5. CASE task'[obj] = "live"
      <3>1. refs'[obj] = 1 /\ Made(obj)' /\ Live(obj)' /\ ~closed'[obj]
        BY <1>0, <1>2, <2>2, <2>5 DEF Made, Live, BindingTypeOK
      <3> QED
        BY <2>4, <3>1 DEF Counted, Owned
    <2>6. CASE task'[obj] # "live"
      <3>1. task' = task
        BY <1>0, <2>6 DEF Construct, aer_task_new, FfiTypeOK
      <3>2. refs'[obj] = 0 /\ ~Made(obj)' /\ ~Live(obj)' /\ ~closed'[obj]
        BY <1>0, <1>2, <2>2, <2>6, <3>1 DEF Made, Live, BindingTypeOK
      <3> QED
        BY <2>4, <3>2 DEF Counted, Owned
    <2> QED
      BY <2>5, <2>6
  <1> QED
    BY <1>4, <1>5 DEF RefInv

\* ... and so has a new cancel handle.
LEMMA MakeCounts ==
    ASSUME ControlInv, FfiTypeOK, RefInv, NEW r \in Runners, MakeNative(r)
    PROVE  /\ RefInv' /\ running' = running
           /\ \E h \in Handles :
                /\ ~Made(h) /\ local'[r] = h /\ Made(h)'
                /\ \A g \in Safe \ {h} : Made(g)' = Made(g)
  <1>0. /\ BindingTypeOK /\ r \in Threads /\ obj \in Safe /\ Handles \subseteq Safe
        /\ obj \notin Handles /\ None # obj
    BY Kinds, FfiAssumption, DotnetAssumption DEF ControlInv
  <1>1. OnlyMoves(r)
    BY <1>0, StepsMoveOne DEF RunStep
  <1>2. PICK h \in Handles :
            aer_task_make_cancel_handle(r, obj, h) /\ refs' = [refs EXCEPT ![h] = 1]
            /\ local' = [local EXCEPT ![r] = h]
    BY DEF MakeNative
  <1>3. /\ task' = task /\ box[h] = None /\ box' = [box EXCEPT ![h] = obj] /\ running' = running
        /\ closed' = closed
    BY <1>2 DEF aer_task_make_cancel_handle, MakeNative, runVars
  <1>4. pc[r] = "make" /\ pc'[r] = "leave make" /\ local'[r] = h
    BY <1>0, <1>2 DEF MakeNative, At, Goto, BindingTypeOK
  <1>5. \A g \in Safe : Holds(r, g)' <=> Holds(r, g)
    <2>1. pc[r] \in UsesTask /\ pc'[r] \in UsesTask
      BY <1>4 DEF UsesTask, InTask
    <2> QED
      BY <2>1, HoldsAt
  <1>6. \A g \in Safe \ {h} : /\ refs'[g] = refs[g]
                              /\ Made(g)' = Made(g) /\ Live(g)' = Live(g)
    <2>1. \A g \in Safe \ {h} : refs'[g] = refs[g] /\ (g # obj => box'[g] = box[g])
      BY <1>0, <1>2, <1>3, DotnetAssumption DEF BindingTypeOK, FfiTypeOK, Safe
    <2> QED
      BY <1>3, <2>1 DEF Made, Live
  <1>7. ASSUME NEW g \in Safe, g # h PROVE Counted(g)'
    BY <1>0, <1>1, <1>3, <1>5, <1>6, <1>7, UntouchedCounts DEF RefInv
  <1>8. ~Made(h) /\ ~Live(h) /\ Made(h)' /\ Live(h)' /\ refs'[h] = 1
    BY <1>0, <1>2, <1>3 DEF Made, Live, FfiTypeOK, BindingTypeOK
  <1>9. Counted(h)'
    <2>1. Counted(h)
      BY <1>0 DEF RefInv
    <2>2. ~closed[h] /\ Owned(h) = 0
      BY <1>8, <2>1 DEF Counted, Owned
    <2>3. /\ Cardinality(Holders(h)) \in Nat
          /\ Cardinality(Holders(h)') = Cardinality(Holders(h))
      BY <1>0, <1>1, <1>5, CountMoves DEF OnlyMoves
    <2>4. Cardinality(Holders(h)') = 0
      BY <1>8, <2>1, <2>2, <2>3 DEF Counted
    <2> QED
      BY <1>3, <1>8, <2>2, <2>4 DEF Counted, Owned
  <1> QED
    BY <1>3, <1>4, <1>6, <1>7, <1>8, <1>9 DEF RefInv

\* Handles come from the ABI and are closed by whom they belong to, and a step
\* that neither makes nor closes one changes nothing in that.
LEMMA OwnersStay ==
    ASSUME FfiTypeOK, ControlInv, MadeInv, CloseInv,
           NEW th \in Threads, Calls(th), OnlyMoves(th),
           closed' = closed, disposedFlag' = disposedFlag,
           \A g \in Handles : Made(g)' <=> Made(g),
           local'[th] \in {local[u] : u \in Threads} \union {cancelHandle},
           cancelHandle' \in {None, cancelHandle, local[th]},
           pc'[th] # "idle" => th = Source \/ pc[th] # "idle" \/ Made(obj),
           th \in Disposers => (pc'[th] \in Disposes <=> pc[th] \in Disposes),
           th \in Runners => /\ local'[th] = local[th]
                             /\ pc[th] \in Runs => pc'[th] \in Runs
                             /\ pc[th] = "done" => pc'[th] = "done"
    PROVE  MadeInv' /\ CloseInv'
  <1>0. /\ BindingTypeOK /\ Handles \subseteq Safe /\ obj \in Safe
        /\ Runners \subseteq Threads /\ Disposers \subseteq Threads /\ Source \in Threads
    BY Kinds DEF ControlInv
  <1>1. \A g \in Safe : Made(g) => Made(g)'
    BY MadeStays
  <1>2. MadeInv'
    <2>0. \A g \in Handles : box[g] # None => box'[g] # None
      BY <1>0, <1>1, Kinds DEF Made
    <2>1. ASSUME NEW u \in Threads, local'[u] # None PROVE Made(local[u])'
      <3>1. PICK v \in Threads : local'[u] = local[v] \/ local'[u] = cancelHandle
        BY DEF OnlyMoves
      <3>2. local'[u] \in Handles /\ box[local'[u]] # None
        BY <1>0, <2>1, <3>1, Kinds DEF MadeInv, BindingTypeOK, Made
      <3> QED
        BY <2>0, <3>2, Kinds DEF Made
    <2>2. ASSUME cancelHandle' # None PROVE Made(cancelHandle)'
      <3>1. cancelHandle' \in Handles /\ box[cancelHandle'] # None
        BY <1>0, <2>2, Kinds DEF MadeInv, BindingTypeOK, Made
      <3> QED
        BY <2>0, <3>1, Kinds DEF Made
    <2>3. ASSUME NEW u \in Threads \ {Source}, pc'[u] # "idle" PROVE Made(obj)'
      BY <1>0, <1>1, <2>3 DEF OnlyMoves, MadeInv
    <2> QED
      BY <2>1, <2>2, <2>3 DEF MadeInv
  <1>3. CloseInv'
    <2>1. \A d \in Disposers : pc'[d] \in Disposes <=> pc[d] \in Disposes
      BY <1>0 DEF OnlyMoves
    <2>2. \A r \in Runners : /\ local'[r] = local[r]
                             /\ pc[r] \in Runs => pc'[r] \in Runs
                             /\ pc[r] = "done" => pc'[r] = "done"
      BY <1>0 DEF OnlyMoves
    <2>3. ASSUME NEW h \in Handles
          PROVE  /\ closed'[h] => disposedFlag' \/ \E r \in Runners : local'[r] = h /\ pc'[r] = "done"
                 /\ Made(h)' /\ ~closed'[h] => \E r \in Runners : local'[r] = h /\ pc'[r] \in Runs
      BY <2>2 DEF CloseInv
    <2> QED
      BY <2>1, <2>3 DEF CloseInv
  <1> QED
    BY <1>2, <1>3

\* A thread that neither starts nor ends a run leaves the stacks as they are.
LEMMA StackStays ==
    ASSUME StackInv, NEW th \in Threads, OnlyMoves(th), running' = running,
           pc'[th] = "running" <=> pc[th] = "running"
    PROVE  StackInv'
  BY DEF StackInv, OnlyMoves

\* The owner's calls, before and after the object exists.
LEMMA CallerKeepsNative ==
    ASSUME ControlInv, FfiTypeOK, NativeInv, Construct \/ With \/ WithStep
    PROVE  NativeInv'
  <1> USE DEF objVars, safeVars, callVars, At
  <1>0. /\ BindingTypeOK /\ RefInv /\ MadeInv /\ CloseInv /\ StackInv
        /\ Owner \in Threads /\ Owner \in Runners /\ Owner \notin Disposers /\ obj \in Safe
        /\ Calls(Owner) /\ OnlyMoves(Owner)
    BY Kinds, CallerCalls, StepsMoveOne DEF ControlInv, NativeInv
  <1>1. closed' = closed /\ disposedFlag' = disposedFlag /\ local' = local
        /\ cancelHandle' = cancelHandle
    BY DEF Construct, With, WithStep, Enter, Leave, WithDisposed, WithNative, Moves, Native
  <1>2. /\ pc[Owner] \in {"idle"} \union Configures /\ pc'[Owner] \in {"idle"} \union Configures
        /\ pc'[Owner] # "idle" => pc[Owner] # "idle" \/ Made(obj)
    <2>1. CASE Construct
      BY <2>1 DEF Construct
    <2>2. CASE With
      BY <1>0, <2>2 DEF With, Moves, Native, Goto, BindingTypeOK, Configures, Constructed, Made
    <2>3. CASE WithStep
      BY <1>0, <2>3 DEF WithStep, Enter, Leave, WithDisposed, WithNative, Moves, Native, Goto,
                        BindingTypeOK, Configures
    <2> QED
      BY <2>1, <2>2, <2>3
  <1>3. ASSUME \A g \in Handles : Made(g)' <=> Made(g), running' = running
        PROVE  MadeInv' /\ CloseInv' /\ StackInv'
    <2>1. pc[Owner] \notin Runs /\ pc[Owner] # "done" /\ pc[Owner] # "running" /\ pc'[Owner] # "running"
      BY <1>2 DEF Configures, Runs, Claimed, Registered, Cancels
    <2>2. StackInv'
      BY <1>0, <1>3, <2>1, StackStays
    <2> QED
      BY <1>0, <1>1, <1>2, <1>3, <2>1, <2>2, OwnersStay
  <1>4. CASE Construct
    <2>1. box' = box /\ running' = running
      BY <1>4 DEF Construct, aer_task_new, runVars
    <2>2. \A g \in Handles : Made(g)' <=> Made(g)
      BY <2>1, Kinds DEF Made
    <2> QED
      BY <1>0, <1>3, <1>4, <2>1, <2>2, ConstructCounts DEF NativeInv
  <1>5. CASE Enter(Owner, "enter with", obj, "with")
    <2>1. /\ pc[Owner] = "enter with" /\ pc'[Owner] = "with" /\ AddRef(obj)
          /\ task' = task /\ box' = box /\ running' = running
      BY <1>0, <1>5 DEF Enter, ffiVars, taskVars, runVars, Goto, BindingTypeOK
    <2>2. (\A g \in Safe : ~Holds(Owner, g)) /\ \A g \in Safe : Holds(Owner, g)' <=> g = obj
      BY <2>1, HoldsAt DEF UsesTask, UsesCancel, InTask, InCancel
    <2>3. RefInv'
      BY <1>0, <1>1, <2>1, <2>2, EnterCounts
    <2>4. \A g \in Handles : Made(g)' <=> Made(g)
      BY <2>1 DEF Made
    <2> QED
      BY <1>3, <2>1, <2>3, <2>4 DEF NativeInv
  <1>6. CASE Leave(Owner, "leave with", obj, "idle")
    <2>1. pc[Owner] = "leave with" /\ pc'[Owner] = "idle" /\ Release(Owner, obj)
      BY <1>0, <1>6 DEF Leave, Goto, BindingTypeOK
    <2>2. (\A g \in Safe : Holds(Owner, g) <=> g = obj) /\ \A g \in Safe : ~Holds(Owner, g)'
      BY <2>1, HoldsAt DEF UsesTask, UsesCancel, InTask, InCancel
    <2>3. RefInv' /\ running' = running /\ \A g \in Safe : Made(g)' <=> Made(g)
      BY <1>0, <1>1, <2>1, <2>2, LeaveCounts
    <2> QED
      BY <1>3, <2>3, Kinds DEF NativeInv
  <1>7. CASE With \/ WithDisposed \/ WithNative
    <2>1. task' = task /\ box' = box /\ running' = running
      <3>1. CASE With \/ WithDisposed
        BY <3>1 DEF With, WithDisposed, Moves, ffiVars, taskVars, runVars
      <3>2. CASE WithNative
        BY <3>2 DEF WithNative, aer_task_with_timeout, aer_task_with_capture_output,
                    aer_task_set_env, aer_task_set_clear_env, aer_task_set_cwd, Configure, runVars
      <3> QED
        BY <1>7, <3>1, <3>2
    <2>2. refs' = refs
      BY <1>7 DEF With, WithDisposed, WithNative, Moves, Native
    <2>3. \A g \in Safe : Holds(Owner, g)' <=> Holds(Owner, g)
      <3>1. CASE With \/ WithDisposed
        <4>1. /\ pc[Owner] \notin UsesTask \union UsesCancel
              /\ pc'[Owner] \notin UsesTask \union UsesCancel
          BY <1>0, <3>1 DEF With, WithDisposed, Moves, Native, Goto, BindingTypeOK,
                            UsesTask, UsesCancel, InTask, InCancel
        <4> QED
          BY <4>1, HoldsAt
      <3>2. CASE WithNative
        <4>1. pc[Owner] \in UsesTask /\ pc'[Owner] \in UsesTask
          BY <1>0, <3>2 DEF WithNative, Native, Goto, BindingTypeOK, UsesTask, InTask
        <4> QED
          BY <4>1, HoldsAt
      <3> QED
        BY <1>7, <3>1, <3>2
    <2>4. \A g \in Handles : Made(g)' <=> Made(g)
      BY <2>1 DEF Made
    <2>5. RefInv'
      BY <1>0, <1>1, <2>1, <2>2, <2>3, QuietCounts
    <2> QED
      BY <1>3, <2>1, <2>4, <2>5 DEF NativeInv
  <1> QED
    BY <1>4, <1>5, <1>6, <1>7 DEF WithStep

\* The first Dispose closes what it finds, and the task last.
LEMMA DisposerKeepsNative ==
    ASSUME ControlInv, FfiTypeOK, NativeInv, NEW d \in Disposers, Dispose(d) \/ DisposeStep(d)
    PROVE  NativeInv'
  <1> USE DEF objVars, safeVars, callVars, At
  <1>0. /\ BindingTypeOK /\ RefInv /\ MadeInv /\ CloseInv /\ StackInv
        /\ d \in Threads /\ d \notin Runners /\ d # Source /\ obj \in Safe /\ Handles \subseteq Safe
        /\ Calls(d) /\ OnlyMoves(d) /\ None \notin Handles /\ obj \notin Handles
    BY Kinds, DisposerCalls, StepsMoveOne DEF ControlInv, NativeInv
  <1>1. /\ pc[d] \in {"idle"} \union Disposes /\ pc'[d] \in {"done"} \union Disposes
        /\ pc[d] = "idle" => Made(obj)
    <2>1. CASE Dispose(d)
      BY <1>0, <2>1 DEF Dispose, Goto, BindingTypeOK, Disposes, Constructed, Made
    <2>2. CASE DisposeStep(d)
      BY <1>0, <2>2 DEF DisposeStep, ReadField, CloseSeen, CloseTask, Goto, BindingTypeOK, Disposes
    <2> QED
      BY <2>1, <2>2
  <1>2. /\ \A g \in Safe : ~Holds(d, g) /\ ~Holds(d, g)'
        /\ pc[d] # "running" /\ pc'[d] # "running"
    <2>1. /\ pc[d] \notin UsesTask \union UsesCancel /\ pc'[d] \notin UsesTask \union UsesCancel
          /\ pc[d] # "running" /\ pc'[d] # "running"
      BY <1>1 DEF Disposes, UsesTask, UsesCancel, InTask, InCancel
    <2> QED
      BY <2>1, HoldsAt
  <1>3. running' = running => StackInv'
    BY <1>0, <1>2, StackStays
  <1>4. CASE Dispose(d)
    <2>1. /\ task' = task /\ box' = box /\ running' = running /\ refs' = refs /\ closed' = closed
          /\ local' = local /\ cancelHandle' = cancelHandle /\ disposedFlag' = TRUE
      BY <1>4 DEF Dispose, ffiVars, taskVars, runVars
    <2>2. RefInv'
      BY <1>0, <1>2, <2>1, QuietCounts
    <2>3. \A u \in Disposers \ {d} : pc'[u] = pc[u]
      BY <1>0, Kinds DEF OnlyMoves
    <2>4. \A r \in Runners : pc'[r] = pc[r]
      BY <1>0, Kinds DEF OnlyMoves
    <2>5. pc'[d] = (IF disposedFlag THEN "done" ELSE "read") /\ pc[d] = "idle"
      BY <1>0, <1>4 DEF Dispose, Goto, BindingTypeOK
    <2>6. \A g \in Safe : Made(g)' <=> Made(g)
      BY <2>1 DEF Made
    <2>7. MadeInv'
      <3>1. \A u \in Threads \ {Source} : pc'[u] # "idle" => Made(obj)'
        BY <1>0, <1>1, <2>5, <2>6 DEF OnlyMoves, MadeInv
      <3> QED
        BY <1>0, <2>1, <3>1 DEF MadeInv, Made
    <2>8. CloseInv'
      <3>1. closed'[obj] \/ \E u \in Disposers : pc'[u] \in Disposes
        <4>1. CASE disposedFlag
          <5>1. closed[obj] \/ \E u \in Disposers : pc[u] \in Disposes
            BY <1>0, <4>1 DEF CloseInv
          <5>2. pc[d] \notin Disposes
            BY <2>5 DEF Disposes
          <5> QED
            BY <2>1, <2>3, <5>1, <5>2
        <4>2. CASE ~disposedFlag
          BY <2>5, <4>2 DEF Disposes
        <4> QED
          BY <4>1, <4>2
      <3>2. \A h \in Handles : Made(h)' /\ ~closed'[h] =>
                \E r \in Runners : local'[r] = h /\ pc'[r] \in Runs
        BY <1>0, <2>1, <2>4, <2>6 DEF CloseInv
      <3> QED
        BY <2>1, <3>1, <3>2 DEF CloseInv
    <2> QED
      BY <1>3, <2>1, <2>2, <2>7, <2>8 DEF NativeInv
  <1>5. CASE ReadField(d)
    <2>1. /\ task' = task /\ box' = box /\ running' = running /\ refs' = refs /\ closed' = closed
          /\ local'[d] = cancelHandle /\ cancelHandle' = cancelHandle /\ disposedFlag' = disposedFlag
      BY <1>0, <1>5 DEF ReadField, ffiVars, taskVars, runVars, BindingTypeOK
    <2>2. RefInv'
      BY <1>0, <1>2, <2>1, QuietCounts
    <2>3. pc[d] \in Disposes /\ pc'[d] \in Disposes /\ pc[d] # "idle"
      BY <1>0, <1>5 DEF ReadField, Goto, BindingTypeOK, Disposes
    <2>4. \A g \in Handles : Made(g)' <=> Made(g)
      BY <2>1 DEF Made
    <2>5. MadeInv' /\ CloseInv'
      BY <1>0, <2>1, <2>3, <2>4, OwnersStay
    <2> QED
      BY <1>3, <2>1, <2>2, <2>5 DEF NativeInv
  <1>6. ASSUME NEW h \in Safe, Close(d, h), Made(h), local' = local, cancelHandle' = cancelHandle,
               disposedFlag' = disposedFlag, pc[d] \in Disposes,
               h = obj \/ pc'[d] \in Disposes
        PROVE  NativeInv'
    <2>1. /\ RefInv' /\ running' = running /\ closed'[h]
          /\ \A g \in Safe \ {h} : closed'[g] = closed[g] /\ Made(g)' = Made(g)
      BY <1>0, <1>2, <1>6, CloseCounts
    <2>2. \A g \in Safe : Made(g) => Made(g)'
      BY <1>0, MadeStays
    <2>3. disposedFlag
      BY <1>0, <1>6 DEF CloseInv
    <2>4. pc[d] # "idle"
      BY <1>6 DEF Disposes
    <2>5. MadeInv'
      <3>1. \A u \in Threads \ {Source} : pc'[u] # "idle" => Made(obj)'
        BY <1>0, <2>2, <2>4 DEF OnlyMoves, MadeInv
      <3>2. \A u \in Threads : local[u] # None => local[u] \in Handles /\ Made(local[u])
        BY <1>0 DEF MadeInv, BindingTypeOK
      <3>3. cancelHandle # None => cancelHandle \in Handles /\ Made(cancelHandle)
        BY <1>0 DEF MadeInv, BindingTypeOK
      <3>4. \A g \in Handles : Made(g) => box'[g] # None
        BY <1>0, <2>2 DEF Made
      <3>5. \A u \in Threads : local'[u] # None => Made(local[u])'
        BY <1>0, <1>6, <3>2, <3>4 DEF Made
      <3>6. cancelHandle' # None => Made(cancelHandle)'
        BY <1>0, <1>6, <3>3, <3>4 DEF Made
      <3> QED
        BY <3>1, <3>5, <3>6 DEF MadeInv
    <2>6. CloseInv'
      <3>1. \A r \in Runners : pc'[r] = pc[r]
        BY <1>0, Kinds DEF OnlyMoves
      <3>2. closed'[obj] \/ \E u \in Disposers : pc'[u] \in Disposes
        BY <1>0, <1>6, <2>1
      <3>3. ASSUME NEW g \in Handles, Made(g)', ~closed'[g]
            PROVE  \E r \in Runners : local'[r] = g /\ pc'[r] \in Runs
        <4>1. g # h /\ g \in Safe
          BY <1>0, <2>1, <3>3
        <4>2. Made(g) /\ ~closed[g]
          BY <2>1, <3>3, <4>1
        <4> QED
          BY <1>0, <1>6, <3>1, <4>2 DEF CloseInv
      <3> QED
        BY <1>6, <2>3, <3>2, <3>3 DEF CloseInv
    <2> QED
      BY <1>3, <2>1, <2>5, <2>6 DEF NativeInv
  <1>7. CASE CloseSeen(d)
    <2>1. local[d] \in Handles /\ Made(local[d])
      BY <1>0, <1>7, HandleAtHand DEF CloseSeen, MadeInv
    <2>2. /\ Close(d, local[d]) /\ local' = local /\ cancelHandle' = cancelHandle
          /\ disposedFlag' = disposedFlag /\ pc[d] = "close seen" /\ pc'[d] = "close task"
      BY <1>0, <1>7 DEF CloseSeen, Goto, BindingTypeOK
    <2> QED
      BY <1>0, <1>6, <2>1, <2>2 DEF Disposes
  <1>8. CASE CloseTask(d)
    <2>1. /\ Close(d, obj) /\ local' = local /\ cancelHandle' = cancelHandle
          /\ disposedFlag' = disposedFlag /\ pc[d] = "close task"
      BY <1>8 DEF CloseTask
    <2>2. Made(obj)
      BY <1>0, <2>1 DEF MadeInv
    <2> QED
      BY <1>0, <1>6, <2>1, <2>2 DEF Disposes
  <1> QED
    BY <1>4, <1>5, <1>7, <1>8 DEF DisposeStep

\* The callbacks of the token hold the handle only while they call aer_cancel.
LEMMA SourceKeepsNative ==
    ASSUME ControlInv, FfiTypeOK, NativeInv, Cancel \/ SourceStep
    PROVE  NativeInv'
  <1> USE DEF objVars, safeVars, callVars, At
  <1>0. /\ BindingTypeOK /\ RefInv /\ MadeInv /\ CloseInv /\ StackInv
        /\ Source \in Threads /\ Source \notin Runners /\ Source \notin Disposers
        /\ obj \in Safe /\ Handles \subseteq Safe /\ Runners \subseteq Threads
        /\ Calls(Source) /\ OnlyMoves(Source)
    BY Kinds, SourceCalls, StepsMoveOne DEF ControlInv, NativeInv
  <1>1. closed' = closed /\ disposedFlag' = disposedFlag /\ cancelHandle' = cancelHandle
        /\ local'[Source] \in {local[u] : u \in Threads}
    <2>1. ASSUME NEW r \in Runners, Notify(r)
          PROVE  /\ closed' = closed /\ disposedFlag' = disposedFlag /\ cancelHandle' = cancelHandle
                 /\ local'[Source] \in {local[u] : u \in Threads}
      BY <1>0, <2>1 DEF Notify, BindingTypeOK
    <2>2. CASE ~\E r \in Runners : Notify(r)
      BY <1>0, <2>2 DEF Cancel, SourceStep, NoMore, Enter, CallbackDisposed, CancelNative, Called,
                        Moves, Native
    <2> QED
      BY <2>1, <2>2
  <1>2. pc[Source] # "running" /\ pc'[Source] # "running"
    <2>1. ControlInv'
      <3>1. DotnetNext
        BY <1>0 DEF DotnetNext, Begin, Proceed
      <3> QED
        BY <3>1, ControlInvariance
    <2> QED
      BY <2>1 DEF ControlInv, PlaceInv, Cancels
  <1>3. ASSUME \A g \in Handles : Made(g)' <=> Made(g), running' = running
        PROVE  MadeInv' /\ CloseInv' /\ StackInv'
    BY <1>0, <1>1, <1>2, <1>3, OwnersStay, StackStays
  <1>4. CASE Enter(Source, "enter cancel", local[Source], "cancel")
    <2>1. /\ pc[Source] = "enter cancel" /\ pc'[Source] = "cancel" /\ AddRef(local[Source])
          /\ task' = task /\ box' = box /\ running' = running /\ local' = local
      BY <1>0, <1>4 DEF Enter, ffiVars, taskVars, runVars, Goto, BindingTypeOK
    <2>2. local[Source] \in Handles
      BY <1>0, <2>1, HandleAtHand DEF Cancels
    <2>3. /\ \A g \in Safe : ~Holds(Source, g)
          /\ \A g \in Safe : Holds(Source, g)' <=> g = local[Source]
      BY <2>1, <2>2, HoldsAt DEF UsesTask, UsesCancel, InTask, InCancel
    <2>4. RefInv'
      BY <1>0, <1>1, <2>1, <2>2, <2>3, EnterCounts
    <2>5. \A g \in Handles : Made(g)' <=> Made(g)
      BY <2>1 DEF Made
    <2> QED
      BY <1>3, <2>1, <2>4, <2>5 DEF NativeInv
  <1>5. CASE Called
    <2>1. /\ pc[Source] = "leave cancel" /\ pc'[Source] = "notify" /\ Release(Source, local[Source])
      BY <1>0, <1>5 DEF Called, CallbackOver, Goto, BindingTypeOK
    <2>2. local[Source] \in Handles
      BY <1>0, <2>1, HandleAtHand DEF Cancels
    <2>3. /\ \A g \in Safe : Holds(Source, g) <=> g = local[Source]
          /\ \A g \in Safe : ~Holds(Source, g)'
      BY <2>1, <2>2, HoldsAt DEF UsesTask, UsesCancel, InTask, InCancel
    <2>4. RefInv' /\ running' = running /\ \A g \in Safe : Made(g)' <=> Made(g)
      BY <1>0, <1>1, <2>1, <2>2, <2>3, LeaveCounts
    <2> QED
      BY <1>0, <1>3, <2>4 DEF NativeInv
  <1>6. CASE Cancel \/ NoMore \/ CallbackDisposed \/ CancelNative(Source)
             \/ \E r \in Runners : Notify(r)
    <2>1. task' = task /\ box' = box /\ running' = running /\ refs' = refs
      BY <1>6 DEF Cancel, NoMore, CallbackDisposed, CancelNative, Notify, Moves, Native, aer_cancel,
                  ffiVars, taskVars, runVars
    <2>2. \A g \in Safe : Holds(Source, g)' <=> Holds(Source, g)
      <3>1. CASE CancelNative(Source)
        <4>1. pc[Source] = "cancel" /\ pc'[Source] = "leave cancel" /\ local' = local
          BY <1>0, <3>1 DEF CancelNative, Native, Goto, BindingTypeOK
        <4>2. local[Source] \in Handles
          BY <1>0, <4>1, HandleAtHand DEF Cancels
        <4> QED
          BY <4>1, <4>2, HoldsAt DEF UsesCancel, InCancel
      <3>2. CASE ~CancelNative(Source)
        <4>1. /\ pc[Source] \in {"idle", "notify", "enter cancel"}
              /\ pc'[Source] \in {"notify", "enter cancel", "done"}
          BY <1>0, <1>6, <3>2 DEF Cancel, NoMore, CallbackDisposed, CallbackOver, Notify, Moves,
                                  Native, Goto, BindingTypeOK
        <4>2. /\ pc[Source] \notin UsesTask \union UsesCancel
              /\ pc'[Source] \notin UsesTask \union UsesCancel
          BY <4>1 DEF UsesTask, UsesCancel, InTask, InCancel
        <4> QED
          BY <4>2, HoldsAt
      <3> QED
        BY <3>1, <3>2
    <2>3. RefInv'
      BY <1>0, <1>1, <2>1, <2>2, QuietCounts
    <2>4. \A g \in Handles : Made(g)' <=> Made(g)
      BY <2>1 DEF Made
    <2> QED
      BY <1>3, <2>1, <2>3, <2>4 DEF NativeInv
  <1> QED
    BY <1>4, <1>5, <1>6 DEF SourceStep

\* A run makes its cancel handle, ...
LEMMA MakeKeepsNative ==
    ASSUME ControlInv, FfiTypeOK, NativeInv, NEW r \in Runners, MakeNative(r)
    PROVE  NativeInv'
  <1> USE DEF objVars, safeVars, callVars, At
  <1>0. /\ BindingTypeOK /\ RefInv /\ MadeInv /\ CloseInv /\ StackInv /\ ClaimInv
        /\ r \in Threads /\ obj \in Safe /\ Handles \subseteq Safe /\ Calls(r) /\ OnlyMoves(r)
        /\ obj \notin Handles /\ None \notin Handles /\ Runners \subseteq Threads
        /\ Disposers \subseteq Threads
    BY Kinds, RunnerCalls, StepsMoveOne DEF ControlInv, NativeInv, RunStep
  <1>1. RefInv' /\ running' = running
    BY <1>0, MakeCounts
  <1>2. PICK h \in Handles : /\ ~Made(h) /\ local'[r] = h /\ Made(h)'
                             /\ \A g \in Safe \ {h} : Made(g)' = Made(g)
    BY <1>0, MakeCounts
  <1>3. /\ closed' = closed /\ disposedFlag' = disposedFlag /\ cancelHandle' = cancelHandle
        /\ pc[r] = "make" /\ pc'[r] = "leave make"
    BY <1>0 DEF MakeNative, Goto, BindingTypeOK
  <1>4. \A g \in Safe : Made(g) => Made(g)'
    BY <1>2
  <1>5. \A g \in Handles : Made(g)' => box'[g] # None
    BY <1>0 DEF Made
  <1>6. MadeInv'
    <2>1. ASSUME NEW u \in Threads, local'[u] # None PROVE Made(local[u])'
      <3>1. local'[u] \in Handles /\ box'[local'[u]] # None
        <4>1. CASE u = r
          BY <1>2, <1>5, <4>1
        <4>2. CASE u # r
          <5>1. local'[u] = local[u]
            BY <1>0, <4>2 DEF OnlyMoves
          <5>2. local[u] \in Handles /\ Made(local[u])
            BY <1>0, <2>1, <5>1 DEF MadeInv, BindingTypeOK
          <5>3. \A g \in Handles : Made(g) => box'[g] # None
            BY <1>0, <1>4, <1>5
          <5> QED
            BY <5>1, <5>2, <5>3
        <4> QED
          BY <4>1, <4>2
      <3> QED
        BY <1>0, <3>1 DEF Made
    <2>2. ASSUME cancelHandle' # None PROVE Made(cancelHandle)'
      <3>1. cancelHandle \in Handles /\ Made(cancelHandle)
        BY <1>0, <1>3, <2>2 DEF MadeInv, BindingTypeOK
      <3>2. cancelHandle' \in Handles /\ box'[cancelHandle'] # None
        BY <1>0, <1>3, <1>4, <1>5, <3>1
      <3> QED
        BY <1>0, <3>2 DEF Made
    <2>3. \A u \in Threads \ {Source} : pc'[u] # "idle" => Made(obj)'
      BY <1>0, <1>3, <1>4 DEF OnlyMoves, MadeInv
    <2> QED
      BY <2>1, <2>2, <2>3 DEF MadeInv
  <1>7. CloseInv'
    <2>1. \A d \in Disposers : pc'[d] = pc[d]
      BY <1>0, Kinds DEF OnlyMoves
    <2>2. \A q \in Runners \ {r} : pc'[q] = pc[q] /\ local'[q] = local[q]
      BY <1>0 DEF OnlyMoves
    <2>3. local[r] = None /\ pc[r] # "done" /\ pc'[r] \in Runs
      BY <1>0, <1>3 DEF ClaimInv, Runs, Claimed
    <2>4. ASSUME NEW g \in Handles
          PROVE  /\ closed'[g] => disposedFlag' \/ \E q \in Runners : local'[q] = g /\ pc'[q] = "done"
                 /\ Made(g)' /\ ~closed'[g] => \E q \in Runners : local'[q] = g /\ pc'[q] \in Runs
      <3>1. CASE g = h
        <4>1. Counted(g)
          BY <1>0 DEF RefInv
        <4>2. ~closed[g]
          BY <1>2, <3>1, <4>1 DEF Counted
        <4> QED
          BY <1>2, <1>3, <2>3, <3>1, <4>2
      <3>2. CASE g # h
        <4>1. Made(g)' = Made(g)
          BY <1>0, <1>2, <3>2
        <4>2. closed[g] => disposedFlag \/ \E q \in Runners \ {r} : local[q] = g /\ pc[q] = "done"
          BY <1>0, <2>3 DEF CloseInv
        <4>3. Made(g) /\ ~closed[g] => \E q \in Runners \ {r} : local[q] = g /\ pc[q] \in Runs
          BY <1>0, <2>3 DEF CloseInv
        <4> QED
          BY <1>3, <2>2, <4>1, <4>2, <4>3
      <3> QED
        BY <3>1, <3>2
    <2> QED
      BY <1>0, <1>3, <2>1, <2>4 DEF CloseInv
  <1>8. StackInv'
    BY <1>0, <1>1, <1>3, StackStays
  <1> QED
    BY <1>1, <1>6, <1>7, <1>8 DEF NativeInv

\* ... and closes it when it is done with it.
LEMMA CloseLocalKeepsNative ==
    ASSUME ControlInv, FfiTypeOK, NativeInv, NEW r \in Runners, CloseLocal(r)
    PROVE  NativeInv'
  <1> USE DEF objVars, safeVars, callVars, At
  <1>0. /\ BindingTypeOK /\ RefInv /\ MadeInv /\ CloseInv /\ StackInv /\ ClaimInv
        /\ r \in Threads /\ obj \in Safe /\ Handles \subseteq Safe /\ Calls(r) /\ OnlyMoves(r)
        /\ obj \notin Handles /\ None \notin Handles /\ Runners \subseteq Threads
        /\ Disposers \subseteq Threads /\ r # Source /\ r \notin Disposers
    BY Kinds, RunnerCalls, StepsMoveOne DEF ControlInv, NativeInv, RunStep
  <1>1. /\ pc[r] = "close" /\ pc'[r] = "done" /\ local' = local /\ cancelHandle' = cancelHandle
        /\ disposedFlag' = disposedFlag
    BY <1>0 DEF CloseLocal, Goto, BindingTypeOK
  <1>2. \A g \in Safe : ~Holds(r, g) /\ ~Holds(r, g)'
    BY <1>1, HoldsAt DEF UsesTask, UsesCancel, InTask, InCancel
  <1>3. /\ RefInv' /\ running' = running
        /\ local[r] # None => closed'[local[r]]
        /\ \A g \in Safe : g # local[r] => closed'[g] = closed[g] /\ Made(g)' = Made(g)
    <2>1. CASE local[r] = None
      <3>1. /\ task' = task /\ box' = box /\ running' = running /\ refs' = refs /\ closed' = closed
        BY <2>1 DEF CloseLocal, ffiVars, taskVars, runVars
      <3>2. \A g \in Safe : Made(g)' = Made(g)
        BY <3>1 DEF Made
      <3>3. RefInv'
        BY <1>0, <1>2, <3>1, QuietCounts
      <3> QED
        BY <2>1, <3>1, <3>2, <3>3
    <2>2. CASE local[r] # None
      <3>1. local[r] \in Safe /\ Made(local[r]) /\ Close(r, local[r])
        BY <1>0, <2>2 DEF CloseLocal, MadeInv, BindingTypeOK
      <3> QED
        BY <1>0, <1>2, <3>1, CloseCounts
    <2> QED
      BY <2>1, <2>2
  <1>4. \A g \in Safe : Made(g) => Made(g)'
    BY <1>0, MadeStays
  <1>5. \A g \in Handles : Made(g) => box'[g] # None
    BY <1>0, <1>4 DEF Made
  <1>6. MadeInv'
    <2>1. \A u \in Threads : local[u] # None => local[u] \in Handles /\ Made(local[u])
      BY <1>0 DEF MadeInv, BindingTypeOK
    <2>2. cancelHandle # None => cancelHandle \in Handles /\ Made(cancelHandle)
      BY <1>0 DEF MadeInv, BindingTypeOK
    <2>3. \A u \in Threads : local'[u] # None => Made(local[u])'
      BY <1>0, <1>1, <1>5, <2>1 DEF Made
    <2>4. cancelHandle' # None => Made(cancelHandle)'
      BY <1>0, <1>1, <1>5, <2>2 DEF Made
    <2>5. \A u \in Threads \ {Source} : pc'[u] # "idle" => Made(obj)'
      BY <1>0, <1>1, <1>4 DEF OnlyMoves, MadeInv
    <2> QED
      BY <2>3, <2>4, <2>5 DEF MadeInv
  <1>7. CloseInv'
    <2>1. \A d \in Disposers : pc'[d] = pc[d]
      BY <1>0 DEF OnlyMoves
    <2>2. \A q \in Runners \ {r} : pc'[q] = pc[q]
      BY <1>0 DEF OnlyMoves
    <2>3. closed'[obj] = closed[obj]
      <3>1. local[r] # obj
        BY <1>0, FfiAssumption, DotnetAssumption DEF BindingTypeOK
      <3> QED
        BY <1>0, <1>3, <3>1
    <2>4. ASSUME NEW g \in Handles
          PROVE  /\ closed'[g] => disposedFlag' \/ \E q \in Runners : local'[q] = g /\ pc'[q] = "done"
                 /\ Made(g)' /\ ~closed'[g] => \E q \in Runners : local'[q] = g /\ pc'[q] \in Runs
      <3>1. CASE g = local[r]
        BY <1>0, <1>1, <1>3, <3>1
      <3>2. CASE g # local[r]
        <4>1. closed'[g] = closed[g] /\ Made(g)' = Made(g)
          BY <1>0, <1>3, <3>2
        <4>2. closed[g] => disposedFlag \/ \E q \in Runners \ {r} : local[q] = g /\ pc[q] = "done"
          BY <1>0, <3>2 DEF CloseInv
        <4>3. Made(g) /\ ~closed[g] => \E q \in Runners \ {r} : local[q] = g /\ pc[q] \in Runs
          BY <1>0, <3>2 DEF CloseInv
        <4> QED
          BY <1>1, <2>2, <4>1, <4>2, <4>3
      <3> QED
        BY <3>1, <3>2
    <2> QED
      BY <1>0, <1>1, <2>1, <2>3, <2>4 DEF CloseInv
  <1>8. StackInv'
    BY <1>0, <1>1, <1>3, StackStays
  <1> QED
    BY <1>3, <1>6, <1>7, <1>8 DEF NativeInv

\* The P/Invokes of a run, on the task and on its cancel handle.
LEMMA RunCallsKeepNative ==
    ASSUME ControlInv, FfiTypeOK, NativeInv, NEW r \in Runners,
           \/ Enter(r, "enter make", obj, "make") \/ Enter(r, "enter run", obj, "run")
           \/ Enter(r, "enter cancel", local[r], "cancel")
           \/ Leave(r, "leave make", obj, "publish") \/ Leave(r, "leave run", obj, "throw")
           \/ Leave(r, "leave cancel", local[r], "enter run")
    PROVE  NativeInv'
  <1> USE DEF objVars, safeVars, callVars, At
  <1>0. /\ BindingTypeOK /\ RefInv /\ MadeInv /\ CloseInv /\ StackInv
        /\ r \in Threads /\ r \notin Disposers /\ obj \in Safe /\ Handles \subseteq Safe
    BY Kinds DEF ControlInv, NativeInv
  <1>1. Calls(r) /\ OnlyMoves(r)
    <2>1. RunStep(r)
      BY DEF RunStep, Enter, Leave
    <2> QED
      BY <1>0, <2>1, RunnerCalls, StepsMoveOne
  <1>2. closed' = closed /\ disposedFlag' = disposedFlag /\ local' = local
        /\ cancelHandle' = cancelHandle
    BY DEF Enter, Leave
  <1>3. /\ pc[r] \in Runs /\ pc'[r] \in Runs /\ pc[r] \notin {"idle", "done", "running"}
        /\ pc'[r] # "running"
    BY <1>0 DEF Enter, Leave, Goto, BindingTypeOK, Runs, Claimed, Registered, Cancels
  <1>4. ASSUME \A g \in Handles : Made(g)' <=> Made(g), running' = running
        PROVE  MadeInv' /\ CloseInv' /\ StackInv'
    <2>1. MadeInv' /\ CloseInv'
      BY <1>0, <1>1, <1>2, <1>3, <1>4, OwnersStay
    <2> QED
      BY <1>0, <1>1, <1>3, <1>4, <2>1, StackStays
  <1>5. ASSUME NEW h \in Safe, NEW from, NEW in, Enter(r, from, h, in),
               \A g \in Safe : ~Holds(r, g), \A g \in Safe : Holds(r, g)' <=> g = h
        PROVE  NativeInv'
    <2>1. AddRef(h) /\ task' = task /\ box' = box /\ running' = running
      BY <1>5 DEF Enter, ffiVars, taskVars, runVars
    <2>2. RefInv'
      BY <1>0, <1>1, <1>2, <1>5, <2>1, EnterCounts
    <2>3. \A g \in Handles : Made(g)' <=> Made(g)
      BY <2>1 DEF Made
    <2> QED
      BY <1>4, <2>1, <2>2, <2>3 DEF NativeInv
  <1>6. ASSUME NEW h \in Safe, NEW from, NEW to, Leave(r, from, h, to),
               \A g \in Safe : Holds(r, g) <=> g = h, \A g \in Safe : ~Holds(r, g)'
        PROVE  NativeInv'
    <2>1. Release(r, h)
      BY <1>6 DEF Leave
    <2>2. RefInv' /\ running' = running /\ \A g \in Safe : Made(g)' <=> Made(g)
      BY <1>0, <1>1, <1>2, <1>6, <2>1, LeaveCounts
    <2> QED
      BY <1>0, <1>4, <2>2 DEF NativeInv
  <1>7. CASE Enter(r, "enter make", obj, "make") \/ Enter(r, "enter run", obj, "run")
    <2>1. pc[r] \in {"enter make", "enter run"} /\ pc'[r] \in {"make", "run"}
      BY <1>0, <1>7 DEF Enter, Goto, BindingTypeOK
    <2>2. (\A g \in Safe : ~Holds(r, g)) /\ \A g \in Safe : Holds(r, g)' <=> g = obj
      BY <2>1, HoldsAt DEF UsesTask, UsesCancel, InTask, InCancel
    <2> QED
      BY <1>0, <1>5, <1>7, <2>2
  <1>8. CASE Leave(r, "leave make", obj, "publish") \/ Leave(r, "leave run", obj, "throw")
    <2>1. pc[r] \in {"leave make", "leave run"} /\ pc'[r] \in {"publish", "throw"}
      BY <1>0, <1>8 DEF Leave, Goto, BindingTypeOK
    <2>2. (\A g \in Safe : Holds(r, g) <=> g = obj) /\ \A g \in Safe : ~Holds(r, g)'
      BY <2>1, HoldsAt DEF UsesTask, UsesCancel, InTask, InCancel
    <2> QED
      BY <1>0, <1>6, <1>8, <2>2
  <1>9. CASE Enter(r, "enter cancel", local[r], "cancel")
    <2>1. pc[r] = "enter cancel" /\ pc'[r] = "cancel"
      BY <1>0, <1>9 DEF Enter, Goto, BindingTypeOK
    <2>2. local[r] \in Handles
      BY <1>0, <2>1, HandleAtHand DEF Cancels
    <2>3. (\A g \in Safe : ~Holds(r, g)) /\ \A g \in Safe : Holds(r, g)' <=> g = local[r]
      BY <1>2, <2>1, <2>2, HoldsAt DEF UsesTask, UsesCancel, InTask, InCancel
    <2> QED
      BY <1>0, <1>5, <1>9, <2>2, <2>3
  <1>10. CASE Leave(r, "leave cancel", local[r], "enter run")
    <2>1. pc[r] = "leave cancel" /\ pc'[r] = "enter run"
      BY <1>0, <1>10 DEF Leave, Goto, BindingTypeOK
    <2>2. local[r] \in Handles
      BY <1>0, <2>1, HandleAtHand DEF Cancels
    <2>3. (\A g \in Safe : Holds(r, g) <=> g = local[r]) /\ \A g \in Safe : ~Holds(r, g)'
      BY <2>1, <2>2, HoldsAt DEF UsesTask, UsesCancel, InTask, InCancel
    <2> QED
      BY <1>0, <1>6, <1>10, <2>2, <2>3
  <1> QED
    BY <1>7, <1>8, <1>9, <1>10

\* The other steps of a run, which touch no SafeHandle.
LEMMA RunnerKeepsNative ==
    ASSUME ControlInv, FfiTypeOK, NativeInv, NEW r \in Runners, Run(r) \/ RunStep(r)
    PROVE  NativeInv'
  <1> USE DEF objVars, safeVars, callVars, At
  <1>0. /\ BindingTypeOK /\ RefInv /\ MadeInv /\ CloseInv /\ StackInv
        /\ r \in Threads /\ r \notin Disposers /\ r # Source /\ Calls(r) /\ OnlyMoves(r)
    BY Kinds, RunnerCalls, StepsMoveOne DEF ControlInv, NativeInv
  <1>1. ASSUME task' = task, box' = box, refs' = refs, closed' = closed,
               disposedFlag' = disposedFlag, local' = local,
               cancelHandle' \in {None, cancelHandle, local[r]},
               \A g \in Safe : Holds(r, g)' <=> Holds(r, g),
               pc[r] # "done", pc[r] = "idle" => Made(obj), pc[r] \in Runs => pc'[r] \in Runs
        PROVE  RefInv' /\ MadeInv' /\ CloseInv'
    <2>1. RefInv'
      BY <1>0, <1>1, QuietCounts
    <2>2. \A g \in Handles : Made(g)' <=> Made(g)
      BY <1>1 DEF Made
    <2> QED
      BY <1>0, <1>1, <2>1, <2>2, OwnersStay
  <1>2. CASE Run(r) \/ Claim(r)
    <2>1. /\ task' = task /\ box' = box /\ refs' = refs /\ closed' = closed /\ running' = running
          /\ disposedFlag' = disposedFlag /\ local' = local /\ cancelHandle' = cancelHandle
      BY <1>2 DEF Run, Claim, ffiVars, taskVars, runVars
    <2>2. /\ pc[r] \in {"idle", "claim"} /\ (pc[r] = "idle" => Made(obj))
          /\ pc'[r] \in {"claim", "done", "enter make", "enter run"}
      <3>1. CASE Run(r)
        BY <1>0, <3>1 DEF Run, Goto, BindingTypeOK, Constructed, Made
      <3>2. CASE Claim(r)
        BY <1>0, <3>2 DEF Claim, Goto, BindingTypeOK
      <3> QED
        BY <1>2, <3>1, <3>2
    <2>3. \A g \in Safe : Holds(r, g)' <=> Holds(r, g)
      BY <2>2, HoldsAt DEF UsesTask, UsesCancel, InTask, InCancel
    <2>4. pc[r] \notin Runs /\ pc[r] # "done" /\ pc[r] # "running" /\ pc'[r] # "running"
      BY <2>2 DEF Runs, Claimed, Registered, Cancels
    <2>5. RefInv' /\ MadeInv' /\ CloseInv'
      BY <1>1, <2>1, <2>2, <2>3, <2>4
    <2> QED
      BY <1>0, <2>1, <2>4, <2>5, StackStays DEF NativeInv
  <1>3. CASE Publish(r) \/ Register(r) \/ RunDisposed(r) \/ BuildRunException(r) \/ Unregister(r)
             \/ ClearField(r)
    <2>1. /\ task' = task /\ box' = box /\ refs' = refs /\ closed' = closed /\ running' = running
          /\ disposedFlag' = disposedFlag /\ local' = local
          /\ cancelHandle' \in {None, cancelHandle, local[r]}
      BY <1>3 DEF Publish, Register, RunDisposed, BuildRunException, Unregister, ClearField, ffiVars,
                  taskVars, runVars
    <2>2. /\ pc[r] \in {"publish", "register", "enter make", "enter run", "enter cancel", "throw",
                        "finally", "clear"}
          /\ pc'[r] \in {"register", "enter run", "enter cancel", "finally", "clear", "close"}
      BY <1>0, <1>3 DEF Publish, Register, RunDisposed, BuildRunException, Unregister, ClearField,
                        Goto, BindingTypeOK
    <2>3. \A g \in Safe : Holds(r, g)' <=> Holds(r, g)
      BY <2>2, HoldsAt DEF UsesTask, UsesCancel, InTask, InCancel
    <2>4. /\ pc'[r] \in Runs /\ pc[r] \notin {"idle", "done", "running"} /\ pc'[r] # "running"
      BY <2>2 DEF Runs, Claimed, Registered, Cancels
    <2>5. RefInv' /\ MadeInv' /\ CloseInv'
      BY <1>1, <2>1, <2>3, <2>4
    <2> QED
      BY <1>0, <2>1, <2>4, <2>5, StackStays DEF NativeInv
  <1>4. CASE CancelNative(r)
    <2>1. /\ task' = task /\ box' = box /\ refs' = refs /\ closed' = closed /\ running' = running
          /\ disposedFlag' = disposedFlag /\ local' = local /\ cancelHandle' = cancelHandle
      BY <1>4 DEF CancelNative, Native, aer_cancel, taskVars, runVars
    <2>2. pc[r] = "cancel" /\ pc'[r] = "leave cancel" /\ local[r] \in Handles
      BY <1>0, <1>4, HandleAtHand DEF CancelNative, Native, Goto, BindingTypeOK, Cancels
    <2>3. \A g \in Safe : Holds(r, g)' <=> Holds(r, g)
      BY <2>1, <2>2, HoldsAt DEF UsesCancel, InCancel
    <2>4. pc'[r] \in Runs
      BY <2>2 DEF Runs, Claimed, Cancels
    <2>5. RefInv' /\ MadeInv' /\ CloseInv'
      BY <1>1, <2>1, <2>2, <2>3, <2>4
    <2> QED
      BY <1>0, <2>1, <2>2, <2>5, StackStays DEF NativeInv
  <1>5. CASE RunNative(r) \/ RunReturnsNative(r)
    <2>1. /\ task' = task /\ box' = box /\ refs' = refs /\ closed' = closed
          /\ disposedFlag' = disposedFlag /\ local' = local /\ cancelHandle' = cancelHandle
      BY <1>5 DEF RunNative, RunReturnsNative, Native, aer_task_run, RunEndsWith, taskVars
    <2>2. /\ pc[r] \in {"run", "running"} /\ pc'[r] \in {"running", "leave run"}
      BY <1>0, <1>5 DEF RunNative, RunReturnsNative, Native, Goto, BindingTypeOK
    <2>3. \A g \in Safe : Holds(r, g)' <=> Holds(r, g)
      <3>1. pc[r] \in UsesTask /\ pc'[r] \in UsesTask
        BY <2>2 DEF UsesTask, InTask
      <3> QED
        BY <3>1, HoldsAt
    <2>4. pc'[r] \in Runs
      BY <2>2 DEF Runs, Registered
    <2>5. RefInv' /\ MadeInv' /\ CloseInv'
      BY <1>1, <2>1, <2>2, <2>3, <2>4
    <2>6. StackInv'
      <3>1. ASSUME NEW u \in Threads, u # r PROVE running'[u] = running[u]
        BY <1>5, <3>1 DEF RunNative, RunReturnsNative, aer_task_run, RunEndsWith, runVars,
                            FfiTypeOK
      <3>2. CASE RunNative(r)
        <4>1. running[r] = <<>> /\ pc[r] = "run"
          BY <1>0, <3>2 DEF StackInv, RunNative, Native
        <4>2. running'[r] = <<>> \/ running'[r] = <<obj>>
          <5>1. running' = running \/ running' = [running EXCEPT ![r] = Append(@, obj)]
            BY <3>2 DEF RunNative, aer_task_run, runVars
          <5>2. Append(<<>>, obj) = <<obj>>
            OBVIOUS
          <5> QED
            BY <1>0, <4>1, <5>1, <5>2 DEF FfiTypeOK
        <4>3. pc'[r] = IF running'[r] # <<>> THEN "running" ELSE "leave run"
          BY <1>0, <3>2 DEF RunNative, Native, Goto, BindingTypeOK
        <4>4. <<obj>> # <<>>
          OBVIOUS
        <4> QED
          BY <1>0, <3>1, <4>2, <4>3, <4>4 DEF StackInv, OnlyMoves
      <3>3. CASE RunReturnsNative(r)
        <4>1. running[r] = <<obj>> /\ pc'[r] = "leave run"
          BY <1>0, <3>3 DEF StackInv, RunReturnsNative, Goto, BindingTypeOK
        <4>2. running'[r] = SubSeq(<<obj>>, 1, 0)
          <5>1. Len(<<obj>>) - 1 = 0
            OBVIOUS
          <5> QED
            BY <1>0, <3>3, <4>1, <5>1 DEF RunReturnsNative, RunEndsWith, FfiTypeOK
        <4>3. SubSeq(<<obj>>, 1, 0) = <<>>
          OBVIOUS
        <4> QED
          BY <1>0, <3>1, <4>1, <4>2, <4>3 DEF StackInv, OnlyMoves
      <3> QED
        BY <1>5, <3>2, <3>3
    <2> QED
      BY <2>5, <2>6 DEF NativeInv
  <1> QED
    BY <1>2, <1>3, <1>4, <1>5, MakeKeepsNative, CloseLocalKeepsNative, RunCallsKeepNative DEF RunStep

\* A step of one thread keeps the counts, the owners and the stacks.
LEMMA NativeInvariance ==
    ASSUME ControlInv, FfiTypeOK, NativeInv, [DotnetNext]_dotnetVars
    PROVE  NativeInv'
  <1>1. CASE UNCHANGED dotnetVars
    <2>1. /\ task' = task /\ box' = box /\ running' = running /\ refs' = refs /\ closed' = closed
          /\ disposedFlag' = disposedFlag /\ cancelHandle' = cancelHandle /\ pc' = pc
          /\ local' = local
      BY <1>1 DEF dotnetVars, ffiVars, taskVars, runVars, objVars, safeVars, callVars
    <2>2. \A h : Holders(h)' = Holders(h)
      BY <2>1 DEF Holders, Holds
    <2>3. RefInv'
      BY <2>1, <2>2 DEF NativeInv, RefInv, Counted, Owned, Made, Live
    <2>4. MadeInv' /\ CloseInv' /\ StackInv'
      BY <2>1 DEF NativeInv, MadeInv, CloseInv, StackInv, Made
    <2> QED
      BY <2>3, <2>4 DEF NativeInv
  <1>2. CASE DotnetNext
    <2>1. CASE Construct \/ With \/ WithStep
      BY <2>1, CallerKeepsNative
    <2>2. CASE \E r \in Runners : Run(r) \/ RunStep(r)
      BY <2>2, RunnerKeepsNative
    <2>3. CASE \E d \in Disposers : Dispose(d) \/ DisposeStep(d)
      BY <2>3, DisposerKeepsNative
    <2>4. CASE Cancel \/ SourceStep
      BY <2>4, SourceKeepsNative
    <2> QED
      BY <1>2, <2>1, <2>2, <2>3, <2>4 DEF DotnetNext, Begin, Proceed
  <1> QED
    BY <1>1, <1>2

\* At the start there is nothing to count.
LEMMA NativeInit == DotnetInit => NativeInv
  <1> SUFFICES ASSUME DotnetInit PROVE NativeInv
    OBVIOUS
  <1>1. /\ task = [t \in Tasks |-> None] /\ box = [h \in Handles |-> None]
        /\ running = [th \in Threads |-> <<>>]
        /\ refs = [h \in Safe |-> 0] /\ closed = [h \in Safe |-> FALSE]
        /\ disposedFlag = FALSE /\ cancelHandle = None
        /\ pc = [th \in Threads |-> "idle"] /\ local = [th \in Threads |-> None]
    BY DEF DotnetInit, Init
  <1>2. /\ Safe = {obj} \union Handles /\ Tasks = {obj} /\ obj \notin Handles
        /\ None # obj /\ None # "live"
    BY DotnetAssumption, FfiAssumption DEF Safe
  <1>3. RefInv
    <2> SUFFICES ASSUME NEW h \in Safe PROVE Counted(h)
      BY DEF RefInv
    <2>1. Holders(h) = {}
      BY <1>1 DEF Holders, Holds, UsesTask, UsesCancel, InTask, InCancel
    <2>2. Cardinality(Holders(h)) = 0
      BY <2>1, FS_EmptySet
    <2>3. ~Made(h) /\ ~Live(h)
      BY <1>1, <1>2 DEF Made, Live
    <2> QED
      BY <1>1, <2>2, <2>3 DEF Counted, Owned
  <1>4. MadeInv
    BY <1>1 DEF MadeInv
  <1>5. CloseInv
    <2>1. \A h \in Handles : ~closed[h] /\ ~Made(h)
      BY <1>1, <1>2 DEF Made
    <2> QED
      BY <1>1, <1>2, <2>1, Kinds DEF CloseInv, Disposes
  <1>6. StackInv
    BY <1>1 DEF StackInv
  <1> QED
    BY <1>3, <1>4, <1>5, <1>6 DEF NativeInv

\* The counts of the SafeHandles are right in every state: they are what is
\* held, and what they guard is freed when nothing is.
THEOREM CountsAreRight == DotnetSpec => [](ControlInv /\ FfiTypeOK /\ NativeInv)
  <1>1. DotnetInit => NativeInv
    BY NativeInit
  <1>2. ControlInv /\ FfiTypeOK /\ NativeInv /\ [DotnetNext]_dotnetVars => NativeInv'
    BY NativeInvariance
  <1> QED
    BY <1>1, <1>2, TellsTheTruth, PTL DEF DotnetSpec

-----------------------------------------------------------------------------
(* What the counts are for. *)

\* A handle that some thread holds is not freed.
LEMMA HeldIsLive ==
    ASSUME ControlInv, RefInv, NEW th \in Threads, NEW h \in Safe, Holds(th, h)
    PROVE  Live(h)
  <1>1. IsFiniteSet(Holders(h)) /\ th \in Holders(h)
    BY DotnetAssumption, FS_Subset DEF Holders
  <1>2. Cardinality(Holders(h)) \in Nat /\ Cardinality(Holders(h)) # 0
    BY <1>1, FS_CardinalityType, FS_EmptySet
  <1>3. Counted(h)
    BY DEF RefInv
  <1> QED
    BY <1>2, <1>3 DEF Counted, Owned

\* Two threads are never both in a function of the task.
LEMMA OneInTask ==
    ASSUME ControlInv, NEW th \in Threads, NEW u \in Threads, pc[th] \in InTask, pc[u] \in InTask
    PROVE  th = u
  <1>1. \A v \in Threads : pc[v] \in InTask => v \in Runners
    <2>1. \A v \in Threads : v \in Runners \/ v \in Disposers \/ v = Source
      BY DotnetAssumption
    <2> QED
      BY <2>1 DEF ControlInv, PlaceInv, InTask, Disposes, Cancels
  <1>2. th \in Runners /\ u \in Runners
    BY <1>1
  <1>3. ASSUME NEW v \in Runners, pc[v] \in InTask
        PROVE  pc[v] \in Configures \/ (Ran(v) /\ Busy(v))
    BY <1>3 DEF InTask, Configures, Ran, Runs, Claimed, Registered, Busy
  <1>4. \A v \in Runners : pc[v] \in InTask => Busy(v)
    BY DEF InTask, Busy
  <1> QED
    BY <1>2, <1>3, <1>4 DEF ControlInv, PlaceInv, ClaimInv

\* The binding is a caller as include/aer.h asks for: the task and the cancel
\* handle of a native call are not freed under it, the calls on the task come
\* one after the other, and a cancel handle is made before the run.
THEOREM KeepsTheHeader == DotnetSpec => []HeaderObeyed
  <1>1. ControlInv /\ FfiTypeOK /\ NativeInv => HeaderObeyed
    <2> SUFFICES ASSUME ControlInv, NativeInv, NEW th \in Threads
                 PROVE  /\ pc[th] \in InTask =>
                            MayUse(th, obj) /\ \A u \in Threads \ {th} : pc[u] \notin InTask
                        /\ At(th, "cancel") => box[local[th]] = obj
      BY DEF HeaderObeyed
    <2>1. RefInv /\ StackInv /\ obj \in Safe /\ Handles \subseteq Safe /\ obj \notin Handles
      BY Kinds DEF NativeInv
    <2>2. ASSUME pc[th] \in InTask
          PROVE  MayUse(th, obj) /\ \A u \in Threads \ {th} : pc[u] \notin InTask
      <3>1. \A u \in Threads \ {th} : pc[u] \notin InTask
        BY <2>2, OneInTask
      <3>2. Holds(th, obj)
        BY <2>2 DEF Holds, UsesTask
      <3>3. task[obj] = "live"
        BY <2>1, <3>2, HeldIsLive DEF Live
      <3>4. \A u \in Threads \ {th} : running[u] = <<>>
        BY <2>1, <3>1 DEF StackInv, InTask
      <3>5. \A u \in Threads \ {th} : ~InRun(u, obj)
        BY <3>4 DEF InRun
      <3> QED
        BY <3>1, <3>3, <3>5 DEF MayUse
    <2>3. ASSUME At(th, "cancel") PROVE box[local[th]] = obj
      <3>1. pc[th] = "cancel" /\ local[th] \in Handles
        BY <2>3, HandleAtHand DEF At, Cancels
      <3>2. Holds(th, local[th])
        BY <2>1, <3>1 DEF Holds, UsesCancel, InCancel
      <3>3. Live(local[th])
        BY <2>1, <3>1, <3>2, HeldIsLive
      <3> QED
        BY <2>1, <3>1, <3>3 DEF Live
    <2> QED
      BY <2>2, <2>3
  <1> QED
    BY <1>1, CountsAreRight, PTL

\* When no call is under way every cancel handle is freed, and so is the task
\* once it is disposed: a release that comes late, from a run or from a
\* callback, still frees.
THEOREM LeaksNothing == DotnetSpec => []NothingLeaks
  <1>1. ControlInv /\ FfiTypeOK /\ NativeInv => NothingLeaks
    <2> SUFFICES ASSUME ControlInv, NativeInv, \A th \in Threads : ~Busy(th)
                 PROVE  /\ \A h \in Handles : box[h] # obj
                        /\ disposedFlag => task[obj] # "live"
      BY DEF NothingLeaks
    <2>1. RefInv /\ CloseInv /\ obj \in Safe /\ Handles \subseteq Safe /\ obj \notin Handles
          /\ Runners \subseteq Threads /\ Disposers \subseteq Threads
      BY Kinds DEF NativeInv
    <2>2. \A th \in Threads : pc[th] \in {"idle", "done"}
      BY DEF Busy
    <2>3. ASSUME NEW h \in Safe, closed[h] PROVE ~Live(h)
      <3>1. Holders(h) = {}
        BY <2>2 DEF Holders, Holds, UsesTask, UsesCancel, InTask, InCancel
      <3>2. Cardinality(Holders(h)) = 0
        BY <3>1, FS_EmptySet
      <3>3. Counted(h)
        BY <2>1 DEF RefInv
      <3>4. refs[h] = 0
        BY <2>3, <3>2, <3>3 DEF Counted, Owned
      <3> QED
        BY <3>3, <3>4 DEF Counted
    <2>4. ASSUME NEW h \in Handles PROVE box[h] # obj
      <3>1. \A r \in Runners : pc[r] \notin Runs
        BY <2>1, <2>2 DEF Runs, Claimed, Registered, Cancels
      <3>2. Made(h) => closed[h]
        BY <2>1, <3>1 DEF CloseInv
      <3>3. ~Live(h)
        <4>1. CASE closed[h]
          BY <2>1, <2>3, <4>1
        <4>2. CASE ~Made(h)
          BY <2>1, <4>2, DotnetAssumption, FfiAssumption DEF Made, Live
        <4> QED
          BY <3>2, <4>1, <4>2
      <3> QED
        BY <2>1, <3>3 DEF Live
    <2>5. ASSUME disposedFlag PROVE task[obj] # "live"
      <3>1. \A d \in Disposers : pc[d] \notin Disposes
        BY <2>1, <2>2 DEF Disposes
      <3>2. closed[obj]
        BY <2>1, <2>5, <3>1 DEF CloseInv
      <3> QED
        BY <2>1, <2>3, <3>2 DEF Live
    <2> QED
      BY <2>4, <2>5
  <1> QED
    BY <1>1, CountsAreRight, PTL

\* No SafeHandle is released more often than it is held, and none has more
\* references than one for its owner and one for each thread.
THEOREM BindingTyped == DotnetSpec => []DotnetTypeOK
  <1>1. ControlInv /\ ToldInv /\ NativeInv => DotnetTypeOK
    <2> SUFFICES ASSUME ControlInv, ToldInv, NativeInv PROVE DotnetTypeOK
      OBVIOUS
    <2>1. ASSUME NEW h \in Safe PROVE refs[h] \in 0 .. 1 + Cardinality(Threads)
      <3>1. /\ IsFiniteSet(Threads) /\ IsFiniteSet(Holders(h))
            /\ Cardinality(Holders(h)) <= Cardinality(Threads)
        BY DotnetAssumption, FS_Subset DEF Holders
      <3>2. Cardinality(Threads) \in Nat /\ Cardinality(Holders(h)) \in Nat
        BY <3>1, FS_CardinalityType
      <3>3. refs[h] = Owned(h) + Cardinality(Holders(h)) /\ Owned(h) \in {0, 1}
        BY DEF NativeInv, RefInv, Counted, Owned
      <3> QED
        BY <3>1, <3>2, <3>3
    <2>2. refs \in [Safe -> 0 .. 1 + Cardinality(Threads)]
      BY <2>1 DEF ControlInv, BindingTypeOK
    <2> QED
      BY <2>2 DEF DotnetTypeOK, ControlInv, BindingTypeOK, ToldInv
  <1> QED
    BY <1>1, CountsAreRight, TellsTheTruth, PTL

-----------------------------------------------------------------------------
(* Who meets a closed handle. *)

\* An add-ref is refused only if the handle was closed, by Dispose or by the
\* run that has ended.
LEMMA RefusedIsClosed ==
    ASSUME ControlInv, NativeInv, NEW h \in Safe, Made(h), refs[h] = 0
    PROVE  disposedFlag \/ \E q \in Runners : local[q] = h /\ pc[q] = "done"
  <1>1. Cardinality(Holders(h)) \in Nat
    <2>1. IsFiniteSet(Holders(h))
      BY DotnetAssumption, FS_Subset DEF Holders
    <2> QED
      BY <2>1, FS_CardinalityType
  <1>2. Counted(h) /\ CloseInv
    BY DEF NativeInv, RefInv
  <1>3. closed[h]
    BY <1>1, <1>2 DEF Counted, Owned
  <1>4. h = obj \/ h \in Handles
    BY DotnetAssumption DEF Safe
  <1> QED
    BY <1>2, <1>3, <1>4 DEF CloseInv

\* A cancel handle of a run that goes on is not closed by that run.
LEMMA RefusedByDispose ==
    ASSUME ControlInv, NativeInv, NEW r \in Runners, local[r] # None, pc[r] # "done",
           refs[local[r]] = 0
    PROVE  disposedFlag
  <1>1. local[r] \in Safe /\ Made(local[r])
    BY Kinds DEF ControlInv, BindingTypeOK, NativeInv, MadeInv
  <1>2. ASSUME NEW q \in Runners, local[q] = local[r], pc[q] = "done" PROVE FALSE
    <2>1. Ran(q) /\ Ran(r)
      BY <1>2 DEF Ran
    <2>2. q = r
      BY <2>1 DEF ControlInv, ClaimInv
    <2> QED
      BY <1>2, <2>2
  <1> QED
    BY <1>1, <1>2, RefusedIsClosed

\* A run that is refused the task or its handle is refused them by Dispose ...
LEMMA RunRefused ==
    ASSUME ControlInv, NativeInv, NEW r \in Runners, RunDisposed(r)
    PROVE  disposedFlag
  <1>1. CASE pc[r] \in {"enter make", "enter run"} /\ refs[obj] = 0
    <2>1. Made(obj) /\ obj \in Safe
      BY <1>1, Kinds DEF NativeInv, MadeInv
    <2>2. \A q \in Runners : local[q] # obj
      BY Kinds, DotnetAssumption, FfiAssumption DEF ControlInv, BindingTypeOK
    <2> QED
      BY <1>1, <2>1, <2>2, RefusedIsClosed
  <1>2. CASE pc[r] = "enter cancel" /\ refs[local[r]] = 0
    <2>1. local[r] # None
      BY <1>2, HandleAtHand, Kinds DEF Cancels
    <2> QED
      BY <1>2, <2>1, RefusedByDispose
  <1> QED
    BY <1>1, <1>2 DEF RunDisposed, At

\* ... and so is a callback, which its run waits for before it closes.
LEMMA CallbackRefused ==
    ASSUME ControlInv, NativeInv, CallbackDisposed
    PROVE  disposedFlag
  <1>1. pc[Source] = "enter cancel" /\ refs[local[Source]] = 0
    BY DEF CallbackDisposed, At
  <1>2. PICK r \in Runners : registration[r] = "called" /\ local[Source] = local[r]
    BY <1>1 DEF ControlInv, CallbackInv, Cancels
  <1>3. pc[r] # "done" /\ local[r] # None
    BY <1>2 DEF ControlInv, CallbackInv, Registered
  <1> QED
    BY <1>1, <1>2, <1>3, RefusedByDispose

\* An exception that appears in a step and says that the object is disposed.
Says(r) == thrown[r] # None /\ thrown[r].type = "ObjectDisposedException"

\* A run's step.
LEMMA RunnerSays ==
    ASSUME ControlInv, FfiTypeOK, RunErrorIsExplained, NativeInv, ToldInv,
           NEW r \in Runners, Run(r) \/ RunStep(r), ~disposedFlag, NEW q \in Runners, Says(q)'
    PROVE  Says(q)
  <1>0. /\ thrown \in [Runners -> Exceptions \union {None}]
        /\ BindingTypeOK
    BY DEF ToldInv, ControlInv
  <1>1. CASE UNCHANGED thrown
    BY <1>1 DEF Says
  <1>2. ASSUME NEW x, thrown' = [thrown EXCEPT ![r] = x], x.type # "ObjectDisposedException"
        PROVE  Says(q)
    <2>1. q # r
      BY <1>0, <1>2 DEF Says
    <2>2. thrown'[q] = thrown[q]
      BY <1>0, <1>2, <2>1
    <2> QED
      BY <2>2 DEF Says
  <1>3. CASE Run(r)
    BY <1>1, <1>3 DEF Run, ThrowIfDisposed
  <1>4. CASE Claim(r)
    <2>1. CASE UNCHANGED thrown
      BY <1>1, <2>1
    <2>2. CASE Throws(r, "InvalidOperationException", None, None)
      <3> DEFINE x == [type |-> "InvalidOperationException", code |-> None, message |-> None]
      <3>1. thrown' = [thrown EXCEPT ![r] = x] /\ x.type # "ObjectDisposedException"
        BY <2>2 DEF Throws
      <3> HIDE DEF x
      <3> QED
        BY <1>2, <3>1
    <2> QED
      BY <1>4, <2>1, <2>2 DEF Claim
  <1>5. CASE RunDisposed(r)
    BY <1>5, RunRefused
  <1>6. CASE BuildRunException(r)
    <2>1. PICK x : thrown' = [thrown EXCEPT ![r] = x]
      BY <1>0, <1>6, ToldOfException
    <2>2. thrown'[r] = x /\ thrown'[r].type # "ObjectDisposedException"
      BY <1>0, <1>6, <2>1, ToldOfException
    <2> QED
      BY <1>2, <2>1, <2>2
  <1>7. CASE RunStep(r) /\ ~Claim(r) /\ ~RunDisposed(r) /\ ~BuildRunException(r)
    <2>1. UNCHANGED thrown
      BY <1>7 DEF RunStep, Enter, Leave, MakeNative, Publish, Register, CancelNative, RunNative,
                  RunReturnsNative, Native, Unregister, ClearField, CloseLocal, callVars
    <2> QED
      BY <1>1, <2>1
  <1> QED
    BY <1>3, <1>4, <1>5, <1>6, <1>7

\* The others throw nothing to a run.
LEMMA OthersSayNothing ==
    ASSUME Construct \/ With \/ WithStep \/ Cancel \/ SourceStep
            \/ \E d \in Disposers : Dispose(d) \/ DisposeStep(d)
    PROVE  UNCHANGED thrown
  <1>1. CASE Construct \/ With \/ WithStep
    BY <1>1 DEF Construct, With, WithStep, WithDisposed, WithNative, Enter, Leave, Moves, Native,
                callVars
  <1>2. CASE Cancel \/ SourceStep
    BY <1>2 DEF Cancel, SourceStep, Notify, NoMore, CallbackDisposed, CancelNative, Called, Enter,
                Moves, Native, callVars
  <1>3. CASE \E d \in Disposers : Dispose(d) \/ DisposeStep(d)
    BY <1>3 DEF Dispose, DisposeStep, ReadField, CloseSeen, CloseTask, callVars
  <1> QED
    BY <1>1, <1>2, <1>3

\* Cancel throws only from a callback that is refused its handle.
LEMMA OnlyCallbackThrows ==
    ASSUME DotnetNext, ~CallbackDisposed
    PROVE  cancelThrew' = cancelThrew \/ cancelThrew' = (cancelThrew \/ FALSE)
  <1>1. CASE Construct \/ With \/ WithStep
    BY <1>1 DEF Construct, With, WithStep, WithDisposed, WithNative, Enter, Leave, Moves, Native,
                tokenVars
  <1>2. CASE Cancel \/ SourceStep
    BY <1>2 DEF Cancel, SourceStep, Notify, NoMore, CancelNative, Called, CallbackOver, Enter,
                Moves, Native, tokenVars
  <1>3. CASE \E d \in Disposers : Dispose(d) \/ DisposeStep(d)
    BY <1>3 DEF Dispose, DisposeStep, ReadField, CloseSeen, CloseTask, tokenVars
  <1>4. ASSUME NEW r \in Runners, Run(r) \/ RunStep(r) PROVE cancelThrew' = cancelThrew
    BY <1>4 DEF Run, RunStep, Claim, Enter, Leave, MakeNative, Publish, Register, RunDisposed,
                CancelNative, RunNative, RunReturnsNative, Native, BuildRunException, Unregister,
                ClearField, CloseLocal, tokenVars
  <1> QED
    BY <1>1, <1>2, <1>3, <1>4 DEF DotnetNext, Begin, Proceed

\* Dispose is for good.
LEMMA DisposedStays ==
    ASSUME DotnetNext, disposedFlag
    PROVE  disposedFlag'
  <1>1. CASE Construct \/ With \/ WithStep
    BY <1>1 DEF Construct, With, WithStep, WithDisposed, WithNative, Enter, Leave, Moves, Native,
                objVars
  <1>2. CASE Cancel \/ SourceStep
    BY <1>2 DEF Cancel, SourceStep, Notify, NoMore, CallbackDisposed, CancelNative, Called, Enter,
                Moves, Native, objVars
  <1>3. CASE \E d \in Disposers : Dispose(d) \/ DisposeStep(d)
    BY <1>3 DEF Dispose, DisposeStep, ReadField, CloseSeen, CloseTask, objVars
  <1>4. ASSUME NEW r \in Runners, Run(r) \/ RunStep(r) PROVE disposedFlag'
    BY <1>4 DEF Run, RunStep, Claim, Enter, Leave, MakeNative, Publish, Register, RunDisposed,
                CancelNative, RunNative, RunReturnsNative, Native, BuildRunException, Unregister,
                ClearField, CloseLocal, objVars
  <1> QED
    BY <1>1, <1>2, <1>3, <1>4 DEF DotnetNext, Begin, Proceed

\* ObjectDisposedException reaches a run or the thread that cancels the token
\* only after Dispose: the finally of RunCore undoes the registration, which
\* waits for the callback, before it closes the handle the callback uses.
THEOREM DisposeIsToBlame == DotnetSpec => []DisposedOnlyByDispose
  <1>1. DotnetInit => DisposedOnlyByDispose
    BY DEF DotnetInit, DisposedOnlyByDispose
  <1>2. /\ ControlInv /\ FfiTypeOK /\ RunErrorIsExplained /\ NativeInv /\ ToldInv
        /\ DisposedOnlyByDispose /\ [DotnetNext]_dotnetVars
        => DisposedOnlyByDispose'
    <2> SUFFICES ASSUME ControlInv, FfiTypeOK, RunErrorIsExplained, NativeInv, ToldInv,
                        DisposedOnlyByDispose, [DotnetNext]_dotnetVars
                 PROVE  DisposedOnlyByDispose'
      OBVIOUS
    <2>1. CASE UNCHANGED dotnetVars
      BY <2>1 DEF dotnetVars, objVars, tokenVars, callVars, DisposedOnlyByDispose
    <2>2. CASE DotnetNext /\ disposedFlag
      BY <2>2, DisposedStays DEF DisposedOnlyByDispose
    <2>3. CASE DotnetNext /\ ~disposedFlag
      <3>1. ~cancelThrew /\ \A q \in Runners : ~Says(q)
        BY <2>3 DEF DisposedOnlyByDispose, Says
      <3>2. ~cancelThrew'
        BY <2>3, <3>1, OnlyCallbackThrows, CallbackRefused
      <3>3. ASSUME NEW q \in Runners PROVE ~Says(q)'
        <4>1. CASE \E r \in Runners : Run(r) \/ RunStep(r)
          BY <2>3, <3>1, <4>1, RunnerSays
        <4>2. CASE Construct \/ With \/ WithStep \/ Cancel \/ SourceStep
                    \/ \E d \in Disposers : Dispose(d) \/ DisposeStep(d)
          BY <3>1, <4>2, OthersSayNothing DEF Says
        <4> QED
          BY <2>3, <4>1, <4>2 DEF DotnetNext, Begin, Proceed
      <3> QED
        BY <3>2, <3>3 DEF DisposedOnlyByDispose, Says
    <2> QED
      BY <2>1, <2>2, <2>3
  <1>3. DotnetSpec => []RunErrorIsExplained
    BY BindingCallsTheAbi, ErrorsAreExplained, PTL
  <1> QED
    BY <1>1, <1>2, <1>3, CountsAreRight, TellsTheTruth, PTL DEF DotnetSpec

-----------------------------------------------------------------------------
(* AerFfi's guards, which stand for what the header asks, hold nothing back. *)

\* A thread is about to release the task or a cancel handle: at the end of a
\* call, in the finally of RunCore or in Dispose.
GivesUp(th, h) ==
    \/ Holds(th, h) /\ pc[th] \notin InTask \union InCancel
    \/ /\ ~closed[h]
       /\ \/ pc[th] = "close task" /\ h = obj
          \/ pc[th] \in {"close", "close seen"} /\ h = local[th]

\* The thread with the last reference frees what is allocated, and frees no
\* task in its run.
FreesAsAllowed ==
    \A th \in Threads, h \in Safe :
        GivesUp(th, h) /\ refs[h] = 1 =>
            Live(h) /\ (h = obj => \A u \in Threads : ~InRun(u, obj))

\* The frees of SafeHandle are calls include/aer.h allows, so that no step of
\* DotnetTask is left out because AerFfi refuses a free: a Dispose during a
\* run leaves the free of the task to the return of that run.
THEOREM FreesInTime == DotnetSpec => []FreesAsAllowed
  <1>1. ControlInv /\ FfiTypeOK /\ NativeInv => FreesAsAllowed
    <2> SUFFICES ASSUME ControlInv, NativeInv, NEW th \in Threads, NEW h \in Safe,
                        GivesUp(th, h), refs[h] = 1
                 PROVE  Live(h) /\ (h = obj => \A u \in Threads : ~InRun(u, obj))
      BY DEF FreesAsAllowed
    <2>1. Counted(h) /\ StackInv /\ MadeInv
      BY DEF NativeInv, RefInv
    <2>2. Live(h)
      BY <2>1 DEF Counted
    <2>3. ASSUME h = obj, NEW u \in Threads, InRun(u, obj) PROVE FALSE
      <3>1. pc[u] = "running"
        <4>1. running[u] # <<>>
          BY <2>3 DEF InRun
        <4> QED
          BY <2>1, <4>1 DEF StackInv
      <3>2. u \in Holders(h) /\ IsFiniteSet(Holders(h))
        BY <2>3, <3>1, DotnetAssumption, FS_Subset DEF Holders, Holds, UsesTask, InTask
      <3>3. Cardinality(Holders(h)) \in Nat /\ Cardinality(Holders(h)) # 0
        BY <3>2, FS_CardinalityType, FS_EmptySet
      <3>4. CASE Holds(th, h) /\ pc[th] \notin InTask
        <4>1. th \in Holders(h) /\ th # u
          BY <3>1, <3>4 DEF Holders, InTask
        <4>2. /\ IsFiniteSet(Holders(h) \ {th}) /\ u \in Holders(h) \ {th}
              /\ Cardinality(Holders(h) \ {th}) = Cardinality(Holders(h)) - 1
          BY <3>2, <4>1, FS_RemoveElement
        <4>3. Cardinality(Holders(h) \ {th}) \in Nat /\ Cardinality(Holders(h) \ {th}) # 0
          BY <4>2, FS_CardinalityType, FS_EmptySet
        <4> QED
          BY <2>1, <3>3, <4>2, <4>3 DEF Counted, Owned
      <3>5. CASE ~closed[h] /\ pc[th] = "close task"
        <4>1. th # Source
          BY <3>5 DEF ControlInv, PlaceInv, Cancels
        <4>2. Made(h)
          BY <2>1, <2>3, <3>5, <4>1 DEF MadeInv
        <4>3. Owned(h) = 1
          BY <3>5, <4>2 DEF Owned
        <4>4. refs[h] = 1 + Cardinality(Holders(h))
          BY <2>1, <4>3 DEF Counted
        <4> QED
          BY <3>3, <4>4
      <3>6. h # local[th]
        <4>1. local[th] \in Handles \union {None}
          BY DEF ControlInv, BindingTypeOK
        <4>2. obj # None
          BY DotnetAssumption, FfiAssumption
        <4> QED
          BY <2>3, <4>1, <4>2, Kinds
      <3> QED
        BY <3>4, <3>5, <3>6 DEF GivesUp
    <2> QED
      BY <2>2, <2>3
  <1> QED
    BY <1>1, CountsAreRight, PTL

-----------------------------------------------------------------------------
(* Why a run throws what it throws. *)

Makes == {"enter make", "make", "leave make", "publish", "register"}
Before == Makes \union Cancels \union {"enter run", "run"}

\* Nothing is cancelled before the token is.
RequestInv ==
    /\ \A h \in Handles : cancelled[h] => requested
    /\ \A th \in Threads : pc[th] \in Cancels => requested
    /\ pc[Source] # "idle" => requested

\* The cancel handle of the task is a run's, and that run has a token.
OwnInv ==
    /\ cancel[obj] # None => \E r \in Runners : local[r] = cancel[obj]
    /\ \A r \in Runners : local[r] # None \/ pc[r] \in Makes => token[r]

\* The binding's flag is raised before has_run, by the run that will raise it.
OnceInv ==
    /\ has_run[obj] => hasRunFlag
    /\ \A r \in Runners : pc[r] \in Before => ~has_run[obj]

\* The result and then the exception of a run have the cause they name.
Earned(r) ==
    /\ pc[r] \in {"leave run", "throw"} =>
        /\ last[r] = "Cancelled" => requested /\ token[r]
        /\ last[r] = "TimedOut" => accepted[obj]["timeout"] # None
        /\ last[r] # "Rejected"
    /\ thrown[r] # None =>
        /\ thrown[r].type = "AerCancelException" => requested /\ token[r]
        /\ thrown[r].type = "AerTimeoutException" => accepted[obj]["timeout"] # None
        /\ thrown[r].code # "AlreadyRun"

EarnedInv == RequestInv /\ OwnInv /\ OnceInv /\ \A r \in Runners : Earned(r)

\* A step of one thread: it takes no cause away, and does not touch what the
\* other threads have.
LeavesCauses(th) ==
    /\ OnlyMoves(th) /\ \A u \in Threads \ {th} : last'[u] = last[u]
    /\ \A q \in Runners \ {th} : token'[q] = token[q] /\ thrown'[q] = thrown[q]
    /\ requested => requested'
    /\ hasRunFlag => hasRunFlag'
    /\ accepted[obj]["timeout"] # None => accepted'[obj]["timeout"] # None
    /\ \A h \in Handles : cancelled'[h] => cancelled[h] \/ requested

\* Such a step keeps the invariant, if what its own thread has is right.
LEMMA EarnedStays ==
    ASSUME ControlInv, EarnedInv, NEW th \in Threads, LeavesCauses(th),
           pc'[th] \in Cancels => requested',
           th = Source /\ pc'[th] # "idle" => requested',
           cancel'[obj] = cancel[obj] \/ (th \in Runners /\ local'[th] = cancel'[obj]),
           \/ has_run'[obj] = has_run[obj]
           \/ th \in Runners /\ pc[th] = "run" /\ pc'[th] \notin Before,
           th \in Runners =>
                /\ local'[th] = local[th] \/ local[th] = None
                /\ local'[th] # None \/ pc'[th] \in Makes => token'[th]
                /\ pc'[th] \in Before => ~has_run[obj]
                /\ Earned(th)'
    PROVE  EarnedInv'
  <1>0. /\ RequestInv /\ OwnInv /\ OnceInv /\ ClaimInv /\ \A q \in Runners : Earned(q)
        /\ Source \in Threads /\ Runners \subseteq Threads
        /\ \A u \in Threads \ {th} : pc'[u] = pc[u] /\ local'[u] = local[u] /\ last'[u] = last[u]
    BY Kinds DEF EarnedInv, ControlInv, LeavesCauses, OnlyMoves
  <1>1. RequestInv'
    <2>1. \A h \in Handles : cancelled'[h] => requested'
      BY <1>0 DEF RequestInv, LeavesCauses
    <2>2. ASSUME NEW u \in Threads, pc'[u] \in Cancels PROVE requested'
      BY <1>0, <2>2 DEF RequestInv, LeavesCauses
    <2>3. pc'[Source] # "idle" => requested'
      BY <1>0 DEF RequestInv, LeavesCauses
    <2> QED
      BY <2>1, <2>2, <2>3 DEF RequestInv
  <1>2. OwnInv'
    <2>1. ASSUME cancel'[obj] # None PROVE \E q \in Runners : local'[q] = cancel'[obj]
      <3>1. CASE th \in Runners /\ local'[th] = cancel'[obj]
        BY <3>1
      <3>2. CASE cancel'[obj] = cancel[obj]
        <4>1. PICK q \in Runners : local[q] = cancel[obj]
          BY <1>0, <2>1, <3>2 DEF OwnInv
        <4>2. local'[q] = local[q]
          BY <1>0, <2>1, <3>2, <4>1
        <4> QED
          BY <3>2, <4>1, <4>2
      <3> QED
        BY <3>1, <3>2
    <2>2. ASSUME NEW q \in Runners, local'[q] # None \/ pc'[q] \in Makes PROVE token'[q]
      <3>1. CASE q = th
        BY <2>2, <3>1
      <3>2. CASE q # th
        BY <1>0, <2>2, <3>2 DEF OwnInv, LeavesCauses
      <3> QED
        BY <3>1, <3>2
    <2> QED
      BY <2>1, <2>2 DEF OwnInv
  <1>3. OnceInv'
    <2>1. CASE has_run'[obj] = has_run[obj]
      <3>1. has_run'[obj] => hasRunFlag'
        BY <1>0, <2>1 DEF OnceInv, LeavesCauses
      <3>2. ASSUME NEW q \in Runners, pc'[q] \in Before PROVE ~has_run'[obj]
        BY <1>0, <2>1, <3>2 DEF OnceInv
      <3> QED
        BY <3>1, <3>2 DEF OnceInv
    <2>2. CASE th \in Runners /\ pc[th] = "run" /\ pc'[th] \notin Before
      <3>1. Ran(th)
        BY <2>2 DEF Ran, Runs, Registered
      <3>2. hasRunFlag'
        BY <1>0, <2>2, <3>1 DEF ClaimInv, LeavesCauses
      <3>3. ASSUME NEW q \in Runners, pc'[q] \in Before PROVE FALSE
        <4>1. q # th
          BY <2>2, <3>3
        <4>2. Ran(q)
          BY <1>0, <3>3, <4>1 DEF Ran, Runs, Claimed, Registered, Before, Makes
        <4> QED
          BY <1>0, <2>2, <3>1, <4>1, <4>2 DEF ClaimInv
      <3> QED
        BY <3>2, <3>3 DEF OnceInv
    <2> QED
      BY <2>1, <2>2
  <1>4. ASSUME NEW q \in Runners PROVE Earned(q)'
    <2>1. CASE q = th
      BY <2>1
    <2>2. CASE q # th
      <3>1. pc'[q] = pc[q] /\ last'[q] = last[q] /\ token'[q] = token[q] /\ thrown'[q] = thrown[q]
        BY <1>0, <2>2 DEF LeavesCauses
      <3>2. Earned(q)
        BY <1>0
      <3> QED
        BY <3>1, <3>2 DEF Earned, LeavesCauses
    <2> QED
      BY <2>1, <2>2
  <1> QED
    BY <1>1, <1>2, <1>3, <1>4 DEF EarnedInv

\* A timeout that was accepted is never taken back.
LEMMA TimeoutStays ==
    ASSUME FfiTypeOK, NEW th \in Threads, Calls(th), accepted[obj]["timeout"] # None
    PROVE  accepted'[obj]["timeout"] # None
  <1>0. obj \in Tasks /\ accepted \in [Tasks -> Config] /\ None \notin Values
    BY DotnetAssumption, EnvAssumption DEF FfiTypeOK
  <1>1. CASE accepted' = accepted
    BY <1>1
  <1>2. ASSUME NEW f \in Settings, NEW v, f = "timeout" => v # None,
               accepted' = [accepted EXCEPT ![obj][f] = v]
        PROVE  accepted'[obj]["timeout"] # None
    <2>1. accepted'[obj] = [accepted[obj] EXCEPT ![f] = v]
      BY <1>0, <1>2
    <2>2. accepted[obj] \in [Settings -> Values \union BOOLEAN \union {None}]
      BY <1>0 DEF Config
    <2> QED
      BY <1>2, <2>1, <2>2 DEF Settings
  <1>3. CASE TaskCall(th, obj)
    <2>1. ASSUME NEW valid, NEW f \in Settings, NEW v, f = "timeout" => v # None,
                 Configure(th, obj, valid, Set(obj, f, v))
          PROVE  accepted'[obj]["timeout"] # None
      BY <1>1, <1>2, <2>1 DEF Configure, Set, askedVars
    <2>2. CASE aer_task_with_timeout(th, obj)
      BY <1>0, <2>1, <2>2 DEF aer_task_with_timeout, Settings
    <2>3. CASE aer_task_with_capture_output(th, obj) \/ aer_task_set_clear_env(th, obj)
               \/ aer_task_set_cwd(th, obj)
      BY <2>1, <2>3 DEF aer_task_with_capture_output, aer_task_set_clear_env, aer_task_set_cwd,
                        Settings
    <2>4. CASE \/ aer_task_new(th, obj) \/ aer_task_free(th, obj) \/ aer_task_run(th, obj)
               \/ aer_task_set_env(th, obj)
               \/ \E h \in Handles : aer_task_make_cancel_handle(th, obj, h)
      BY <1>1, <2>4 DEF aer_task_new, aer_task_free, aer_task_run, aer_task_set_env,
                        aer_task_make_cancel_handle, Configure, SetEnv, askedVars
    <2> QED
      BY <1>3, <2>2, <2>3, <2>4 DEF TaskCall
  <1>4. CASE ~TaskCall(th, obj)
    BY <1>1, <1>4 DEF Calls, RunEnds, RunEndsWith, aer_cancel, aer_cancel_free, askedVars, ffiVars
  <1> QED
    BY <1>3, <1>4

\* Nobody but a run gives it a cause: not the owner, who configures, ...
LEMMA CallerLeavesCauses ==
    ASSUME ControlInv, FfiTypeOK, ToldInv, EarnedInv, Construct \/ With \/ WithStep
    PROVE  EarnedInv'
  <1>0. Owner \in Threads /\ Owner \in Runners /\ Owner # Source /\ BindingTypeOK /\ OnlyMoves(Owner)
    BY Kinds, StepsMoveOne DEF ControlInv
  <1>1. UNCHANGED <<cancelled, cancel, has_run>>
    <2>1. CASE WithNative
      BY <2>1 DEF WithNative, Configure, aer_task_with_timeout, aer_task_with_capture_output,
                  aer_task_set_env, aer_task_set_clear_env, aer_task_set_cwd
    <2>2. CASE ~WithNative
      BY <2>2 DEF Construct, With, WithStep, WithDisposed, Enter, Leave, Moves, Native, Release,
                  aer_task_new, aer_task_free, aer_cancel_free, ffiVars, taskVars
    <2> QED
      BY <2>1, <2>2
  <1>2. UNCHANGED <<local, token, thrown, requested, hasRunFlag>>
    BY DEF Construct, With, WithStep, WithDisposed, WithNative, Enter, Leave, Moves, Native,
           callVars, tokenVars, objVars
  <1>3. pc[Owner] \in {"idle"} \union Configures /\ pc'[Owner] \in {"idle"} \union Configures
    <2>1. CASE Construct
      BY <2>1 DEF Construct, At
    <2>2. CASE With \/ WithStep
      <3>1. PICK from \in {"idle"} \union Configures, to \in {"idle"} \union Configures :
                pc[Owner] = from /\ Goto(Owner, to)
        BY <2>2 DEF With, WithStep, WithNative, WithDisposed, Enter, Leave, Moves, Native, At,
                    Configures
      <3> QED
        BY <1>0, <3>1, Moved, PlacesNamed
    <2> QED
      BY <2>1, <2>2
  <1>4. LeavesCauses(Owner)
    BY <1>0, <1>1, <1>2, CallerCalls, LastIsOwn, TimeoutStays DEF LeavesCauses
  <1>5. pc'[Owner] \notin Before \union {"leave run", "throw"} /\ pc[Owner] \notin Ended
    BY <1>3 DEF Before, Makes, Cancels, Configures, Ended
  <1>6. thrown[Owner] = None
    BY <1>0, <1>5 DEF ToldInv, Told
  <1>7. Earned(Owner)' /\ pc'[Owner] \notin Makes /\ pc'[Owner] \notin Cancels
    BY <1>2, <1>5, <1>6 DEF Earned, Before
  <1>8. local'[Owner] # None => token'[Owner]
    BY <1>0, <1>2 DEF EarnedInv, OwnInv
  <1> QED
    BY <1>0, <1>1, <1>2, <1>4, <1>5, <1>7, <1>8, EarnedStays

\* ... not Dispose, ...
LEMMA DisposerLeavesCauses ==
    ASSUME ControlInv, FfiTypeOK, EarnedInv, NEW d \in Disposers, Dispose(d) \/ DisposeStep(d)
    PROVE  EarnedInv'
  <1>0. d \in Threads /\ d \notin Runners /\ d # Source /\ BindingTypeOK /\ OnlyMoves(d)
    BY Kinds, StepsMoveOne DEF ControlInv
  <1>1. UNCHANGED <<cancelled, cancel, has_run>>
    BY DEF Dispose, DisposeStep, ReadField, CloseSeen, CloseTask, Close, Release, aer_task_free,
           aer_cancel_free, ffiVars, taskVars
  <1>2. UNCHANGED <<token, thrown, requested, hasRunFlag>>
    BY DEF Dispose, DisposeStep, ReadField, CloseSeen, CloseTask, callVars, tokenVars, objVars
  <1>3. LeavesCauses(d)
    BY <1>0, <1>1, <1>2, DisposerCalls, LastIsOwn, TimeoutStays DEF LeavesCauses
  <1>4. pc'[d] \notin Cancels
    <2>1. PICK to \in {"done"} \union Disposes : Goto(d, to)
      BY DEF Dispose, DisposeStep, ReadField, CloseSeen, CloseTask, Disposes
    <2> QED
      BY <1>0, <2>1, Moved, PlacesNamed DEF Disposes, Cancels
  <1> QED
    BY <1>0, <1>1, <1>3, <1>4, EarnedStays

\* ... and the token's source only its cancellation.
LEMMA SourceLeavesCauses ==
    ASSUME ControlInv, FfiTypeOK, EarnedInv, Cancel \/ SourceStep
    PROVE  EarnedInv'
  <1>0. Source \in Threads /\ Source \notin Runners /\ BindingTypeOK /\ OnlyMoves(Source)
    BY Kinds, StepsMoveOne DEF ControlInv
  <1>1. UNCHANGED <<cancel, has_run, token, thrown, hasRunFlag>>
    BY DEF Cancel, SourceStep, Notify, NoMore, CallbackDisposed, CancelNative, Called, Enter,
           Moves, Native, Release, aer_cancel, aer_task_free, aer_cancel_free, ffiVars, taskVars,
           callVars, objVars
  <1>2. requested'
    <2>1. CASE Cancel
      BY <2>1 DEF Cancel
    <2>2. CASE SourceStep
      <3>1. pc[Source] # "idle"
        BY <2>2 DEF SourceStep, Notify, NoMore, CallbackDisposed, CancelNative, Called, Moves,
                    Native, At
      <3>2. requested' = requested
        BY <2>2 DEF SourceStep, Notify, NoMore, CallbackDisposed, CancelNative, Called, Enter,
                    Moves, Native, tokenVars
      <3> QED
        BY <3>1, <3>2 DEF EarnedInv, RequestInv
    <2> QED
      BY <2>1, <2>2
  <1>3. \A h \in Handles : cancelled'[h] => cancelled[h] \/ requested
    <2>1. CASE CancelNative(Source)
      <3>1. requested
        BY <1>0, <2>1 DEF CancelNative, Native, At, Cancels, EarnedInv, RequestInv
      <3> QED
        BY <3>1
    <2>2. CASE ~CancelNative(Source)
      <3>1. cancelled' = cancelled
        BY <2>2 DEF Cancel, SourceStep, Notify, NoMore, CallbackDisposed, Called, Enter, Moves,
                    Native, Release, aer_task_free, aer_cancel_free, ffiVars
      <3> QED
        BY <3>1
    <2> QED
      BY <2>1, <2>2
  <1>4. LeavesCauses(Source)
    BY <1>0, <1>1, <1>2, <1>3, SourceCalls, LastIsOwn, TimeoutStays DEF LeavesCauses
  <1> QED
    BY <1>0, <1>1, <1>2, <1>4, EarnedStays

\* A run that moves on, without a result and without an exception.
LEMMA RunMovesOn ==
    ASSUME ControlInv, FfiTypeOK, EarnedInv, NEW r \in Runners, Run(r) \/ RunStep(r),
           NEW from \in Places, NEW to \in Places, pc[r] = from, Goto(r, to),
           UNCHANGED <<cancel, has_run, local, token, requested, hasRunFlag, thrown>>,
           cancelled' = cancelled \/ requested,
           to \in Cancels => requested, to \in Makes => from \in Makes, to \in Before => from \in Before,
           to \in {"leave run", "throw"} => from \in {"leave run", "throw"} /\ last' = last
    PROVE  EarnedInv'
  <1>0. /\ r \in Threads /\ r # Source /\ BindingTypeOK /\ OnlyMoves(r) /\ Calls(r)
        /\ RequestInv /\ OwnInv /\ OnceInv /\ Earned(r)
    BY Kinds, StepsMoveOne, RunnerCalls DEF ControlInv, EarnedInv
  <1>1. pc'[r] = to
    BY <1>0, Moved
  <1>2. LeavesCauses(r)
    BY <1>0, LastIsOwn, TimeoutStays DEF LeavesCauses
  <1>3. accepted[obj]["timeout"] # None => accepted'[obj]["timeout"] # None
    BY <1>2 DEF LeavesCauses
  <1>4. Earned(r)'
    BY <1>0, <1>1, <1>3 DEF Earned
  <1>5. local'[r] # None \/ pc'[r] \in Makes => token'[r]
    BY <1>0, <1>1 DEF OwnInv
  <1>6. pc'[r] \in Before => ~has_run[obj]
    BY <1>0, <1>1 DEF OnceInv
  <1> QED
    BY <1>0, <1>1, <1>2, <1>4, <1>5, <1>6, EarnedStays

\* A run that the binding refuses: Dispose was called, or the task was run.
LEMMA RefusalIsEarned ==
    ASSUME ControlInv, FfiTypeOK, ToldInv, EarnedInv, NEW r \in Runners, Run(r) \/ RunStep(r),
           UNCHANGED <<cancelled, cancel, has_run, local, requested>>, hasRunFlag => hasRunFlag',
           \A q \in Runners \ {r} : token'[q] = token[q], token' = token \/ local[r] = None,
           NEW to \in {"finally", "done"}, Goto(r, to),
           NEW type \in {"ObjectDisposedException", "InvalidOperationException"},
           Throws(r, type, None, None)
    PROVE  EarnedInv'
  <1>0. /\ r \in Threads /\ r # Source /\ BindingTypeOK /\ OnlyMoves(r) /\ Calls(r)
        /\ OwnInv /\ thrown \in [Runners -> Exceptions \union {None}]
    BY Kinds, StepsMoveOne, RunnerCalls DEF ControlInv, EarnedInv, ToldInv
  <1>1. pc'[r] = to /\ to \notin Before \union {"leave run", "throw"}
    BY <1>0, Moved DEF Places, Before, Makes, Cancels
  <1> DEFINE x == [type |-> type, code |-> None, message |-> None]
  <1>2. thrown' = [thrown EXCEPT ![r] = x]
    BY DEF Throws
  <1>3. x.type = type /\ x.code # "AlreadyRun"
    BY DotnetAssumption
  <1> HIDE DEF x
  <1>4. thrown'[r] = x /\ \A q \in Runners \ {r} : thrown'[q] = thrown[q]
    BY <1>0, <1>2
  <1>5. LeavesCauses(r)
    BY <1>0, <1>4, LastIsOwn, TimeoutStays DEF LeavesCauses
  <1>6. Earned(r)'
    BY <1>1, <1>3, <1>4 DEF Earned
  <1>7. local'[r] # None => token'[r]
    BY <1>0 DEF OwnInv
  <1>8. to \notin Before /\ to \notin Makes /\ to \notin Cancels
    BY <1>1 DEF Before
  <1> QED
    BY <1>0, <1>1, <1>5, <1>6, <1>7, <1>8, EarnedStays

\* A run that starts, or is given the claim.
LEMMA StartIsEarned ==
    ASSUME ControlInv, FfiTypeOK, ToldInv, EarnedInv, NEW r \in Runners, Run(r) \/ Claim(r)
    PROVE  EarnedInv'
  <1>0. /\ r \in Threads /\ r # Source /\ BindingTypeOK /\ OnlyMoves(r) /\ Calls(r)
        /\ OwnInv /\ OnceInv /\ Earned(r) /\ Told(r)
    BY Kinds, StepsMoveOne, RunnerCalls DEF ControlInv, EarnedInv, ToldInv, RunStep
  <1>1. /\ UNCHANGED <<cancelled, cancel, has_run, local, requested>>
        /\ pc[r] \in {"idle", "claim"}
    BY DEF Run, Claim, At, ffiVars, taskVars, tokenVars, objVars
  <1>2. local[r] = None /\ thrown[r] = None
    BY <1>0, <1>1 DEF ControlInv, ClaimInv, Told, Ended
  <1>3. (\A q \in Runners \ {r} : token'[q] = token[q]) /\ (hasRunFlag => hasRunFlag')
    <2>1. CASE Run(r)
      BY <1>0, <2>1 DEF Run, BindingTypeOK, objVars
    <2>2. CASE Claim(r)
      BY <1>0, <2>2 DEF Claim
    <2> QED
      BY <2>1, <2>2
  <1>4. CASE \E type \in {"ObjectDisposedException", "InvalidOperationException"} :
                Throws(r, type, None, None) /\ Goto(r, "done")
    BY <1>1, <1>2, <1>3, <1>4, RefusalIsEarned DEF RunStep
  <1>5. ASSUME NEW to \in {"claim", "enter make", "enter run"}, Goto(r, to), UNCHANGED thrown,
               to = "enter make" => token'[r], to # "claim" => ~hasRunFlag
        PROVE  EarnedInv'
    <2>1. pc'[r] = to
      BY <1>0, <1>5, Moved DEF Places
    <2>2. LeavesCauses(r)
      BY <1>0, <1>1, <1>3, <1>5, LastIsOwn, TimeoutStays DEF LeavesCauses
    <2>3. Earned(r)'
      BY <1>2, <1>5, <2>1 DEF Earned
    <2>4. to \notin Cancels /\ (to \in Makes => to = "enter make") /\ (to \in Before => to # "claim")
      BY DEF Cancels, Makes, Before
    <2>5. pc'[r] \in Before => ~has_run[obj]
      BY <1>0, <1>5, <2>1, <2>4 DEF OnceInv
    <2> QED
      BY <1>0, <1>1, <1>2, <1>5, <2>1, <2>2, <2>3, <2>4, <2>5, EarnedStays
  <1>6. CASE Run(r)
    BY <1>4, <1>5, <1>6 DEF Run
  <1>7. CASE Claim(r)
    BY <1>4, <1>5, <1>7 DEF Claim
  <1> QED
    BY <1>6, <1>7

\* The cancel handle is made by a run with a token, for its own use.
LEMMA HandleIsOwn ==
    ASSUME ControlInv, FfiTypeOK, ToldInv, EarnedInv, NEW r \in Runners, MakeNative(r)
    PROVE  EarnedInv'
  <1>0. /\ r \in Threads /\ r # Source /\ BindingTypeOK /\ OnlyMoves(r) /\ Calls(r) /\ obj \in Tasks
        /\ OwnInv /\ OnceInv /\ Earned(r) /\ Told(r)
    BY Kinds, StepsMoveOne, RunnerCalls, DotnetAssumption
    DEF ControlInv, EarnedInv, ToldInv, RunStep
  <1>1. PICK h \in Handles : /\ cancel' = [cancel EXCEPT ![obj] = h]
                             /\ local' = [local EXCEPT ![r] = h]
    BY DEF MakeNative, aer_task_make_cancel_handle
  <1>2. cancel'[obj] = h /\ local'[r] = h
    BY <1>0, <1>1 DEF FfiTypeOK, BindingTypeOK
  <1>3. /\ UNCHANGED <<cancelled, has_run, token, requested, hasRunFlag, thrown>>
        /\ pc[r] = "make"
    BY DEF MakeNative, aer_task_make_cancel_handle, At, tokenVars, objVars
  <1>4. pc'[r] = "leave make"
    BY <1>0, Moved DEF MakeNative, Places
  <1>5. local[r] = None /\ thrown[r] = None
    BY <1>0, <1>3 DEF ControlInv, ClaimInv, Told, Ended
  <1>6. LeavesCauses(r)
    BY <1>0, <1>3, LastIsOwn, TimeoutStays DEF LeavesCauses
  <1>7. token'[r] /\ ~has_run[obj] /\ pc'[r] \notin Cancels
    BY <1>0, <1>3, <1>4 DEF OwnInv, OnceInv, Makes, Before, Cancels
  <1>8. Earned(r)'
    BY <1>3, <1>4, <1>5 DEF Earned
  <1> QED
    BY <1>0, <1>2, <1>3, <1>5, <1>6, <1>7, <1>8, EarnedStays

\* The claim keeps aer_task_run from finding a task that has run.
LEMMA RunIsNotRejected ==
    ASSUME ControlInv, FfiTypeOK, ToldInv, EarnedInv, NEW r \in Runners, RunNative(r)
    PROVE  EarnedInv'
  <1>0. /\ r \in Threads /\ r # Source /\ BindingTypeOK /\ OnlyMoves(r) /\ Calls(r) /\ obj \in Tasks
        /\ OwnInv /\ OnceInv /\ Earned(r) /\ Told(r)
    BY Kinds, StepsMoveOne, RunnerCalls, DotnetAssumption
    DEF ControlInv, EarnedInv, ToldInv, RunStep
  <1>1. /\ UNCHANGED <<cancelled, cancel, local, token, requested, hasRunFlag, thrown>>
        /\ pc[r] = "run"
    BY DEF RunNative, Native, aer_task_run, At, tokenVars, objVars, callVars
  <1>2. pc'[r] \in {"running", "leave run"} /\ (pc'[r] = "leave run" => running'[r] = <<>>)
    <2>1. "running" \in Places /\ "leave run" \in Places
      BY DEF Places, InTask
    <2> QED
      BY <1>0, <2>1, Moved DEF RunNative, Native
  <1>3. pc'[r] \notin Before \union Makes \union Cancels
    BY <1>2 DEF Before, Makes, Cancels
  <1>4. LeavesCauses(r)
    BY <1>0, <1>1, LastIsOwn, TimeoutStays DEF LeavesCauses
  <1>5. Ready(obj)
    <2>1. ~has_run[obj]
      BY <1>0, <1>1 DEF OnceInv, Before
    <2>2. inner[obj] # None
      BY <1>0, FfiAssumption DEF FfiTypeOK
    <2> QED
      BY <2>1, <2>2 DEF Ready
  <1>6. pc'[r] = "leave run" => last'[r] = "SpawnFailed"
    <2>1. running[r] \in Seq(Tasks)
      BY <1>0 DEF FfiTypeOK
    <2>2. Append(running[r], obj) # <<>>
      BY <1>0, <2>1
    <2>3. CASE running' = [running EXCEPT ![r] = Append(@, obj)]
      BY <1>0, <1>2, <2>2, <2>3 DEF FfiTypeOK
    <2>4. CASE map_aer_error(r, "SpawnFailed")
      BY <1>0, <2>4 DEF map_aer_error, Returns, FfiTypeOK
    <2> QED
      BY <1>5, <2>3, <2>4 DEF RunNative, aer_task_run
  <1>7. thrown[r] = None
    BY <1>0, <1>1 DEF Told, Ended
  <1>8. Earned(r)'
    BY <1>1, <1>2, <1>6, <1>7 DEF Earned
  <1>9. local'[r] # None => token'[r]
    BY <1>0, <1>1 DEF OwnInv
  <1> QED
    BY <1>0, <1>1, <1>3, <1>4, <1>8, <1>9, EarnedStays

\* A run is stopped by a handle of its own that was cancelled, or by the
\* timeout the caller was told is set.
LEMMA ResultIsEarned ==
    ASSUME ControlInv, FfiTypeOK, RunInv, ToldInv, EarnedInv, NEW r \in Runners, RunReturnsNative(r)
    PROVE  EarnedInv'
  <1>0. /\ r \in Threads /\ r # Source /\ BindingTypeOK /\ OnlyMoves(r) /\ Calls(r) /\ obj \in Tasks
        /\ RequestInv /\ OwnInv /\ OnceInv /\ Earned(r) /\ Told(r) /\ ClaimInv
    BY Kinds, StepsMoveOne, RunnerCalls, DotnetAssumption
    DEF ControlInv, EarnedInv, ToldInv, RunStep
  <1>1. /\ UNCHANGED <<cancelled, cancel, has_run, accepted, local, token, requested, hasRunFlag,
                       thrown>>
        /\ pc[r] = "running"
    BY DEF RunReturnsNative, RunEndsWith, At, tokenVars, objVars, taskVars, askedVars
  <1>2. pc'[r] = "leave run"
    BY <1>0, Moved DEF RunReturnsNative, Places
  <1>3. pc'[r] \notin Before \union Makes \union Cancels
    BY <1>2 DEF Before, Makes, Cancels
  <1>4. LeavesCauses(r)
    BY <1>0, <1>1, LastIsOwn, TimeoutStays DEF LeavesCauses
  <1>5. PICK f \in Flags(obj) :
            \E result \in Failures \union {ResultOf(f)} : RunEndsWith(r, result)
    BY DEF RunReturnsNative
  <1>5a. PICK result \in Failures \union {ResultOf(f)} : RunEndsWith(r, result)
    BY <1>5
  <1>6. last'[r] = result
    <2>1. last' = [last EXCEPT ![r] = result]
      BY <1>5a DEF RunEndsWith, map_aer_error, Returns
    <2> QED
      BY <1>0, <2>1 DEF FfiTypeOK
  <1>7. result # "Rejected"
    BY <1>5a DEF Failures, ResultOf
  <1>8. ASSUME result = "Cancelled" PROVE requested /\ token[r]
    <2>1. f.kill_fired
      BY <1>5a, <1>8 DEF Failures, ResultOf
    <2>2. cancel[obj] # None /\ cancelled[cancel[obj]]
      BY <1>5, <2>1 DEF Flags
    <2>3. cancel[obj] \in Handles
      BY <1>0, <2>2 DEF FfiTypeOK
    <2>4. PICK q \in Runners : local[q] = cancel[obj]
      BY <1>0, <2>2 DEF OwnInv
    <2>5. Ran(q) /\ Ran(r)
      BY <1>1, <2>2, <2>4 DEF Ran, Runs, Registered
    <2>6. q = r
      BY <1>0, <2>5 DEF ClaimInv
    <2> QED
      BY <1>0, <2>2, <2>3, <2>4, <2>6 DEF RequestInv, OwnInv
  <1>9. ASSUME result = "TimedOut" PROVE accepted[obj]["timeout"] # None
    <2>1. f.timed_out
      BY <1>5a, <1>9 DEF Failures, ResultOf
    <2> QED
      BY <1>0, <1>5, <2>1 DEF Flags, RunInv
  <1>10. thrown[r] = None
    BY <1>0, <1>1 DEF Told, Ended
  <1>11. Earned(r)'
    BY <1>1, <1>2, <1>6, <1>7, <1>8, <1>9, <1>10 DEF Earned
  <1>12. local'[r] # None => token'[r]
    BY <1>0, <1>1 DEF OwnInv
  <1> QED
    BY <1>0, <1>1, <1>3, <1>4, <1>11, <1>12, EarnedStays

\* The exception has the cause of the result it is made of.
LEMMA ExceptionKeepsCause ==
    ASSUME ControlInv, FfiTypeOK, RunErrorIsExplained, ToldInv, EarnedInv, NEW r \in Runners,
           BuildRunException(r)
    PROVE  EarnedInv'
  <1>0. /\ r \in Threads /\ r # Source /\ BindingTypeOK /\ OnlyMoves(r) /\ Calls(r)
        /\ OwnInv /\ Earned(r) /\ Told(r) /\ thrown \in [Runners -> Exceptions \union {None}]
    BY Kinds, StepsMoveOne, RunnerCalls DEF ControlInv, EarnedInv, ToldInv, RunStep
  <1>1. /\ UNCHANGED <<cancelled, cancel, has_run, accepted, local, token, requested, hasRunFlag>>
        /\ pc[r] = "throw"
    BY DEF BuildRunException, At, tokenVars, objVars, ffiVars, taskVars, askedVars
  <1>2. pc'[r] = "finally"
    BY <1>0, Moved DEF BuildRunException, Places
  <1>3. pc'[r] \notin Before \union Makes \union Cancels
    BY <1>2 DEF Before, Makes, Cancels
  <1>4. last[r] \in Codes /\ last[r] # "Rejected"
    BY <1>0, <1>1 DEF Told, Earned
  <1>5. /\ RunResult(r) = last[r]
        /\ RunException(RunResult(r)).code = last[r]
        /\ RunException(RunResult(r)).type = "AerTimeoutException" <=> last[r] = "TimedOut"
        /\ RunException(RunResult(r)).type = "AerCancelException" <=> last[r] = "Cancelled"
    BY <1>4, ExceptionOfResult
  <1>6. PICK type, code, message :
            /\ Throws(r, type, code, message)
            /\ code = last[r]
            /\ type = "AerTimeoutException" => last[r] = "TimedOut"
            /\ type = "AerCancelException" => last[r] = "Cancelled"
    <2>1. CASE RunResult(r) = "Ok"
      BY <1>5, <2>1 DEF BuildRunException
    <2>2. CASE RunResult(r) # "Ok"
      BY <1>5, <2>2 DEF BuildRunException
    <2> QED
      BY <2>1, <2>2
  <1> DEFINE x == [type |-> type, code |-> code, message |-> message]
  <1>7. x.type = type /\ x.code = code
    OBVIOUS
  <1>8. thrown' = [thrown EXCEPT ![r] = x]
    BY <1>6 DEF Throws
  <1> HIDE DEF x
  <1>9. thrown'[r] = x /\ \A q \in Runners \ {r} : thrown'[q] = thrown[q]
    BY <1>0, <1>8
  <1>10. LeavesCauses(r)
    BY <1>0, <1>1, <1>9, LastIsOwn, TimeoutStays DEF LeavesCauses
  <1>11. code # "AlreadyRun"
    BY <1>4, <1>6 DEF Codes, RunErrors
  <1>12. Earned(r)'
    BY <1>0, <1>1, <1>2, <1>6, <1>7, <1>9, <1>11 DEF Earned
  <1>13. local'[r] # None => token'[r]
    BY <1>0, <1>1 DEF OwnInv
  <1> QED
    BY <1>0, <1>1, <1>3, <1>10, <1>12, <1>13, EarnedStays

\* Every step of a run keeps the causes.
LEMMA RunnerKeepsCauses ==
    ASSUME ControlInv, FfiTypeOK, RunInv, RunErrorIsExplained, ToldInv, EarnedInv,
           NEW r \in Runners, Run(r) \/ RunStep(r)
    PROVE  EarnedInv'
  <1> USE DEF objVars, tokenVars, callVars, taskVars, ffiVars, At
  <1>0. r \in Threads /\ RequestInv
    BY Kinds DEF EarnedInv
  <1>1. CASE RunDisposed(r)
    <2>1. /\ UNCHANGED <<cancelled, cancel, has_run, local, requested, hasRunFlag, token>>
          /\ Goto(r, "finally") /\ Throws(r, "ObjectDisposedException", None, None)
      BY <1>1 DEF RunDisposed
    <2> QED
      BY <2>1, RefusalIsEarned
  <1>2. CASE \/ Enter(r, "enter make", obj, "make") \/ Enter(r, "enter run", obj, "run")
             \/ Enter(r, "enter cancel", local[r], "cancel")
             \/ Publish(r) \/ Unregister(r) \/ ClearField(r)
    <2>1. UNCHANGED <<cancelled, cancel, has_run, local, token, requested, hasRunFlag, thrown>>
      BY <1>2 DEF Enter, Publish, Unregister, ClearField
    <2>2. PICK from \in Places, to \in Places :
            /\ pc[r] = from /\ Goto(r, to)
            /\ <<from, to>> \in {<<"enter make", "make">>, <<"enter run", "run">>,
                    <<"enter cancel", "cancel">>, <<"publish", "register">>,
                    <<"finally", "clear">>, <<"clear", "close">>}
      BY <1>2 DEF Enter, Publish, Unregister, ClearField, Places, InTask, InCancel
    <2>3. pc[r] = "enter cancel" => requested
      BY <1>0 DEF RequestInv, Cancels
    <2>4. /\ to \in Cancels => requested
          /\ to \in Makes => from \in Makes
          /\ to \in Before => from \in Before
          /\ to \notin {"leave run", "throw"}
      BY <2>2, <2>3 DEF Cancels, Makes, Before
    <2> QED
      BY <2>1, <2>2, <2>4, RunMovesOn
  <1>3. CASE \/ Leave(r, "leave make", obj, "publish") \/ Leave(r, "leave run", obj, "throw")
             \/ Leave(r, "leave cancel", local[r], "enter run") \/ CloseLocal(r)
    <2>1. UNCHANGED <<local, token, requested, hasRunFlag, thrown>>
      BY <1>3 DEF Leave, CloseLocal
    <2>2. UNCHANGED <<cancelled, cancel, has_run, last>>
      BY <1>3 DEF Leave, CloseLocal, Close, Release, aer_task_free, aer_cancel_free
    <2>3. PICK from \in Places, to \in Places :
            /\ pc[r] = from /\ Goto(r, to)
            /\ <<from, to>> \in {<<"leave make", "publish">>, <<"leave run", "throw">>,
                    <<"leave cancel", "enter run">>, <<"close", "done">>}
      BY <1>3 DEF Leave, CloseLocal, Places
    <2>4. /\ to \notin Cancels
          /\ to \in Makes => from \in Makes
          /\ to \in Before => from \in Before
          /\ to \in {"leave run", "throw"} => from \in {"leave run", "throw"}
      BY <2>3 DEF Cancels, Makes, Before
    <2> QED
      BY <2>1, <2>2, <2>3, <2>4, RunMovesOn
  <1>4. CASE CancelNative(r)
    <2>1. /\ UNCHANGED <<cancel, has_run, local, token, requested, hasRunFlag, thrown>>
          /\ pc[r] = "cancel" /\ Goto(r, "leave cancel")
      BY <1>4 DEF CancelNative, Native, aer_cancel
    <2>2. requested
      BY <1>0, <2>1 DEF RequestInv, Cancels
    <2>3. /\ "cancel" \in Places /\ "leave cancel" \in Places /\ "cancel" \in Before
          /\ "leave cancel" \notin Makes
      BY DEF Places, InCancel, Before, Cancels, Makes
    <2> QED
      BY <2>1, <2>2, <2>3, RunMovesOn
  <1>5. CASE Register(r)
    <2>1. /\ UNCHANGED <<cancelled, cancel, has_run, local, token, requested, hasRunFlag, thrown>>
          /\ pc[r] = "register"
      BY <1>5 DEF Register
    <2>2. PICK to \in {"enter run", "enter cancel"} : Goto(r, to) /\ (to = "enter cancel" => requested)
      BY <1>5 DEF Register
    <2>3. /\ "register" \in Places /\ to \in Places /\ "register" \in Before
          /\ to \notin Makes /\ (to \in Cancels => to = "enter cancel")
          /\ to \notin {"leave run", "throw"}
      BY DEF Places, Before, Cancels, Makes
    <2> QED
      BY <2>1, <2>2, <2>3, RunMovesOn
  <1> QED
    BY <1>1, <1>2, <1>3, <1>4, <1>5, StartIsEarned, HandleIsOwn, RunIsNotRejected, ResultIsEarned,
       ExceptionKeepsCause DEF RunStep

\* Before anything is run nothing has a cause.
LEMMA EarnedInit == DotnetInit => EarnedInv
  <1> SUFFICES ASSUME DotnetInit PROVE EarnedInv
    OBVIOUS
  <1>1. /\ \A h \in Handles : ~cancelled[h]
        /\ \A th \in Threads : pc[th] = "idle" /\ local[th] = None
        /\ cancel[obj] = None /\ ~has_run[obj]
        /\ \A r \in Runners : thrown[r] = None
    BY DotnetAssumption DEF DotnetInit, Init
  <1>2. "idle" \notin Before \union Makes \union Cancels \union {"leave run", "throw"}
    BY DEF Before, Makes, Cancels
  <1> QED
    BY <1>1, <1>2, Kinds DEF EarnedInv, RequestInv, OwnInv, OnceInv, Earned

\* The exceptions of Run mean what AerTask.cs says: AerCancelException that the
\* run's own token was cancelled, AerTimeoutException that a timeout was set,
\* each with an Exited event of that reason, however Dispose, other runs and
\* the token race; and the native AlreadyRun never surfaces.
THEOREM ExceptionsAreEarned == DotnetSpec => []ExceptionIsEarned
  <1>1. DotnetInit => EarnedInv
    BY EarnedInit
  <1>2. /\ ControlInv /\ FfiTypeOK /\ RunInv /\ RunErrorIsExplained /\ ToldInv /\ EarnedInv
        /\ [DotnetNext]_dotnetVars
        => EarnedInv'
    <2> SUFFICES ASSUME ControlInv, FfiTypeOK, RunInv, RunErrorIsExplained, ToldInv, EarnedInv,
                        [DotnetNext]_dotnetVars
                 PROVE  EarnedInv'
      OBVIOUS
    <2>1. CASE UNCHANGED dotnetVars
      BY <2>1 DEF dotnetVars, ffiVars, taskVars, askedVars, objVars, tokenVars, callVars,
                  EarnedInv, RequestInv, OwnInv, OnceInv, Earned
    <2>2. CASE \E r \in Runners : Run(r) \/ RunStep(r)
      BY <2>2, RunnerKeepsCauses
    <2>3. CASE \E d \in Disposers : Dispose(d) \/ DisposeStep(d)
      BY <2>3, DisposerLeavesCauses
    <2>4. CASE Construct \/ With \/ WithStep \/ Cancel \/ SourceStep
      BY <2>4, CallerLeavesCauses, SourceLeavesCauses
    <2> QED
      BY <2>1, <2>2, <2>3, <2>4 DEF DotnetNext, Begin, Proceed
  <1>3. DotnetSpec => [](RunInv /\ RunErrorIsExplained)
    BY BindingCallsTheAbi, FfiInvariant, PTL
  <1>4. ToldInv /\ EarnedInv => ExceptionIsEarned
    BY DEF ToldInv, Told, EarnedInv, Earned, ExceptionIsEarned
  <1> QED
    BY <1>1, <1>2, <1>3, <1>4, TellsTheTruth, PTL DEF DotnetSpec
=============================================================================
