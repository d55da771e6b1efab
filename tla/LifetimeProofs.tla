--------------------------- MODULE LifetimeProofs ---------------------------
(***************************************************************************)
(* Proofs about objects that outlive, or do not outlive, what they use:    *)
(* the default storage of any set of virtual devices, whichever of them    *)
(* their bindings mark (VirtualBinding), and any number of thread objects  *)
(* in the hands of a client (WorkerClient).                                *)
(***************************************************************************)
EXTENDS VirtualBinding, WorkerClient, TLAPS

Ended == {"destroy", "gone", "aborted"}

\* A device points away from its default storage exactly when it has been
\* bound, and has deleted the storage then; a mark is never lost, and the members
\* of the real device live unless an unmarked one was bound again.
Owned ==
    \A v \in Virtual :
        /\ isBound[v] => target[v] = "device"
        /\ v \in bindings <=> target[v] = "device"
        /\ v \in Marks /\ target[v] = "device" => isBound[v]
        /\ target[v] = "device" => heap[v] = "deleted"
        /\ target[v] = "own" /\ (pc \notin Ended \/ (pc = "destroy" /\ v \in todo)) => heap[v] = "live"
        /\ pc \notin Ended /\ (v \in Marks \/ v \notin rebound) => device[v] = "live"

\* How far the visits have come.
Visited ==
    /\ pc = "bind" => Virtual \subseteq todo \cup bindings
    /\ pc = "destroy" => \A v \in Virtual \ todo : heap[v] = "deleted"
    /\ pc = "gone" => \A v \in Virtual : heap[v] = "deleted"

BInv == TypeOK /\ Owned /\ Visited /\ OwnStorageOnly

LEMMA BindingInit == Init => BInv
BY BindingAssumption DEF Init, BInv, TypeOK, PCs, Owned, Visited, OwnStorageOnly, Ended

\* What release does to the storage of v when the invariant holds.
LEMMA ReleaseDeletes ==
    ASSUME BInv, NEW v \in Virtual, Release(v), pc \notin Ended \/ (pc = "destroy" /\ v \in todo)
    PROVE  /\ heap' \in [Virtual -> {"live", "deleted"}]
           /\ \A u \in Virtual : heap'[u] = IF u = v THEN "deleted" ELSE heap[u]
           /\ device' \in [Virtual -> {"live", "dead"}]
           /\ \A u \in Virtual : u # v => device'[u] = device[u]
           /\ v \in Marks \/ target[v] = "own" => device' = device
           /\ bad' \subseteq Virtual
           /\ bad' \cap Marks = {}
<1> USE DEF BInv
<1>1. CASE isBound[v]
  BY <1>1 DEF Release, TypeOK, Owned, OwnStorageOnly
<1>2. CASE ~isBound[v] /\ target[v] = "own"
  <2>1. heap' = [heap EXCEPT ![v] = "deleted"] /\ device' = device /\ bad' = bad
    BY <1>2 DEF Release, Delete, Owned
  <2> QED
    BY <2>1 DEF TypeOK, OwnStorageOnly
<1>3. CASE ~isBound[v] /\ target[v] = "device"
  <2>1. v \notin Marks /\ heap[v] = "deleted"
    BY <1>3 DEF Owned
  <2>2. bad' = bad \cup {v} /\ heap' = heap /\ device' = [device EXCEPT ![v] = "dead"]
    BY <1>3, <2>1 DEF Release, Delete
  <2> QED
    BY <1>3, <2>1, <2>2 DEF TypeOK, OwnStorageOnly
<1> QED
  BY <1>1, <1>2, <1>3 DEF TypeOK

\* A binding in the constructor or in Robot::run.
LEMMA BindKeeps ==
    ASSUME BInv, NEW v \in Virtual, Bind(v)
    PROVE  BInv'
<1> USE DEF BInv
<1>1. pc \in {"construct", "bind"} /\ v \in todo /\ pc' = pc /\ todo' = todo \ {v}
      /\ target' = [target EXCEPT ![v] = "device"]
      /\ isBound' = [isBound EXCEPT ![v] = v \in Marks]
      /\ bindings' = bindings \cup {v} /\ rebound' = rebound \cup ({v} \cap bindings)
      /\ UNCHANGED eager
  BY DEF Bind, MarkBound
<1>2. Release(v) /\ pc \notin Ended
  BY <1>1 DEF Bind, Ended
<1>3. /\ heap' \in [Virtual -> {"live", "deleted"}]
      /\ \A u \in Virtual : heap'[u] = IF u = v THEN "deleted" ELSE heap[u]
      /\ device' \in [Virtual -> {"live", "dead"}]
      /\ \A u \in Virtual : u # v => device'[u] = device[u]
      /\ v \in Marks \/ target[v] = "own" => device' = device
      /\ bad' \subseteq Virtual
      /\ bad' \cap Marks = {}
  BY <1>2, ReleaseDeletes
<1>4. rebound' \subseteq bindings' /\ warned' \subseteq Virtual
  BY DEF Bind, MarkBound, TypeOK
<1>5. TypeOK'
  <2>1. (target' \in [Virtual -> {"own", "device"}]) /\ (isBound' \in [Virtual -> BOOLEAN])
    BY <1>1 DEF TypeOK
  <2>2. todo' \subseteq Virtual /\ bindings' \subseteq Virtual /\ pc' \in PCs /\ pc' # "control"
    BY <1>1 DEF TypeOK
  <2> QED
    BY <1>1, <1>3, <1>4, <2>1, <2>2 DEF TypeOK
<1>6. Owned'
  BY <1>1, <1>2, <1>3 DEF Owned, TypeOK, Ended
<1>7. Visited'
  BY <1>1 DEF Visited, Ended
<1> QED
  BY <1>3, <1>5, <1>6, <1>7 DEF OwnStorageOnly

\* A destructor.
LEMMA DestroyKeeps ==
    ASSUME BInv, NEW v \in Virtual, DestroyVirtual(v)
    PROVE  BInv'
<1> USE DEF BInv
<1>1. pc = "destroy" /\ v \in todo /\ todo' = todo \ {v} /\ Release(v)
      /\ UNCHANGED <<pc, eager, target, isBound, bindings, rebound, warned>>
  BY DEF DestroyVirtual
<1>2. /\ heap' \in [Virtual -> {"live", "deleted"}]
      /\ \A u \in Virtual : heap'[u] = IF u = v THEN "deleted" ELSE heap[u]
      /\ device' \in [Virtual -> {"live", "dead"}]
      /\ \A u \in Virtual : u # v => device'[u] = device[u]
      /\ v \in Marks \/ target[v] = "own" => device' = device
      /\ bad' \subseteq Virtual
      /\ bad' \cap Marks = {}
  BY <1>1, ReleaseDeletes
<1>3. TypeOK'
  BY <1>1, <1>2 DEF TypeOK, PCs
<1>4. Owned'
  BY <1>1, <1>2 DEF Owned, TypeOK, Ended
<1>5. Visited'
  BY <1>1, <1>2 DEF Visited, Ended
<1> QED
  BY <1>2, <1>3, <1>4, <1>5 DEF OwnStorageOnly

\* Every other step moves on from one part of the robot's life to the next.
LEMMA MoveKeeps ==
    ASSUME BInv,
           \/ Created \/ RunBinds \/ Controllers
           \/ DeleteRobot \/ ConstructorThrows \/ Destroyed \/ Aborts
    PROVE  BInv'
<1> USE DEF BInv, Ended
<1>1. UNCHANGED <<eager, target, isBound, heap, bindings, rebound, warned, bad>>
  BY DEF Created, RunBinds, Controllers, DeleteRobot, ConstructorThrows, Destroyed, Aborts, Goto
<1>2. OwnStorageOnly'
  BY <1>1 DEF OwnStorageOnly
<1>3. CASE Created
  BY <1>1, <1>2, <1>3 DEF Created, Goto, TypeOK, PCs, Owned, Visited
<1>4. CASE RunBinds
  <2>1. pc = "created" /\ pc' = "bind" /\ todo' = Virtual /\ device' = device
    BY <1>4 DEF RunBinds, Goto
  <2>2. TypeOK'
    BY <1>1, <2>1 DEF TypeOK, PCs
  <2>3. Owned'
    BY <1>1, <2>1 DEF Owned
  <2>4. Visited'
    BY <2>1 DEF Visited
  <2> QED
    BY <1>2, <2>2, <2>3, <2>4
<1>5. CASE Controllers
  BY <1>1, <1>2, <1>5 DEF Controllers, Goto, TypeOK, PCs, Owned, Visited
<1>6. CASE DeleteRobot
  BY <1>1, <1>2, <1>6 DEF DeleteRobot, DevicesDie, Goto, TypeOK, PCs, Owned, Visited
<1>7. CASE ConstructorThrows
  <2>1. pc = "construct" /\ pc' = "destroy" /\ todo' = Virtual /\ DevicesDie
    BY <1>7 DEF ConstructorThrows
  <2>2. TypeOK'
    BY <1>1, <2>1 DEF TypeOK, PCs, DevicesDie
  <2>3. Owned'
    BY <1>1, <2>1 DEF Owned
  <2>4. Visited'
    BY <2>1 DEF Visited
  <2> QED
    BY <1>2, <2>2, <2>3, <2>4
<1>8. CASE Destroyed
  BY <1>1, <1>2, <1>8 DEF Destroyed, Goto, TypeOK, PCs, Owned, Visited
<1>9. CASE Aborts
  BY <1>1, <1>2, <1>9 DEF Aborts, TypeOK, PCs, Owned, Visited
<1> QED
  BY <1>3, <1>4, <1>5, <1>6, <1>7, <1>8, <1>9

LEMMA BindingNext == BInv /\ [Next]_vars => BInv'
<1> SUFFICES ASSUME BInv, [Next]_vars PROVE BInv'
  OBVIOUS
<1>1. ASSUME UNCHANGED vars PROVE BInv'
  BY <1>1 DEF vars, BInv, TypeOK, Owned, Visited, OwnStorageOnly
<1> QED
  BY <1>1, BindKeeps, DestroyKeeps, MoveKeeps DEF Next

LEMMA BindingInvariant == Spec => []BInv
BY BindingInit, BindingNext, PTL DEF Spec

-----------------------------------------------------------------------------
\* The types of the bindings; every virtual device is bound when the
\* controllers run (bindVirtualDev in Robot::run).
THEOREM TypeCorrect == Spec => []TypeOK
<1>1. BInv => TypeOK
  BY DEF BInv
<1> QED
  BY BindingInvariant, <1>1, PTL

\* A device whose binding marks it deletes its own default storage and nothing
\* else, however often it is bound (Motor::bind, Imu::bind and destructors).
THEOREM OwnStorageOnlyHolds == Spec => []OwnStorageOnly
<1>1. BInv => OwnStorageOnly
  BY DEF BInv
<1> QED
  BY BindingInvariant, <1>1, PTL

\* A device that is marked by its binding, or is bound once, has getters (getAngle
\* and getSpeed) that read storage that exists, and controllers read a real device.
\* An unmarked device that is bound again has lost its members: Motor::bind has
\* deleted them.
THEOREM ReadsLiveHolds == Spec => []ReadsLive
<1>1. BInv => ReadsLive
  <2> SUFFICES ASSUME BInv PROVE ReadsLive
    OBVIOUS
  <2>1. ASSUME pc \notin Ended, NEW v \in Marks \cup (Virtual \ rebound)
        PROVE  IF target[v] = "own" THEN heap[v] = "live" ELSE device[v] = "live"
    BY <2>1, BindingAssumption DEF BInv, Owned
  <2>2. ASSUME pc = "control", NEW v \in Virtual PROVE target[v] = "device"
    BY <2>2 DEF BInv, TypeOK, Owned
  <2> QED
    BY <2>1, <2>2 DEF ReadsLive, Ended
<1> QED
  BY BindingInvariant, <1>1, PTL

\* The default storage of every virtual device is gone with the robot, bound
\* devices and unbound ones alike.
THEOREM NothingLeaksHolds == Spec => []NothingLeaks
<1>1. BInv => NothingLeaks
  BY DEF BInv, Visited, NothingLeaks
<1> QED
  BY BindingInvariant, <1>1, PTL

-----------------------------------------------------------------------------
(* A client that calls run, stop and the destructor in any order.           *)

ClientTypes ==
    /\ TypeOKWorkers
    /\ call \in [Workers -> {"none", "join", "destroy"}]
    /\ object \in [Workers -> {"whole", "base", "freed", "gone"}]
    /\ misused \subseteq Workers

\* A thread against the object that owns it: one that was told to stop is
\* being joined as long as it lives, and one whose object is torn down has
\* ended, unless the worker was misused.
Owning(w) ==
    /\ handle[w] = "null" <=> tpc[w] = "none"
    /\ handle[w] = "joined" => tpc[w] = "done"
    /\ tpc[w] \in {"test", "body"} /\ ~flag[w] => call[w] = "join"
    /\ call[w] = "join" => handle[w] = "joinable" \/ w \in misused
    /\ object[w] # "whole" => tpc[w] \in {"none", "done"} \/ w \in misused

ClientInv == ClientTypes /\ (\A w \in Workers : Owning(w)) /\ DisciplineSuffices

LEMMA ClientStarts == ClientInit => ClientInv
BY DEF ClientInit, InitWorkers, ClientInv, ClientTypes, TypeOKWorkers, Owning, DisciplineSuffices

\* A step that concerns one worker keeps what is said of the others.
LEMMA OneWorker ==
    ASSUME ClientInv, ClientTypes', DisciplineSuffices', misused \subseteq misused',
           NEW w \in Workers, Owning(w)',
           \A v \in Workers \ {w} :
               /\ handle'[v] = handle[v] /\ tpc'[v] = tpc[v] /\ flag'[v] = flag[v]
               /\ call'[v] = call[v] /\ object'[v] = object[v]
    PROVE  ClientInv'
<1>1. ASSUME NEW v \in Workers \ {w} PROVE Owning(v)'
  BY DEF ClientInv, Owning
<1> QED
  BY <1>1 DEF ClientInv

\* run, and the client's way into stop and the destructor.
LEMMA ClientCalls ==
    ASSUME ClientInv, NEW w \in Workers, Run(w) \/ Stop(w) \/ Destroy(w)
    PROVE  ClientInv'
<1> USE DEF ClientInv, ClientTypes, TypeOKWorkers
<1>1. Idle /\ object[w] = "whole" /\ call[w] = "none" /\ ~died
  BY DEF Run, Stop, Destroy, Idle
<1>2. CASE Run(w)
  <2>1. CASE Start(w)
    <3>1. ClientTypes'
      BY <1>2, <2>1 DEF Run, Start
    <3>2. Owning(w)'
      BY <1>1, <1>2, <2>1 DEF Run, Start, Owning
    <3> QED
      BY <1>2, <2>1, <3>1, <3>2, OneWorker DEF Run, Start, DisciplineSuffices
  <2>2. CASE UNCHANGED workerVars
    BY <1>2, <2>2 DEF Run, workerVars, Owning, DisciplineSuffices
  <2> QED
    BY <1>2, <2>1, <2>2 DEF Run
<1>3. CASE Stop(w)
  <2>1. ClientTypes'
    BY <1>3 DEF Stop, RequestStop, Calls
  <2>2. Owning(w)'
    <3>1. flag'[w] = FALSE /\ handle'[w] = handle[w] /\ tpc'[w] = tpc[w] /\ object'[w] = "whole"
          /\ call'[w] = (IF handle[w] = "null" THEN "none" ELSE "join")
      BY <1>1, <1>3 DEF Stop, RequestStop, Calls
    <3>2. handle[w] = "joined" => w \in misused'
      BY <1>3 DEF Stop
    <3> QED
      BY <3>1, <3>2 DEF Owning
  <2>3. misused \subseteq misused' /\ DisciplineSuffices'
    BY <1>1, <1>3 DEF Stop, DisciplineSuffices
  <2>4. ASSUME NEW v \in Workers \ {w}
        PROVE  /\ handle'[v] = handle[v] /\ tpc'[v] = tpc[v] /\ flag'[v] = flag[v]
               /\ call'[v] = call[v] /\ object'[v] = object[v]
    BY <1>3 DEF Stop, RequestStop, Calls
  <2> QED
    BY <2>1, <2>2, <2>3, <2>4, OneWorker
<1>4. CASE Destroy(w)
  <2>1. ClientTypes'
    BY <1>4 DEF Destroy, Calls, workerVars
  <2>2. Owning(w)'
    <3>1. UNCHANGED workerVars /\ call'[w] = "destroy" /\ (flag[w] => w \in misused')
      BY <1>4 DEF Destroy, Calls
    <3>2. ~flag[w] => tpc[w] \in {"none", "done"}
      BY <1>1 DEF Owning
    <3> QED
      BY <3>1, <3>2 DEF Owning, workerVars
  <2> QED
    BY <1>1, <1>4, <2>1, <2>2, OneWorker DEF Destroy, Calls, workerVars, DisciplineSuffices
<1> QED
  BY <1>2, <1>3, <1>4

\* What happens inside a call.
LEMMA CallSteps ==
    ASSUME ClientInv, NEW w \in Workers,
           StopJoins(w) \/ StopThrows(w) \/ FreeBuffer(w) \/ DestructorEnds(w)
    PROVE  ClientInv'
<1> USE DEF ClientInv, ClientTypes, TypeOKWorkers
<1>1. CASE StopJoins(w)
  <2>1. ClientTypes' /\ Owning(w)'
    BY <1>1 DEF StopJoins, Join, Calls, Owning
  <2> QED
    BY <1>1, <2>1, OneWorker DEF StopJoins, Join, Calls, DisciplineSuffices
<1>2. CASE StopThrows(w)
  <2>1. w \in misused
    BY <1>2 DEF StopThrows, Owning
  <2> QED
    BY <1>2, <2>1 DEF StopThrows, workerVars, Owning, DisciplineSuffices
<1>3. CASE FreeBuffer(w)
  <2>1. ClientTypes' /\ Owning(w)'
    BY <1>3 DEF FreeBuffer, workerVars, Owning
  <2> QED
    BY <1>3, <2>1, OneWorker DEF FreeBuffer, workerVars, DisciplineSuffices
<1>4. CASE DestructorEnds(w)
  <2>1. ClientTypes' /\ Owning(w)'
    <3>1. UNCHANGED <<flag, tpc, died, misused>>
          /\ call' = [call EXCEPT ![w] = "none"] /\ object' = [object EXCEPT ![w] = "gone"]
          /\ (handle' = handle
              \/ (handle[w] = "joinable" /\ tpc[w] = "done" /\ handle' = [handle EXCEPT ![w] = "joined"]))
      BY <1>4 DEF DestructorEnds, Join, Calls, workerVars
    <3>2. call[w] = "destroy" /\ object[w] = "freed"
      BY <1>4 DEF DestructorEnds
    <3>3. ClientTypes'
      BY <3>1
    <3> QED
      BY <3>1, <3>2, <3>3 DEF Owning
  <2> QED
    BY <1>4, <2>1, OneWorker DEF DestructorEnds, Join, Calls, workerVars, DisciplineSuffices
<1> QED
  BY <1>1, <1>2, <1>3, <1>4

\* The threads: a step of one, and a body that runs over a torn object.
LEMMA ThreadSteps ==
    ASSUME ClientInv, NEW w \in Workers, ThreadStep(w) \/ TouchesTorn(w)
    PROVE  ClientInv'
<1> USE DEF ClientInv, ClientTypes, TypeOKWorkers
<1>1. CASE ThreadStep(w)
  <2>1. ClientTypes' /\ Owning(w)'
    BY <1>1 DEF ThreadStep, LoopTest, BodyReturns, Owning
  <2> QED
    BY <1>1, <2>1, OneWorker DEF ThreadStep, LoopTest, BodyReturns, DisciplineSuffices
<1>2. CASE TouchesTorn(w)
  <2>1. w \in misused
    BY <1>2 DEF TouchesTorn, Owning
  <2> QED
    BY <1>2, <2>1 DEF TouchesTorn, workerVars, Owning, DisciplineSuffices
<1> QED
  BY <1>1, <1>2

LEMMA ClientKeeps == ClientInv /\ [ClientNext]_clientVars => ClientInv'
<1> SUFFICES ASSUME ClientInv, [ClientNext]_clientVars PROVE ClientInv'
  OBVIOUS
<1>1. ASSUME UNCHANGED clientVars PROVE ClientInv'
  BY <1>1 DEF clientVars, workerVars, ClientInv, ClientTypes, TypeOKWorkers, Owning, DisciplineSuffices
<1> QED
  BY <1>1, ClientCalls, CallSteps, ThreadSteps DEF ClientNext, ClientStep

\* With any number of workers and calls of run, stop and the destructor in any
\* order, the process dies only after a worker was stopped twice or destroyed
\* while its flag was set (Io::stop, Io::~Io, Runner::stop, Runner::~Runner).
THEOREM DisciplineSufficesHolds == ClientSpec => []DisciplineSuffices
<1>1. ClientInv => DisciplineSuffices
  BY DEF ClientInv
<1> QED
  BY ClientStarts, ClientKeeps, <1>1, PTL DEF ClientSpec

=============================================================================
