--------------------------- MODULE VirtualBinding ---------------------------
(***************************************************************************)
(* Who owns the floats behind vir::Motor and vir::Imu (src/virtual): the   *)
(* virtual device allocates default storage, bind() replaces it by members *)
(* of a real device, and whoever is not bound deletes what it points to.   *)
(* The module follows the virtual devices of one robot from its            *)
(* constructor through Robot::run to its destructor.                       *)
(*                                                                         *)
(* Deleting what is not one's own is undefined: the allocator may abort    *)
(* the program or let it go on, with the storage given away.               *)
(***************************************************************************)

CONSTANTS Virtual,  \* the virtual devices of the robot
          Marks     \* those whose bind() leaves isBound() true

\* Imu::bind sets is_bound; Motor::bind copies binder.actual, which the binder
\* of a UnitreeMotor names and the one of a WebotsMotor leaves null.
ASSUME BindingAssumption == Marks \subseteq Virtual

VARIABLES pc,        \* "construct", "created", "bind", "control", "destroy", "gone" or "aborted"
          eager,     \* devices the constructor binds as well (LqrSim: all, Aokee: none)
          todo,      \* devices the current bindVirtualDev or destructor has still to visit
          target,    \* what angle and speed point to: "own" or "device"
          isBound,   \* Motor::_actual # nullptr, Imu::is_bound
          heap,      \* the default storage: "live" or "deleted"
          device,    \* the members of each one's real device: "live" or "dead"
          bindings,  \* history: devices that have been bound at least once
          rebound,   \* history: devices that have been bound again
          warned,    \* devices that have logged "Binding repeatedly!"
          bad        \* devices that deleted storage that was not theirs to delete

vars == <<pc, eager, todo, target, isBound, heap, device, bindings, rebound, warned, bad>>

Init ==
    /\ pc = "construct"
    /\ eager \in {{}, Virtual}
    /\ todo = eager
    /\ target = [v \in Virtual |-> "own"]
    /\ isBound = [v \in Virtual |-> FALSE]
    /\ heap = [v \in Virtual |-> "live"]
    /\ device = [v \in Virtual |-> "live"]
    /\ bindings = {} /\ rebound = {} /\ warned = {} /\ bad = {}

\* delete angle; delete speed
Delete(v) ==
    IF target[v] = "own"
    THEN /\ heap' = [heap EXCEPT ![v] = "deleted"]
         /\ bad' = IF heap[v] = "live" THEN bad ELSE bad \cup {v}
         /\ UNCHANGED device
    ELSE /\ device' = [device EXCEPT ![v] = "dead"]
         /\ bad' = bad \cup {v}
         /\ UNCHANGED heap

\* Variant of Release that deletes what a bound device points to.
ReleaseAlways(v) == Delete(v)

\* if (!isBound()) delete
Release(v) == IF isBound[v] THEN UNCHANGED <<heap, device, bad>> ELSE Delete(v)

-----------------------------------------------------------------------------
\* What bind() does besides the storage: the mark, and the warning if it was
\* there before.
MarkBound(v) ==
    /\ todo' = todo \ {v}
    /\ isBound' = [isBound EXCEPT ![v] = v \in Marks]
    /\ warned' = IF isBound[v] THEN warned \cup {v} ELSE warned
    /\ bindings' = bindings \cup {v}
    /\ rebound' = rebound \cup ({v} \cap bindings)
    /\ UNCHANGED <<pc, eager>>

\* Variant of Bind that forgets to delete the default storage.
BindLeaks(v) ==
    /\ pc \in {"construct", "bind"} /\ v \in todo
    /\ MarkBound(v)
    /\ target' = [target EXCEPT ![v] = "device"]
    /\ UNCHANGED <<heap, device, bad>>

\* Variant of Bind that points to the device before it deletes.
BindDeletesLast(v) ==
    /\ pc \in {"construct", "bind"} /\ v \in todo
    /\ MarkBound(v)
    /\ target' = [target EXCEPT ![v] = "device"]
    /\ device' = [device EXCEPT ![v] = IF isBound[v] THEN @ ELSE "dead"]
    /\ bad' = IF isBound[v] THEN bad ELSE bad \cup {v}
    /\ UNCHANGED heap

\* Motor::bind, Imu::bind
Bind(v) ==
    /\ pc \in {"construct", "bind"} /\ v \in todo
    /\ Release(v)
    /\ MarkBound(v)
    /\ target' = [target EXCEPT ![v] = "device"]

Goto(from, to, visit) ==
    /\ pc = from /\ todo = {}
    /\ pc' = to /\ todo' = visit
    /\ UNCHANGED <<eager, target, isBound, heap, bindings, rebound, warned, bad>>

Created == Goto("construct", "created", {}) /\ UNCHANGED device

\* Robot::run: bindVirtualDev, then the controllers until the robot stops.
RunBinds == Goto("created", "bind", Virtual) /\ UNCHANGED device
Controllers == Goto("bind", "control", {}) /\ UNCHANGED device

\* The members of a robot are destroyed in reverse, the devices before the
\* controllers that hold the virtual ones.
DevicesDie == device' = [v \in Virtual |-> "dead"]

\* ~Robot
DeleteRobot == Goto("control", "destroy", Virtual) /\ DevicesDie

\* A later member's constructor throws: what has been built is destroyed.
ConstructorThrows ==
    /\ pc = "construct" /\ bindings = {}
    /\ pc' = "destroy" /\ todo' = Virtual /\ DevicesDie
    /\ UNCHANGED <<eager, target, isBound, heap, bindings, rebound, warned, bad>>

\* ~Motor, ~Imu
DestroyVirtual(v) ==
    /\ pc = "destroy" /\ v \in todo
    /\ Release(v)
    /\ todo' = todo \ {v}
    /\ UNCHANGED <<pc, eager, target, isBound, bindings, rebound, warned>>

Destroyed == Goto("destroy", "gone", {}) /\ UNCHANGED device

\* The allocator notices.
Aborts ==
    /\ bad # {} /\ pc \notin {"gone", "aborted"}
    /\ pc' = "aborted"
    /\ UNCHANGED <<eager, todo, target, isBound, heap, device, bindings, rebound, warned, bad>>

Next ==
    \/ \E v \in Virtual : Bind(v) \/ DestroyVirtual(v)
    \/ Created \/ RunBinds \/ Controllers
    \/ DeleteRobot \/ ConstructorThrows \/ Destroyed
    \/ Aborts

Spec == Init /\ [][Next]_vars

-----------------------------------------------------------------------------
PCs == {"construct", "created", "bind", "control", "destroy", "gone", "aborted"}

\* Every variable keeps its type; no binding is left out when the robot runs.
TypeOK ==
    /\ pc \in PCs
    /\ eager \subseteq Virtual /\ todo \subseteq Virtual
    /\ pc = "control" => bindings = Virtual
    /\ target \in [Virtual -> {"own", "device"}]
    /\ isBound \in [Virtual -> BOOLEAN]
    /\ heap \in [Virtual -> {"live", "deleted"}]
    /\ device \in [Virtual -> {"live", "dead"}]
    /\ bindings \subseteq Virtual /\ rebound \subseteq bindings
    /\ warned \subseteq Virtual /\ bad \subseteq Virtual

\* However often it is bound, a device whose binding marks it (every device of
\* Aokee, the Imu of LqrSim) deletes its own default storage and nothing else.
OwnStorageOnly == bad \cap Marks = {}

\* While the robot exists, getAngle and getSpeed read storage that exists, except
\* those of a device that was bound again although its binding does not mark it;
\* and what a controller reads belongs to a device.
ReadsLive ==
    /\ pc \notin {"destroy", "gone", "aborted"} =>
          \A v \in Marks \cup (Virtual \ rebound) :
              IF target[v] = "own" THEN heap[v] = "live" ELSE device[v] = "live"
    /\ pc = "control" => \A v \in Virtual : target[v] = "device"

\* When the robot is gone, so is the default storage of every virtual device,
\* whether it was ever bound or not.
NothingLeaks == pc = "gone" => \A v \in Virtual : heap[v] = "deleted"

\* A device bound again says so ("Binding repeatedly!", motor.hpp).
RebindingIsNoticed == rebound \subseteq warned

=============================================================================
