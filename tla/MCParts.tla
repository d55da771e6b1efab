------------------------------ MODULE MCParts ------------------------------
(***************************************************************************)
(* The small components that share no state with any other, side by side   *)
(* in one instance for TLC: `part' says which of them a behaviour follows, *)
(* and the others stay in their initial states.                            *)
(***************************************************************************)
EXTENDS VirtualBinding, SisoPid, WorkerClient, SocketRx, ChassisLoop, MergeConfig, TLC

CONSTANTS h1, h2, g1, g2,  \* devices and senders of SocketRx
          b1, hi           \* the motor of SerialRx and its report

VARIABLES part,
          rxRunning, rxPc, rxBuffer, readLen, wire, kernel, faults, rxSent,
          rxDelivered, fresh

rxVars == <<rxRunning, rxPc, rxBuffer, readLen, wire, kernel, faults, rxSent,
            rxDelivered, fresh>>

\* h1 and h2 use the same key; nobody has bound the sender g2.
SameKey == h1 :> g1 @@ h2 :> g1

\* Two poses, whose mixtures do not close.
TwoPoses == {<<1, 2>>, <<2, 3>>}

\* For liveness: one motor with a single report, the one that looks like a head.
Rx == INSTANCE SerialRx WITH
          Ids <- {b1}, Values <- {hi}, HeadLike <- hi, MaxFrames <- 2, MaxFaults <- 1,
          running <- rxRunning, pc <- rxPc, buffer <- rxBuffer,
          sent <- rxSent, delivered <- rxDelivered

ConfigNames == {"ctrl", "cycle_ms", "leg_param", "l1", "l2"}

\* A table in a table, with two keys each.
ConfigPaths ==
    {<<>>, <<"ctrl">>, <<"ctrl", "cycle_ms">>, <<"ctrl", "leg_param">>,
     <<"ctrl", "leg_param", "l1">>, <<"ctrl", "leg_param", "l2">>}

SmallErrors == -2 .. 2

-----------------------------------------------------------------------------
Parts == {"binding", "siso", "client", "socket", "chassis", "rx", "merge"}

PartsInit ==
    /\ part \in Parts
    /\ Init /\ PidInit /\ ClientInit /\ SockInit /\ ChassisInit /\ Rx!Init /\ MergeInit
    /\ part # "merge" => \A p \in Paths \ {<<>>} : user[p] = "none" /\ config[p] = "none"
    /\ part # "binding" => eager = {}
    /\ part # "chassis" => \A g \in Legs : pose[g] = <<1, 2>>

BindingStep ==
    /\ part = "binding" /\ Next
    /\ UNCHANGED <<sisoVars, clientVars, sockVars, chassisVars, rxVars, mergeVars>>

SisoStep ==
    /\ part = "siso" /\ PidNext
    /\ UNCHANGED <<vars, clientVars, sockVars, chassisVars, rxVars, mergeVars>>

ClientsStep ==
    /\ part = "client" /\ ClientNext
    /\ UNCHANGED <<vars, sisoVars, sockVars, chassisVars, rxVars, mergeVars>>

SocketStep ==
    /\ part = "socket" /\ SockNext
    /\ UNCHANGED <<vars, sisoVars, clientVars, chassisVars, rxVars, mergeVars>>

ChassisStep ==
    /\ part = "chassis" /\ ChassisNext
    /\ UNCHANGED <<vars, sisoVars, clientVars, sockVars, rxVars, mergeVars>>

RxStep ==
    /\ part = "rx" /\ Rx!Next
    /\ UNCHANGED <<vars, sisoVars, clientVars, sockVars, chassisVars, mergeVars>>

MergeStep ==
    /\ part = "merge" /\ MergeNext
    /\ UNCHANGED <<vars, sisoVars, clientVars, sockVars, chassisVars, rxVars>>

PartsNext ==
    /\ BindingStep \/ SisoStep \/ ClientsStep \/ SocketStep \/ ChassisStep \/ RxStep
       \/ MergeStep
    /\ UNCHANGED part

partsVars == <<part, vars, sisoVars, clientVars, sockVars, chassisVars, rxVars, mergeVars>>

\* The threads of a part that is not followed have nothing to do in its initial
\* state, except the reader of the port.
PartsSpec ==
    /\ PartsInit /\ [][PartsNext]_partsVars
    /\ ClientFairness
    /\ SockFairness
    /\ part = "rx" => Rx!Fairness

-----------------------------------------------------------------------------
\* The reader of a serial port ends once it is stopped (SerialRx).
ReaderStops == Rx!ReaderStops

=============================================================================
