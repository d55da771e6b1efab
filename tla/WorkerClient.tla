---------------------------- MODULE WorkerClient ----------------------------
(***************************************************************************)
(* io::Io (src/io/io.hpp) and run::Runner (src/ctrl/runner.cc) in the      *)
(* hands of one client thread that calls run, stop and the destructor in   *)
(* any order.  RobotRun fixes the order the repository uses; this module   *)
(* says what the interface does with every other one.                      *)
(*                                                                         *)
(* Touching a destroyed part is undefined: the process may die or go on.   *)
(***************************************************************************)
EXTENDS Worker

VARIABLES call,    \* what the client is inside of, per worker
          object,  \* "whole", "base" (derived part destroyed), "freed" (buffer too), "gone"
          died,    \* std::terminate: an exception nobody catches, or worse
          misused  \* history: workers stopped twice, or destroyed while running

clientVars == <<workerVars, call, object, died, misused>>

ClientInit ==
    /\ InitWorkers
    /\ call = [w \in Workers |-> "none"]
    /\ object = [w \in Workers |-> "whole"]
    /\ died = FALSE
    /\ misused = {}

\* The client is one thread: it is inside at most one call.
Idle == ~died /\ \A w \in Workers : call[w] = "none"

Calls(w, op) == call' = [call EXCEPT ![w] = op]

-----------------------------------------------------------------------------
\* run(): refused and logged when there was a thread before, even a joined one.
Run(w) ==
    /\ Idle /\ object[w] = "whole"
    /\ Start(w) \/ (handle[w] # "null" /\ UNCHANGED workerVars)
    /\ UNCHANGED <<call, object, died, misused>>

\* Variant of Stop that joins without a look at the pointer.
StopUnchecked(w) ==
    /\ Idle /\ object[w] = "whole"
    /\ RequestStop(w)
    /\ Calls(w, "join")
    /\ misused' = misused \cup {v \in {w} : handle[v] = "joined"}
    /\ UNCHANGED <<object, died>>

\* stop(): clear the flag, then join if there ever was a thread.
Stop(w) ==
    /\ Idle /\ object[w] = "whole"
    /\ RequestStop(w)
    /\ IF handle[w] = "null" THEN UNCHANGED call ELSE Calls(w, "join")
    /\ misused' = misused \cup {v \in {w} : handle[v] = "joined"}
    /\ UNCHANGED <<object, died>>

StopJoins(w) ==
    /\ ~died /\ call[w] = "join"
    /\ Join(w)
    /\ Calls(w, "none")
    /\ UNCHANGED <<object, died, misused>>

\* The pointer still names a thread that is no longer joinable (or none at
\* all): join() throws std::system_error.
StopThrows(w) ==
    /\ ~died /\ call[w] = "join" /\ handle[w] # "joinable"
    /\ died' = TRUE
    /\ UNCHANGED <<workerVars, call, object, misused>>

\* The destructor of the derived class closes the descriptor and takes read()
\* with it.
Destroy(w) ==
    /\ Idle /\ object[w] = "whole"
    /\ object' = [object EXCEPT ![w] = "base"]
    /\ Calls(w, "destroy")
    /\ misused' = misused \cup {v \in {w} : flag[v]}
    /\ UNCHANGED <<workerVars, died>>

\* ~Io: delete[] buffer, before the join.
FreeBuffer(w) ==
    /\ ~died /\ call[w] = "destroy" /\ object[w] = "base"
    /\ object' = [object EXCEPT ![w] = "freed"]
    /\ UNCHANGED <<workerVars, call, died, misused>>

\* if (thread && thread->joinable()) join, without clearing the flag
DestructorEnds(w) ==
    /\ ~died /\ call[w] = "destroy" /\ object[w] = "freed"
    /\ Join(w) \/ (handle[w] # "joinable" /\ UNCHANGED workerVars)
    /\ object' = [object EXCEPT ![w] = "gone"]
    /\ Calls(w, "none")
    /\ UNCHANGED <<died, misused>>

ClientStep ==
    \E w \in Workers :
        \/ StopJoins(w) \/ StopThrows(w) \/ FreeBuffer(w) \/ DestructorEnds(w)

-----------------------------------------------------------------------------
ThreadStep(w) ==
    /\ ~died
    /\ LoopTest(w) \/ BodyReturns(w)
    /\ UNCHANGED <<call, object, died, misused>>

\* read() or the buffer it fills is gone: a pure virtual call, or a crash.
TouchesTorn(w) ==
    /\ ~died /\ tpc[w] = "body" /\ object[w] # "whole"
    /\ died' = TRUE
    /\ UNCHANGED <<workerVars, call, object, misused>>

ClientNext ==
    \/ ClientStep
    \/ \E w \in Workers : Run(w) \/ Stop(w) \/ Destroy(w) \/ ThreadStep(w) \/ TouchesTorn(w)

\* Threads are scheduled, and a client finishes the calls it makes.
ClientFairness == WF_clientVars(ClientStep) /\ \A w \in Workers : WF_clientVars(ThreadStep(w))

ClientSpec == ClientInit /\ [][ClientNext]_clientVars /\ ClientFairness

-----------------------------------------------------------------------------
\* A client that stops a worker at most once, and stops it before destroying
\* it, never brings the process down.
DisciplineSuffices == died => misused # {}

\* A call of stop() comes back, and so does the destructor of a stopped worker.
CallsReturn ==
    \A w \in Workers :
        call[w] # "none" /\ w \notin misused ~> call[w] = "none" \/ died

=============================================================================
