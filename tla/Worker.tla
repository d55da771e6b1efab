------------------------------- MODULE Worker -------------------------------
(***************************************************************************)
(* A thread object: what io::Io (src/io/io.hpp) and run::Runner            *)
(* (src/ctrl/runner.cc) have in common.  Each owns an atomic flag          *)
(* `running', a pointer to a std::thread that is never reset, and a thread *)
(* that repeats its body while the flag is set.  The module gives the      *)
(* steps; RobotRun composes them under the caller that the code has.       *)
(***************************************************************************)

CONSTANT Workers

VARIABLES flag,    \* std::atomic<bool> running, per worker
          handle,  \* std::thread *thread: "null", "joinable" or "joined"
          tpc      \* the thread: "none", "test", "body" or "done"

workerVars == <<flag, handle, tpc>>

InitWorkers ==
    /\ flag = [w \in Workers |-> FALSE]
    /\ handle = [w \in Workers |-> "null"]
    /\ tpc = [w \in Workers |-> "none"]

\* run(): refused (logged, nothing changes) unless the pointer is null.
Start(w) ==
    /\ handle[w] = "null"
    /\ flag' = [flag EXCEPT ![w] = TRUE]
    /\ handle' = [handle EXCEPT ![w] = "joinable"]
    /\ tpc' = [tpc EXCEPT ![w] = "test"]

\* stop() clears the flag, then joins the thread if there is one.
RequestStop(w) ==
    /\ flag' = [flag EXCEPT ![w] = FALSE]
    /\ UNCHANGED <<handle, tpc>>

\* Variant of Join that does not wait for the thread.
Detach(w) ==
    /\ handle[w] = "joinable"
    /\ handle' = [handle EXCEPT ![w] = "joined"]
    /\ UNCHANGED <<flag, tpc>>

Join(w) ==
    /\ handle[w] = "joinable"
    /\ tpc[w] = "done"
    /\ handle' = [handle EXCEPT ![w] = "joined"]
    /\ UNCHANGED <<flag, tpc>>

\* Variant of LoopTest that does not look at the flag.
LoopForever(w) ==
    /\ tpc[w] = "test"
    /\ tpc' = [tpc EXCEPT ![w] = "body"]
    /\ UNCHANGED <<flag, handle>>

\* while (running)
LoopTest(w) ==
    /\ tpc[w] = "test"
    /\ tpc' = [tpc EXCEPT ![w] = IF flag[w] THEN "body" ELSE "done"]
    /\ UNCHANGED <<flag, handle>>

BodyReturns(w) ==
    /\ tpc[w] = "body"
    /\ tpc' = [tpc EXCEPT ![w] = "test"]
    /\ UNCHANGED <<flag, handle>>

TypeOKWorkers ==
    /\ flag \in [Workers -> BOOLEAN]
    /\ handle \in [Workers -> {"null", "joinable", "joined"}]
    /\ tpc \in [Workers -> {"none", "test", "body", "done"}]

\* The threads that exist and have not returned.
Alive == {w \in Workers : tpc[w] \in {"test", "body"}}

=============================================================================
