-------------------------------- MODULE Boot --------------------------------
(***************************************************************************)
(* From the start of main (app/main.cc) through robotCreate and the        *)
(* constructor of Aokee to a running robot, or to one of the many ways to  *)
(* fail on the way; and the end of the process.  Several processes, started *)
(* and restarted at any time, want the same serial port (src/io/serial.cc). *)
(*                                                                         *)
(* flock and the clean-up of a process that ends are the kernel's.         *)
(***************************************************************************)
CONSTANTS Processes,
          Nobody,   \* nobody holds the lock, nobody has set the line
          Keys      \* what the constructor reads before and after it opens the port

ASSUME BootAssumption ==
    /\ Nobody \notin Processes
    /\ Keys = {"chassis", "rs485", "motor"}

\* The configuration file: it cannot be parsed or has no key "robot", the key
\* is no string or names no robot, or all is well.
Files == {"bad", "unknown", "Aokee"}

VARIABLES pc,      \* where each process is
          file,    \* the user's configuration file
          wrong,   \* keys that are missing or of the wrong type or size
          lock,    \* who holds the flock on the port
          line     \* who has set or flushed the line last

vars == <<pc, file, wrong, lock, line>>

Init ==
    /\ pc = [p \in Processes |-> "start"]
    /\ file \in [Processes -> Files]
    /\ wrong \in [Processes -> SUBSET Keys]
    /\ lock = Nobody /\ line = Nobody

At(p, from, to) == pc[p] = from /\ pc' = [pc EXCEPT ![p] = to]

\* The end of a process closes its descriptors, which drops the lock.
Ends(p) ==
    /\ pc' = [pc EXCEPT ![p] = "gone"]
    /\ lock' = IF lock = p THEN Nobody ELSE lock
    /\ UNCHANGED <<file, wrong, line>>

-----------------------------------------------------------------------------
(* main and robotCreate                                                    *)

\* argc > 2 ends main; otherwise the file is opened, where a failure is only
\* logged: parse_file meets it again.
Arguments(p) ==
    \/ pc[p] = "start" /\ Ends(p)
    \/ At(p, "start", "parse") /\ UNCHANGED <<file, wrong, lock, line>>

Parse(p) ==
    /\ At(p, "parse", IF file[p] = "bad" THEN "failed" ELSE "name")
    /\ UNCHANGED <<file, wrong, lock, line>>

\* A value that is no string counts as the name "err".
Name(p) ==
    /\ At(p, "name", IF file[p] = "Aokee" THEN "defaults" ELSE "failed")
    /\ UNCHANGED <<file, wrong, lock, line>>

\* The default configuration is parsed (or is not there) and merged.
Defaults(p) ==
    /\ \E to \in {"chassis", "failed"} : At(p, "defaults", to)
    /\ UNCHANGED <<file, wrong, lock, line>>

\* robotCreate returned nullptr: main returns -1.
ReturnError(p) == pc[p] = "failed" /\ Ends(p)

-----------------------------------------------------------------------------
(* Aokee::Aokee: the members in their order.  A getter that throws destroys *)
(* those that exist and leaves robotCreate with nullptr.                    *)

\* getValue, getArray, getTable
ReadKeys(p, key, to, unwind) ==
    /\ At(p, key, IF key \in wrong[p] THEN unwind ELSE to)
    /\ UNCHANGED <<file, wrong, lock, line>>

OpenPort(p) ==
    \/ pc[p] = "open" /\ Ends(p)
    \/ At(p, "open", "lock") /\ UNCHANGED <<file, wrong, lock, line>>

\* Variant of LockPort that waits for the lock, without LOCK_NB.
LockPortWaits(p) ==
    /\ lock = Nobody
    /\ At(p, "lock", "configure") /\ lock' = p
    /\ UNCHANGED <<file, wrong, line>>

\* Variant of LockPort that goes on without the lock.
LockPortAnyway(p) ==
    /\ At(p, "lock", "configure")
    /\ lock' = IF lock = Nobody THEN p ELSE lock
    /\ UNCHANGED <<file, wrong, line>>

\* flock(LOCK_EX | LOCK_NB): "already locked by another process" ends this one.
LockPort(p) ==
    \/ lock # Nobody /\ pc[p] = "lock" /\ Ends(p)
    \/ /\ lock = Nobody
       /\ At(p, "lock", "configure") /\ lock' = p
       /\ UNCHANGED <<file, wrong, line>>

\* tcgetattr and tcsetattr; a failure of either ends the process.
ConfigurePort(p) ==
    \/ pc[p] = "configure" /\ Ends(p)
    \/ /\ At(p, "configure", "flush") /\ line' = p
       /\ UNCHANGED <<file, wrong, lock>>

\* tcflush; a failure ends the process with the settings changed.
FlushPort(p) ==
    \/ pc[p] = "flush" /\ Ends(p)
    \/ /\ At(p, "flush", "motor") /\ line' = p
       /\ UNCHANGED <<file, wrong, lock>>

Construct(p) ==
    \/ ReadKeys(p, "chassis", "rs485", "failed")
    \/ ReadKeys(p, "rs485", "open", "failed")
    \/ OpenPort(p) \/ LockPort(p) \/ ConfigurePort(p) \/ FlushPort(p)
    \/ ReadKeys(p, "motor", "run", "unwind")

-----------------------------------------------------------------------------
(* The robot runs until its flag is cleared; ~Serial flushes and closes.   *)

RunReturns(p) ==
    /\ At(p, "run", "delete")
    /\ UNCHANGED <<file, wrong, lock, line>>

Flush(p, from, to) ==
    /\ At(p, from, to) /\ line' = p
    /\ UNCHANGED <<file, wrong, lock>>

\* Variant of Close for a destructor that is not run.
CloseNever(p, from, to) ==
    /\ At(p, from, to)
    /\ UNCHANGED <<file, wrong, lock, line>>

Close(p, from, to) ==
    /\ At(p, from, to)
    /\ lock' = IF lock = p THEN Nobody ELSE lock
    /\ UNCHANGED <<file, wrong, line>>

Destroy(p) ==
    \/ Flush(p, "unwind", "unwound") \/ Close(p, "unwound", "failed")
    \/ Flush(p, "delete", "deleted") \/ Close(p, "deleted", "return")

Return(p) == pc[p] = "return" /\ Ends(p)

Step(p) ==
    \/ Arguments(p) \/ Parse(p) \/ Name(p) \/ Defaults(p) \/ ReturnError(p)
    \/ Construct(p) \/ Destroy(p) \/ Return(p)

\* SIGINT, at any moment: exit(0).
Sigint(p) == pc[p] # "gone" /\ Ends(p)

\* The program is started again, perhaps with another configuration.
Restart(p) ==
    /\ At(p, "gone", "start")
    /\ \E f \in Files : file' = [file EXCEPT ![p] = f]
    /\ \E k \in SUBSET Keys : wrong' = [wrong EXCEPT ![p] = k]
    /\ UNCHANGED <<lock, line>>

Next == \E p \in Processes : Step(p) \/ RunReturns(p) \/ Sigint(p) \/ Restart(p)

\* Each process is scheduled; nobody has to end a robot that runs.
Spec == Init /\ [][Next]_vars /\ \A p \in Processes : WF_vars(Step(p))

-----------------------------------------------------------------------------
\* From tcsetattr to its own close a process has the line to itself: no other
\* one, starting, failing or ending, changes its settings or flushes it.
LineIsMine ==
    \A p \in Processes :
        pc[p] \in {"flush", "motor", "run", "unwind", "unwound", "delete", "deleted"} =>
            lock = p /\ line = p

\* A start that fails after the port was opened gives it back before main
\* returns: the exception destroys the port.
FailureReleases == lock # Nobody => pc[lock] \notin {"failed", "return", "gone"}

\* Every start comes to a decision, whatever the other processes do.
Decides == \A p \in Processes : pc[p] = "start" ~> pc[p] \in {"run", "gone"}

=============================================================================
