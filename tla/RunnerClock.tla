---------------------------- MODULE RunnerClock ----------------------------
(***************************************************************************)
(* The periodic loop of a controller thread on the robot (not in the       *)
(* simulator): Runner::thread_func of src/ctrl/runner.cc.                  *)
(*                                                                         *)
(* The thread sleeps to an absolute wake-up time t_set, which it advances  *)
(* by one cycle per task; when a task overran its cycle it re-bases t_set  *)
(* on the time it measured.  Time is CLOCK_MONOTONIC, `now`: it advances   *)
(* by any amount at any moment, whatever the thread is doing.              *)
(***************************************************************************)
EXTENDS TimeSpec

CONSTANTS Cycle,     \* cycle_ms * Ms, in nanoseconds
          FloatErr,  \* largest rounding error of the float expression for t_total
          MaxTick,   \* bound: longest time between two steps of the model
          Horizon,   \* bound: time at which the clock stops advancing by itself
          MaxTasks   \* bound: tasks started in one run

ASSUME ClockAssumption ==
    /\ Cycle \in Nat \ {0}
    /\ FloatErr \in Nat /\ FloatErr < Cycle
    /\ MaxTick \in Nat \ {0}
    /\ Horizon \in Nat /\ MaxTasks \in Nat

VARIABLES now,      \* CLOCK_MONOTONIC
          running,  \* std::atomic<bool> Runner::running
          pc,       \* where the thread is
          t_set,    \* the wake-up time
          t_now,    \* the time measured after the task
          tasks     \* history: tasks started so far

vars == <<now, running, pc, t_set, t_now, tasks>>

Zero == [sec |-> 0, nsec |-> 0]

Init ==
    /\ now = Zero
    /\ running = TRUE
    /\ pc = "start"
    /\ t_set = Zero
    /\ t_now = Zero
    /\ tasks = 0

-----------------------------------------------------------------------------
\* clock_gettime(CLOCK_MONOTONIC, &t_set)
Begin ==
    /\ pc = "start"
    /\ pc' = "test"
    /\ t_set' = now
    /\ UNCHANGED <<now, running, t_now, tasks>>

\* while (running) {
StartTask ==
    /\ pc = "test" /\ running /\ tasks < MaxTasks
    /\ pc' = "task"
    /\ tasks' = tasks + 1
    /\ UNCHANGED <<now, running, t_set, t_now>>

Leave ==
    /\ pc = "test" /\ ~running
    /\ pc' = "done"
    /\ UNCHANGED <<now, running, t_set, t_now, tasks>>

\* task() returns and clock_gettime(CLOCK_MONOTONIC, &t_now)
EndTask ==
    /\ pc = "task"
    /\ pc' = "resched"
    /\ t_now' = now
    /\ UNCHANGED <<now, running, t_set, tasks>>

\* Variant of NextWake that forgets the second increment.
NextWakeNoRebase(t, m, e) == IncTime(t, Cycle)

\* The wake-up time that follows t, measured at m with rounding error e: the
\* next cycle or, when that is already past, a second increment.
NextWake(t, m, e) ==
    LET next   == IncTime(t, Cycle)
        remain == GetTimeDuration(m, next)
    IN  IF remain <= 0 THEN IncTime(next, Cycle - remain + e) ELSE next

Reschedule ==
    /\ pc = "resched"
    /\ pc' = "sleep"
    /\ \E e \in -FloatErr .. FloatErr : t_set' = NextWake(t_set, t_now, e)
    /\ UNCHANGED <<now, running, t_now, tasks>>

\* Variant of Wake that returns before its time.
WakeEarly ==
    /\ pc = "sleep"
    /\ pc' = "test"
    /\ UNCHANGED <<now, running, t_set, t_now, tasks>>

\* clock_nanosleep(CLOCK_MONOTONIC, TIMER_ABSTIME, &t_set) returns
Wake ==
    /\ pc = "sleep"
    /\ GetTimeDuration(t_set, now) >= 0
    /\ pc' = "test"
    /\ UNCHANGED <<now, running, t_set, t_now, tasks>>

\* Variant of Thread whose loop has no end.
ThreadForever == Begin \/ StartTask \/ EndTask \/ Reschedule \/ Wake

Thread == Begin \/ StartTask \/ Leave \/ EndTask \/ Reschedule \/ Wake

-----------------------------------------------------------------------------
\* Runner::stop clears the flag at any moment.
Stop ==
    /\ running
    /\ running' = FALSE
    /\ UNCHANGED <<now, pc, t_set, t_now, tasks>>

\* Time passes: up to Horizon freely, past it only to wake a sleeper.
Tick ==
    /\ \/ Ns(now) < Horizon
       \/ pc = "sleep" /\ GetTimeDuration(now, t_set) > 0
    /\ \E d \in 1 .. MaxTick : now' = IncTime(now, d)
    /\ UNCHANGED <<running, pc, t_set, t_now, tasks>>

Next == Thread \/ Stop \/ Tick

\* The thread is scheduled (SCHED_DEADLINE, or the default policy when
\* sched_setattr is refused) and the clock does not stop.
Fairness == WF_vars(Thread) /\ WF_vars(Tick)

Spec == Init /\ [][Next]_vars /\ Fairness

-----------------------------------------------------------------------------
PCs == {"start", "test", "task", "resched", "sleep", "done"}

\* Every variable keeps its type; the timespecs of the loop stay normalised,
\* as clock_nanosleep requires of its argument.
TypeOK ==
    /\ now \in NormalTimespec
    /\ running \in BOOLEAN
    /\ pc \in PCs
    /\ t_set \in NormalTimespec
    /\ t_now \in NormalTimespec
    /\ tasks \in Nat

\* When the thread goes to sleep, its wake-up time lies after the moment it
\* measured and at most a cycle (and the rounding error) after it: an overrun
\* is not followed by a burst of tasks that catch up, nor by a long silence.
WakeWindow ==
    pc = "sleep" =>
        /\ GetTimeDuration(t_now, t_set) > 0
        /\ GetTimeDuration(t_now, t_set) <= Cycle + FloatErr

\* The controller never runs ahead of time: its n-th task does not start
\* before n - 1 full cycles have passed, whatever the overruns in between.
NeverAhead ==
    pc = "task" => Ns(now) >= (tasks - 1) * Cycle

\* A stop request ends the thread: it is in its sleep or in its task at
\* worst, and Runner::stop, which joins it, returns.
StopEndsThread == ~running ~> pc = "done"

=============================================================================
