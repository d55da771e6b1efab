------------------------------ MODULE TimeSpec ------------------------------
(***************************************************************************)
(* The timespec arithmetic of src/util/util.hpp.  A timespec is a record   *)
(* of seconds and nanoseconds; Sec is the number of nanoseconds in a       *)
(* second (10^9 in the code, small in the models: nothing depends on it).  *)
(***************************************************************************)
EXTENDS Integers

CONSTANT Sec

ASSUME SecAssumption == Sec \in Nat \ {0}

Timespec == [sec : Int, nsec : Int]

\* What clock_gettime returns: nanoseconds stay below one second.
NormalTimespec == {t \in Timespec : t.nsec \in 0 .. Sec - 1}

\* The instant a timespec stands for, in nanoseconds.
Ns(t) == t.sec * Sec + t.nsec

\* Variant of IncTime that carries one nanosecond too late.
IncTimeLate(t, ns) ==
    LET total == t.nsec + ns
    IN  IF total > Sec
        THEN [sec |-> t.sec + total \div Sec, nsec |-> total % Sec]
        ELSE [t EXCEPT !.nsec = total]

\* The carry loop of incTime runs total \div Sec times when total >= Sec and
\* not at all below: a negative total is left as it is.
IncTime(t, ns) ==
    LET total == t.nsec + ns
    IN  IF total >= Sec
        THEN [sec |-> t.sec + total \div Sec, nsec |-> total % Sec]
        ELSE [t EXCEPT !.nsec = total]

GetTimeDuration(start, end) ==
    (end.nsec - start.nsec) + (end.sec - start.sec) * Sec

\* What setThisThreadRealTime asks SCHED_DEADLINE for.
Reservation(period) ==
    [runtime |-> (period \div 1000) * 300, deadline |-> (period \div 1000) * 500, period |-> period]

\* What the kernel takes for a reservation, whoever asks and whatever else is
\* reserved: the three are in order, the runtime is not below its granularity of
\* 1024 ns, and the period is within sched_deadline_period_min_us and _max_us,
\* 100 and 2^22 us by default.
PeriodMin == 100 * 1000
PeriodMax == 4194304 * 1000
Admitted(r) ==
    /\ 1024 <= r.runtime /\ r.runtime <= r.deadline /\ r.deadline <= r.period
    /\ PeriodMin <= r.period /\ r.period <= PeriodMax

=============================================================================
