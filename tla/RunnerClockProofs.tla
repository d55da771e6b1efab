------------------------- MODULE RunnerClockProofs -------------------------
(***************************************************************************)
(* The schedule of RunnerClock for every cycle time, every length of a     *)
(* second, every rounding error below a cycle and every timing of the      *)
(* task: the types, the wake-up window and the absence of run-ahead.       *)
(***************************************************************************)
EXTENDS RunnerClock, TLAPS

\* Quotient and remainder by a second put a count of nanoseconds together
\* again; the remainder is below a second.
LEMMA DivMod ==
    ASSUME NEW n \in Int
    PROVE  /\ n \div Sec \in Int
           /\ n % Sec \in 0 .. Sec - 1
           /\ n = Sec * (n \div Sec) + (n % Sec)
BY SecAssumption, SMTT(20)

\* An instant is a whole number of nanoseconds.
LEMMA NsType ==
    ASSUME NEW t \in Timespec
    PROVE  Ns(t) \in Int
BY SecAssumption DEF Timespec, Ns

\* getTimeDuration is the difference of the two instants.
LEMMA DurationIsDifference ==
    ASSUME NEW s \in Timespec, NEW e \in Timespec
    PROVE  GetTimeDuration(s, e) = Ns(e) - Ns(s)
BY SecAssumption, SMTT(20) DEF Timespec, Ns, GetTimeDuration

\* Whole seconds moved from the nanoseconds to the seconds keep the instant.
LEMMA Carry ==
    ASSUME NEW s \in Int, NEW q \in Int, NEW r \in Int
    PROVE  (s + q) * Sec + r = s * Sec + (Sec * q + r)
<1>1. \A a, b, c, d \in Int : (a + b) * c + d = a * c + (c * b + d)
  BY SMTT(20)
<1> QED
  BY <1>1, SecAssumption

\* incTime moves the instant by exactly the given number of nanoseconds,
\* negative numbers included.
THEOREM IncTimeExact ==
    ASSUME NEW t \in Timespec, NEW ns \in Int
    PROVE  /\ IncTime(t, ns) \in Timespec
           /\ Ns(IncTime(t, ns)) = Ns(t) + ns
<1> DEFINE total == t.nsec + ns
<1>1. total \in Int /\ t.sec \in Int /\ t.nsec \in Int
  BY DEF Timespec
<1>2. CASE total >= Sec
  <2>1. IncTime(t, ns) = [sec |-> t.sec + total \div Sec, nsec |-> total % Sec]
    BY <1>2 DEF IncTime
  <2>2. /\ total \div Sec \in Int
        /\ total % Sec \in Int
        /\ total = Sec * (total \div Sec) + (total % Sec)
    BY <1>1, DivMod, SecAssumption
  <2>3. (t.sec + total \div Sec) * Sec + (total % Sec) = t.sec * Sec + total
    <3> DEFINE q == total \div Sec
               r == total % Sec
    <3>1. q \in Int /\ r \in Int /\ total = Sec * q + r
      BY <2>2
    <3> HIDE DEF q, r, total
    <3>2. (t.sec + q) * Sec + r = t.sec * Sec + (Sec * q + r)
      <4>1. PICK s \in Int : s = t.sec
        BY <1>1
      <4>2. (s + q) * Sec + r = s * Sec + (Sec * q + r)
        BY <3>1, Carry
      <4> QED
        BY <4>1, <4>2, Zenon
    <3>3. (t.sec + q) * Sec + r = t.sec * Sec + total
      BY <3>1, <3>2
    <3> QED
      BY <3>3 DEF q, r
  <2>4. IncTime(t, ns) \in Timespec
    BY <1>1, <2>1, <2>2 DEF Timespec
  <2>5. Ns(IncTime(t, ns)) = (t.sec + total \div Sec) * Sec + (total % Sec)
    BY <2>1 DEF Ns
  <2>6. t.sec * Sec \in Int
    BY <1>1, SecAssumption
  <2> HIDE DEF total
  <2>7. Ns(IncTime(t, ns)) = t.sec * Sec + total
    BY <2>3, <2>5
  <2> QED
    BY <1>1, <2>4, <2>6, <2>7 DEF Ns, total
<1>3. CASE ~(total >= Sec)
  <2>1. IncTime(t, ns) = [t EXCEPT !.nsec = total]
    BY <1>3 DEF IncTime
  <2>2. IncTime(t, ns) = [sec |-> t.sec, nsec |-> total]
    BY <2>1 DEF Timespec
  <2> QED
    BY <1>1, <2>2, SecAssumption DEF Timespec, Ns
<1> QED
  BY <1>2, <1>3

\* Incrementing a normalised timespec by a non-negative amount leaves it
\* normalised.
THEOREM IncTimeNormal ==
    ASSUME NEW t \in NormalTimespec, NEW ns \in Nat
    PROVE  IncTime(t, ns) \in NormalTimespec
<1> DEFINE total == t.nsec + ns
<1>1. t \in Timespec /\ total \in Nat /\ t.sec \in Int /\ t.nsec \in Nat
  BY SecAssumption DEF NormalTimespec, Timespec
<1>2. IncTime(t, ns) \in Timespec
  BY <1>1, IncTimeExact
<1>3. IncTime(t, ns).nsec \in 0 .. Sec - 1
  <2>1. CASE total >= Sec
    BY <1>1, <2>1, DivMod DEF IncTime
  <2>2. CASE ~(total >= Sec)
    <3>1. IncTime(t, ns).nsec = total
      BY <1>1, <2>2 DEF IncTime, Timespec
    <3> QED
      BY <1>1, <2>2, <3>1, SecAssumption
  <2> QED
    BY <2>1, <2>2
<1> QED
  BY <1>2, <1>3 DEF NormalTimespec

\* The reservation a controller makes (setThisThreadRealTime) is one the kernel
\* takes exactly when its cycle is within the limits of a period: the integer
\* divisions neither swap the order nor round the runtime below its granularity,
\* so the proportions of the request are never what it is refused for.
THEOREM ReservationAdmitted ==
    ASSUME NEW period \in Nat
    PROVE  Admitted(Reservation(period)) <=> PeriodMin <= period /\ period <= PeriodMax
<1> DEFINE micros == period \div 1000
<1>1. micros \in Nat /\ 1000 * micros <= period /\ period < 1000 * (micros + 1)
  OBVIOUS
<1>2. Reservation(period) = [runtime |-> micros * 300, deadline |-> micros * 500, period |-> period]
  BY DEF Reservation
<1> HIDE DEF micros
<1>3. PeriodMin <= period => micros >= 100
  BY <1>1 DEF PeriodMin
<1> QED
  BY <1>1, <1>2, <1>3 DEF Admitted

-----------------------------------------------------------------------------
(* The loop of thread_func.                                                *)

\* Where the wake-up time stands relative to the clock, per program counter:
\* not after the clock while the thread is awake, in the window of WakeWindow
\* when it sleeps; and at least one cycle after time 0 per task released.
Schedule ==
    /\ Ns(now) >= 0
    /\ pc = "start" => tasks = 0
    /\ pc \in {"test", "task", "resched"} => Ns(t_set) <= Ns(now)
    /\ pc = "resched" => Ns(t_set) <= Ns(t_now) /\ Ns(t_now) <= Ns(now)
    /\ pc = "sleep" => /\ Ns(t_now) < Ns(t_set)
                       /\ Ns(t_set) <= Ns(t_now) + (Cycle + FloatErr)
    /\ pc \in {"test", "sleep"} => tasks * Cycle <= Ns(t_set)
    /\ pc \in {"task", "resched"} => (tasks - 1) * Cycle <= Ns(t_set)

IInv == TypeOK /\ Schedule

\* One task is worth one cycle.
LEMMA CycleSum ==
    ASSUME NEW n \in Int
    PROVE  /\ n * Cycle \in Int
           /\ (n - 1) * Cycle \in Int
           /\ (n - 1) * Cycle + Cycle = n * Cycle
           /\ ((n + 1) - 1) * Cycle = n * Cycle
<1>1. \A a, b \in Int : (a - 1) * b + b = a * b
  BY SMTT(20)
<1> QED
  BY <1>1, ClockAssumption

LEMMA NormalIsTimespec == NormalTimespec \subseteq Timespec
BY DEF NormalTimespec

\* What NextWake returns: a normalised timespec after the measured time, at
\* most a cycle and the rounding error after it, and a cycle or more after
\* the previous wake-up time.
LEMMA NextWakeBounds ==
    ASSUME NEW t \in NormalTimespec, NEW m \in NormalTimespec,
           NEW e \in -FloatErr .. FloatErr,
           Ns(t) <= Ns(m)
    PROVE  /\ NextWake(t, m, e) \in NormalTimespec
           /\ Ns(m) < Ns(NextWake(t, m, e))
           /\ Ns(NextWake(t, m, e)) <= Ns(m) + (Cycle + FloatErr)
           /\ Ns(t) + Cycle <= Ns(NextWake(t, m, e))
<1> DEFINE next == IncTime(t, Cycle)
           remain == GetTimeDuration(m, next)
<1>1. next \in NormalTimespec /\ Ns(next) = Ns(t) + Cycle
  BY IncTimeNormal, IncTimeExact, NormalIsTimespec, ClockAssumption
<1>2. remain = Ns(next) - Ns(m)
  BY <1>1, DurationIsDifference, NormalIsTimespec
<1>3. Ns(t) \in Int /\ Ns(m) \in Int /\ Ns(next) \in Int
  BY <1>1, NsType, NormalIsTimespec
<1>4. Cycle \in Nat /\ FloatErr \in Nat /\ FloatErr < Cycle /\ e \in Int /\ -FloatErr <= e /\ e <= FloatErr
  BY ClockAssumption
<1>5. CASE remain <= 0
  <2>1. NextWake(t, m, e) = IncTime(next, Cycle - remain + e)
    BY <1>5 DEF NextWake
  <2>2. Cycle - remain + e \in Nat
    <3> HIDE DEF next, remain
    <3> QED BY <1>2, <1>3, <1>4, <1>5
  <2>3. /\ NextWake(t, m, e) \in NormalTimespec
        /\ Ns(NextWake(t, m, e)) = Ns(next) + (Cycle - remain + e)
    BY <1>1, <2>1, <2>2, IncTimeNormal, IncTimeExact, NormalIsTimespec
  <2> HIDE DEF next, remain
  <2>4. Ns(NextWake(t, m, e)) = Ns(m) + Cycle + e
    BY <1>2, <1>3, <1>4, <2>3
  <2> QED
    BY <1>1, <1>2, <1>3, <1>4, <1>5, <2>3, <2>4
<1>6. CASE ~(remain <= 0)
  <2>1. NextWake(t, m, e) = next
    BY <1>6 DEF NextWake
  <2> HIDE DEF next, remain
  <2> QED
    BY <1>1, <1>2, <1>3, <1>4, <1>6, <2>1
<1> QED
  BY <1>5, <1>6

LEMMA InitIInv == Init => IInv
<1> SUFFICES ASSUME Init PROVE IInv
  OBVIOUS
<1>1. Zero \in NormalTimespec /\ Ns(Zero) = 0
  BY SecAssumption DEF Zero, NormalTimespec, Timespec, Ns
<1> QED
  BY <1>1 DEF Init, IInv, TypeOK, Schedule, PCs

\* The instants the invariant speaks about are integers.
LEMMA InstantsAreInts ==
    ASSUME TypeOK
    PROVE  Ns(now) \in Int /\ Ns(t_set) \in Int /\ Ns(t_now) \in Int
BY NsType, NormalIsTimespec DEF TypeOK

LEMMA StepIInv == IInv /\ [Next]_vars => IInv'
<1> SUFFICES ASSUME IInv, [Next]_vars PROVE IInv'
  OBVIOUS
<1>1. /\ Ns(now) \in Int /\ Ns(t_set) \in Int /\ Ns(t_now) \in Int
      /\ tasks \in Nat /\ tasks * Cycle \in Int /\ (tasks - 1) * Cycle \in Int
  BY InstantsAreInts, CycleSum DEF IInv, TypeOK
<1>2. CASE Begin
  <2>1. 0 * Cycle = 0
    BY ClockAssumption
  <2> QED
    BY <1>1, <1>2, <2>1 DEF Begin, IInv, TypeOK, Schedule, PCs
<1>3. CASE StartTask
  <2>1. (tasks' - 1) * Cycle = tasks * Cycle
    BY <1>1, <1>3, CycleSum DEF StartTask
  <2>2. (tasks' - 1) * Cycle <= Ns(t_set')
    BY <1>1, <1>3, <2>1 DEF StartTask, IInv, Schedule
  <2> QED
    BY <1>1, <1>3, <2>2 DEF StartTask, IInv, TypeOK, Schedule, PCs
<1>4. CASE Leave
  BY <1>4 DEF Leave, IInv, TypeOK, Schedule, PCs
<1>5. CASE EndTask
  BY <1>1, <1>5 DEF EndTask, IInv, TypeOK, Schedule, PCs
<1>6. CASE Reschedule
  <2>1. PICK e \in -FloatErr .. FloatErr : t_set' = NextWake(t_set, t_now, e)
    BY <1>6 DEF Reschedule
  <2>2. Ns(t_set) <= Ns(t_now) /\ t_set \in NormalTimespec /\ t_now \in NormalTimespec
    BY <1>6 DEF Reschedule, IInv, TypeOK, Schedule
  <2>3. /\ t_set' \in NormalTimespec
        /\ Ns(t_now) < Ns(t_set')
        /\ Ns(t_set') <= Ns(t_now) + (Cycle + FloatErr)
        /\ Ns(t_set) + Cycle <= Ns(t_set')
    BY <2>1, <2>2, NextWakeBounds
  <2>4. Ns(t_set') \in Int
    BY <2>3, NsType, NormalIsTimespec
  <2>5. tasks * Cycle <= Ns(t_set')
    <3>1. (tasks - 1) * Cycle <= Ns(t_set)
      BY <1>6 DEF Reschedule, IInv, Schedule
    <3>2. (tasks - 1) * Cycle + Cycle = tasks * Cycle
      BY <1>1, CycleSum
    <3> QED
      BY <1>1, <2>3, <2>4, <3>1, <3>2, ClockAssumption
  <2> QED
    BY <1>1, <1>6, <2>3, <2>4, <2>5 DEF Reschedule, IInv, TypeOK, Schedule, PCs
<1>7. CASE Wake
  <2>1. GetTimeDuration(t_set, now) = Ns(now) - Ns(t_set)
    BY DurationIsDifference, NormalIsTimespec DEF IInv, TypeOK
  <2>2. Ns(t_set) <= Ns(now)
    BY <1>1, <1>7, <2>1 DEF Wake
  <2> QED
    BY <1>1, <1>7, <2>2 DEF Wake, IInv, TypeOK, Schedule, PCs
<1>8. CASE Stop
  BY <1>8 DEF Stop, IInv, TypeOK, Schedule, PCs
<1>9. CASE Tick
  <2>1. PICK d \in 1 .. MaxTick : now' = IncTime(now, d)
    BY <1>9 DEF Tick
  <2>2. d \in Nat
    BY ClockAssumption
  <2>3. now' \in NormalTimespec /\ Ns(now') = Ns(now) + d
    BY <2>1, <2>2, IncTimeNormal, IncTimeExact, NormalIsTimespec DEF IInv, TypeOK
  <2>4. Ns(now) <= Ns(now') /\ Ns(now') \in Int
    BY <1>1, <2>2, <2>3
  <2> QED
    BY <1>1, <1>9, <2>3, <2>4 DEF Tick, IInv, TypeOK, Schedule, PCs
<1>10. CASE UNCHANGED vars
  BY <1>10 DEF vars, IInv, TypeOK, Schedule
<1> QED
  BY <1>2, <1>3, <1>4, <1>5, <1>6, <1>7, <1>8, <1>9, <1>10 DEF Next, Thread

LEMMA Invariance == Spec => []IInv
BY InitIInv, StepIInv, PTL DEF Spec

\* The variables of Runner::thread_func keep their types and every timespec
\* stays normalised, whatever the constants.
THEOREM TypeCorrect == Spec => []TypeOK
<1>1. IInv => TypeOK
  BY DEF IInv
<1> QED
  BY <1>1, Invariance, PTL

\* A sleeping controller thread wakes after the time it measured and at most
\* one cycle and the rounding error later, however long its task took.
THEOREM WakeWindowHolds == Spec => []WakeWindow
<1>1. IInv => WakeWindow
  <2> SUFFICES ASSUME IInv, pc = "sleep"
               PROVE  /\ GetTimeDuration(t_now, t_set) > 0
                      /\ GetTimeDuration(t_now, t_set) <= Cycle + FloatErr
    BY DEF WakeWindow
  <2>1. GetTimeDuration(t_now, t_set) = Ns(t_set) - Ns(t_now)
    BY DurationIsDifference, NormalIsTimespec DEF IInv, TypeOK
  <2> QED
    BY <2>1, InstantsAreInts, ClockAssumption DEF IInv, Schedule
<1> QED
  BY <1>1, Invariance, PTL

\* The n-th task never starts before n - 1 cycles have passed.
THEOREM NeverAheadHolds == Spec => []NeverAhead
<1>1. IInv => NeverAhead
  <2> SUFFICES ASSUME IInv, pc = "task" PROVE Ns(now) >= (tasks - 1) * Cycle
    BY DEF NeverAhead
  <2>1. (tasks - 1) * Cycle \in Int
    BY CycleSum DEF IInv, TypeOK
  <2> QED
    BY <2>1, InstantsAreInts DEF IInv, Schedule
<1> QED
  BY <1>1, Invariance, PTL

=============================================================================
