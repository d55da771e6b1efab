------------------------------ MODULE SisoPid ------------------------------
(***************************************************************************)
(* The blocks of src/util/siso.hpp that controllers use: the limiter and   *)
(* util::Pid, called as an object (calc) or as a link of a chain, `e >>    *)
(* pid', which takes it by value.  Aokee and WheelLeggedChassis use only   *)
(* the chain.                                                              *)
(*                                                                         *)
(* Floats are integers here: their rounding is left out.                   *)
(***************************************************************************)
EXTENDS Integers

CONSTANTS Kp, Ki, Kd,   \* the gains
          MaxIout, MaxOut,
          Errors        \* bound: the errors the block is given

ASSUME PidAssumption ==
    /\ Kp \in Int /\ Ki \in Int /\ Kd \in Int
    /\ MaxIout \in Nat /\ MaxOut \in Nat
    /\ Errors \subseteq Int

\* limit(min, max)
Limit(min, max, x) == IF x < min THEN min ELSE IF x > max THEN max ELSE x

-----------------------------------------------------------------------------
VARIABLES iOut,    \* Pid::i_out
          last,    \* Pid::error[0]
          out,     \* what the last call returned
          called,  \* history: "none", or how the block was called last, "calc" or "chain"
          input,   \* history: the error of that call
          own      \* history: calc() has been called on the block itself

sisoVars == <<iOut, last, out, called, input, own>>

PidInit ==
    /\ iOut = 0 /\ last = 0 /\ out = 0
    /\ called = "none" /\ input = 0 /\ own = FALSE

\* i_out += ki * error[0]; i_out << limit(max_iout)
Integrated(e) == Limit(-MaxIout, MaxIout, iOut + Ki * e)

\* out = p_out + i_out + d_out; out << limit(max_out)
Output(e) == Limit(-MaxOut, MaxOut, Kp * e + Integrated(e) + Kd * (e - last))

Returns(how, e) == out' = Output(e) /\ called' = how /\ input' = e

\* Pid::calc on the block itself.
Calc(e) ==
    /\ Returns("calc", e)
    /\ iOut' = Integrated(e) /\ last' = e /\ own' = TRUE

\* Variant of Chain that takes the block by reference.
ChainByReference(e) ==
    /\ Returns("chain", e)
    /\ iOut' = Integrated(e) /\ last' = e
    /\ UNCHANGED own

\* e >> pid: calc on a copy, whose integrator and last error are lost.
Chain(e) ==
    /\ Returns("chain", e)
    /\ UNCHANGED <<iOut, last, own>>

PidNext == \E e \in Errors : Calc(e) \/ Chain(e)

PidSpec == PidInit /\ [][PidNext]_sisoVars

-----------------------------------------------------------------------------
\* However long an error lasts, the integrator stays within max_iout (so that
\* it leaves the limit as soon as the error turns), and the output, which is a
\* torque, within max_out.
WithinLimits == iOut \in -MaxIout .. MaxIout /\ out \in -MaxOut .. MaxOut

\* A block that is only used in chains has no memory: the integral never grows
\* and the derivative is that of a step from zero, call after call, so that kd
\* acts as a second kp.
ChainIsMemoryless ==
    called = "chain" /\ ~own =>
        out = Limit(-MaxOut, MaxOut,
                    (Kp + Kd) * input + Limit(-MaxIout, MaxIout, Ki * input))

=============================================================================
