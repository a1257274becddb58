------------------------------- MODULE Floats -------------------------------
(***************************************************************************)
(* The 32-bit floats of ingress and mapping, as whole numbers of units:    *)
(* ONE of them to 1.0, the numbers at -INFINITY and INFINITY the infinite  *)
(* ones, and NaN.                                                          *)
(***************************************************************************)
EXTENDS Integers

CONSTANTS
    ONE,        \* units in 1.0
    INFINITY,   \* the infinite float, in units
    NaN

ASSUME UnitAssumption == ONE \in Nat \ {0}
ASSUME InfinityAssumption == INFINITY \in Nat /\ INFINITY > ONE
ASSUME NaNAssumption == NaN \notin Int

Floats == -INFINITY..INFINITY \cup {NaN}

\* f32::clamp, which lets NaN through.
Clamp(v, lo, hi) ==
    IF v = NaN THEN NaN ELSE IF v < lo THEN lo ELSE IF v > hi THEN hi ELSE v
=============================================================================
