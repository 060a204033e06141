-------------------------------- MODULE Millis --------------------------------
(***************************************************************************)
(* millis() of the boards: an unsigned counter of milliseconds that starts *)
(* over after W of them (2^32, that is 49.7 days), and the unsigned        *)
(* arithmetic the programs do with it.                                     *)
(***************************************************************************)
EXTENDS Integers

CONSTANT W   \* the counter has the values 0 .. W - 1

ASSUME ClockAssumption == W \in Nat \ {0}

Time == 0 .. W - 1

\* a - b in unsigned arithmetic: how long after b it is at a.
Elapsed(a, b) == IF b <= a THEN a - b ELSE a - b + W

\* t + 1 in unsigned arithmetic: the counter moves on.
Advance(t) == IF t + 1 = W THEN 0 ELSE t + 1

\* t + d in unsigned arithmetic, for a d below W.
After(t, d) == IF t + d < W THEN t + d ELSE t + d - W

\* t - d in unsigned arithmetic, for a d below W.
Before(t, d) == IF d <= t THEN t - d ELSE t - d + W
=============================================================================
