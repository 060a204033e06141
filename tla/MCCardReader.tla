---------------------------- MODULE MCCardReader ----------------------------
(* Constants of the small instances of CardReader.                         *)
EXTENDS CardReader

\* Levels of three bits.  "key" and "single" have a UID of one level.  The
\* two others share their first level, whose first bit stands for the
\* cascade tag, and the second level of "twin" is the UID of the key.
MCCards == {"key", "single", "double", "twin"}
MCDepth == [c \in MCCards |-> IF c \in {"key", "single"} THEN 1 ELSE 2]

MCUid ==
    [key    |-> <<<<0, 1, 0>>, <<0, 0, 0>>>>,
     single |-> <<<<0, 1, 1>>, <<0, 0, 0>>>>,
     double |-> <<<<1, 0, 0>>, <<0, 1, 1>>>>,
     twin   |-> <<<<1, 0, 0>>, <<0, 1, 0>>>>]
=============================================================================
