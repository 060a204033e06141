------------------------------ MODULE ReaderWait ------------------------------
(***************************************************************************)
(* How the RFID library waits for its chip: the loop at the heart of       *)
(* PCD_CommunicateWithPICC(), which polls for an interrupt bit until a     *)
(* deadline that is computed beforehand from millis().  PCD_CalculateCRC() *)
(* waits in the same way, without the timer of the chip.                   *)
(***************************************************************************)
EXTENDS Millis

CONSTANTS
    Wait,     \* how long the chip is given (36 ms)
    MaxPass   \* bound: what one pass of the loop lasts, in ms

ASSUME WaitAssumption ==
    Wait \in Nat \ {0} /\ MaxPass \in Nat \ {0} /\ Wait + MaxPass < W

VARIABLES
    phase,    \* "idle", "poll" (at the top of the loop), "check" (at its end)
    millis,   \* millis()
    deadline,
    comIrq,   \* ComIrqReg: "none", "done" (RxIRq, IdleIRq) or "timer"
    result,   \* "none", "completed", "timedOut" by the chip or "givenUp"
    \* Audit.
    spent,    \* how long the command has been waited for
    pass      \* how long the present pass has lasted

readerVars == <<phase, millis, deadline, comIrq, result, spent, pass>>

WaitTypeOK ==
    /\ phase \in {"idle", "poll", "check"}
    /\ millis \in Time
    /\ deadline \in Time
    /\ comIrq \in {"none", "done", "timer"}
    /\ result \in {"none", "completed", "timedOut", "givenUp"}
    /\ spent \in 0 .. W
    /\ pass \in 0 .. MaxPass

WaitInit ==
    /\ phase = "idle"
    /\ millis \in Time
    /\ deadline = 0
    /\ comIrq = "none"
    /\ result = "none"
    /\ spent = 0
    /\ pass = 0

\* mutant: the deadline is computed in a wider type
WideDeadline(t) == t + Wait
Deadline(t)     == After(t, Wait)

Start ==
    /\ phase = "idle"
    /\ phase' = "poll"
    /\ deadline' = Deadline(millis)
    /\ comIrq' = "none"
    /\ result' = "none"
    /\ spent' = 0
    /\ pass' = 0
    /\ UNCHANGED millis

Return(r) == phase' = "idle" /\ result' = r

Poll ==
    /\ phase = "poll"
    /\ \/ comIrq = "done" /\ Return("completed")
       \/ comIrq = "timer" /\ Return("timedOut")
       \/ comIrq = "none" /\ phase' = "check" /\ UNCHANGED result
    /\ UNCHANGED <<millis, deadline, comIrq, spent, pass>>

\* mutants: the comparison is the wrong way round, or asks for equality
Reversed(t) == t > deadline
NotEqual(t) == t # deadline
GoesOn(t)   == t < deadline

Check ==
    /\ phase = "check"
    /\ IF GoesOn(millis) THEN phase' = "poll" /\ pass' = 0 /\ UNCHANGED result
                      ELSE Return("givenUp") /\ UNCHANGED pass
    /\ UNCHANGED <<millis, deadline, comIrq, spent>>

\* The chip finishes the command, or its timer does, or it is not there.
Chip ==
    /\ phase # "idle"
    /\ comIrq = "none"
    /\ comIrq' \in {"done", "timer"}
    /\ UNCHANGED <<phase, millis, deadline, result, spent, pass>>

WaitTick ==
    /\ phase # "idle" => pass < MaxPass
    /\ millis' = Advance(millis)
    /\ IF phase = "idle" THEN UNCHANGED <<spent, pass>>
       ELSE /\ pass' = pass + 1
            /\ spent' = IF spent < W THEN spent + 1 ELSE spent
    /\ UNCHANGED <<phase, deadline, comIrq, result>>

WaitNext == Start \/ Poll \/ Check \/ Chip \/ WaitTick

WaitSpec == WaitInit /\ [][WaitNext]_readerVars
-----------------------------------------------------------------------------
(* The clock cannot get past the end of the counter between two looks at   *)
(* it, the first of which still sees the deadline ahead.  If a pass lasts  *)
(* for a tick at most, this is always so.                                  *)
ClearOfTheEnd == deadline + MaxPass <= W

(* A chip that does not answer holds the program up for its time and one   *)
(* pass more, also when the deadline lies beyond the end of the counter,   *)
(* unless a pass may jump over both.                                       *)
HeldUpShortly == phase # "idle" /\ ClearOfTheEnd => spent <= Wait + MaxPass

(* A chip that answers in time is not given up, except in the last Wait of *)
(* the counter: there the deadline looks long past.  A command that was    *)
(* begun there has its time again once the counter has started over.       *)
GivenItsTime ==
    [][phase = "check" /\ result' = "givenUp"
          => spent >= Wait \/ (deadline < Wait /\ millis >= W - Wait)]_readerVars
=============================================================================
