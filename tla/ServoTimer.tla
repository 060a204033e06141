------------------------------ MODULE ServoTimer ------------------------------
(***************************************************************************)
(* The Servo library of the room controller: the interrupt of timer TC4    *)
(* makes the pulses of the one servo of the sketch while the program       *)
(* attaches, writes and detaches it between any two ticks.                 *)
(*                                                                         *)
(* Time is counted in ticks of the timer.  The interrupt handler takes no  *)
(* time, but it may be served up to Latency ticks after the match.         *)
(***************************************************************************)
EXTENDS Integers

CONSTANTS
    M,         \* the counter has the values 0 .. M - 1 (2^16)
    Refresh,   \* usToTicks(REFRESH_INTERVAL) (60000)
    First,     \* usToTicks(1000): the first interrupt after initISR()
    Margin,    \* the few ticks the handler allows itself (4)
    Widths,    \* the pulse widths written, in ticks (1617 .. 7185)
    Latency    \* how late the interrupt may be served

ASSUME TimerAssumption ==
    /\ M \in Nat /\ Refresh \in Nat /\ First \in Nat /\ Margin \in Nat
    /\ Latency \in Nat
    /\ Widths \subseteq 1 .. Refresh - Margin - Latency - 1
    /\ Widths # {}
    /\ 0 < First /\ First < M
    /\ Refresh + Latency < M

VARIABLES
    call,       \* where attach() or detach() is, "sketch" between the calls
    isActive,   \* servos[0].Pin.isActive
    ticks,      \* servos[0].ticks
    index,      \* currentServoIndex
    pin,        \* the pin of the servo: "LOW" or "HIGH"
    \* The timer TC4.
    count,      \* COUNT
    cc,         \* CC[0], the count at which it matches
    match,      \* INTFLAG: there was a match, not yet served
    irq,        \* INTENSET: the match interrupt is enabled
    \* Audit.
    late,       \* ticks since the match
    width,      \* ticks since the pin rose, while it is HIGH
    meant,      \* the width the program had written when the pin rose
    since,      \* ticks since the pin rose, as far as they matter
    whole       \* the servo has been attached ever since the pin rose

timer == <<count, cc, match, irq, late>>
audit == <<width, meant, since, whole>>
servoVars  == <<call, isActive, ticks, index, pin, count, cc, match, irq, late,
                width, meant, since, whole>>

\* mutant: the sum is kept in a wider variable
AllBits(n) == n

\* The low 16 bits of a sum.
Low(n) == IF n < M THEN n ELSE n - M

None    == -1   \* no servo is being pulsed, the refresh period runs
TooLong == M + Refresh   \* bound: longer times are not told apart

ServoTypeOK ==
    /\ call \in {"sketch", "attaching", "detaching"}
    /\ isActive \in BOOLEAN
    /\ ticks \in Widths
    /\ index \in {0, None}
    /\ pin \in {"LOW", "HIGH"}
    /\ count \in 0 .. M - 1
    /\ cc \in 0 .. M - 1
    /\ match \in BOOLEAN
    /\ irq \in BOOLEAN
    /\ late \in 0 .. Latency
    /\ width \in 0 .. TooLong
    /\ meant \in Widths
    /\ since \in 0 .. TooLong
    /\ whole \in BOOLEAN

\* Static variables are zero, so that the first interrupt takes the servo 0
\* for the one whose pulse is to end.
ServoInit ==
    /\ call = "sketch"
    /\ isActive = FALSE
    /\ ticks \in Widths
    /\ index = 0
    /\ pin = "LOW"
    /\ count = 0
    /\ cc = 0
    /\ match = FALSE
    /\ irq = FALSE
    /\ late = 0
    /\ width = 0
    /\ meant = ticks
    /\ since = 0
    /\ whole = FALSE
-----------------------------------------------------------------------------
(* The program.                                                            *)

\* initISR(): the timer is reset and started, the first match is far off.
InitISR ==
    /\ count' = 0
    /\ cc' = First
    /\ match' = FALSE
    /\ irq' = TRUE
    /\ late' = 0

\* attach() starts the timer unless a servo is active on it ...
Attach ==
    /\ call = "sketch"
    /\ call' = "attaching"
    /\ IF isActive THEN UNCHANGED <<timer, whole>>
                   ELSE InitISR /\ whole' = FALSE
    /\ UNCHANGED <<isActive, ticks, index, pin, width, meant, since>>

\* ... and then lets the interrupt handler pulse the pin.
Activate ==
    /\ call = "attaching"
    /\ call' = "sketch"
    /\ isActive' = TRUE
    /\ UNCHANGED <<ticks, index, pin, timer, audit>>

Write(w) ==
    /\ call = "sketch"
    /\ ticks' = w
    /\ UNCHANGED <<call, isActive, index, pin, timer, audit>>

\* detach() first forbids the pulses ...
Detach ==
    /\ call = "sketch"
    /\ call' = "detaching"
    /\ isActive' = FALSE
    /\ whole' = FALSE
    /\ UNCHANGED <<ticks, index, pin, timer, width, meant, since>>

\* ... and then stops the interrupt.
FinISR ==
    /\ call = "detaching"
    /\ call' = "sketch"
    /\ irq' = FALSE
    /\ UNCHANGED <<isActive, ticks, index, pin, count, cc, match, late, audit>>

Program ==
    \/ Attach \/ Activate \/ Detach \/ FinISR
    \/ \E w \in Widths : Write(w)
-----------------------------------------------------------------------------
(* Servo_Handler(): with one servo every second interrupt ends a pulse and *)
(* every other one ends the refresh period.                                *)

\* mutant: the compare register has lost its upper bits
NarrowEnd(c, w) == (c + w) % (M \div 8)
PulseEnd(c, w)  == Low(c + w)

\* mutant: the interval is counted from the end of the pulse
RefreshAfter(c) == Low(c + Refresh)
NextRefresh(c)  == IF c + Margin < Refresh THEN Refresh ELSE Low(c + Margin)

\* mutant: the pin is left alone
KeepHigh(old) == old
EndLow(old)   == IF isActive THEN "LOW" ELSE old

\* The counter starts again with the pulse.  It is no new pulse if the pin
\* is still HIGH.
EndOfRefresh ==
    /\ index = None
    /\ index' = 0
    /\ count' = 0
    /\ cc' = PulseEnd(0, ticks)
    /\ pin' = IF isActive THEN "HIGH" ELSE pin
    /\ IF isActive /\ pin = "LOW"
         THEN width' = 0 /\ since' = 0 /\ meant' = ticks /\ whole' = TRUE
         ELSE UNCHANGED audit

EndOfPulse ==
    /\ index = 0
    /\ index' = None
    /\ cc' = NextRefresh(count)
    /\ pin' = EndLow(pin)
    /\ UNCHANGED <<count, audit>>

Handler ==
    /\ irq
    /\ match
    /\ EndOfRefresh \/ EndOfPulse
    /\ match' = FALSE
    /\ late' = 0
    /\ UNCHANGED <<call, isActive, ticks, irq>>
-----------------------------------------------------------------------------
Up(n) == IF n < TooLong THEN n + 1 ELSE n

TimerTick ==
    /\ ~(irq /\ match /\ late = Latency)
    /\ count' = Low(count + 1)
    /\ match' = (match \/ count' = cc)
    /\ late' = IF irq /\ match THEN late + 1 ELSE late
    /\ width' = IF pin = "HIGH" THEN Up(width) ELSE 0
    /\ since' = Up(since)
    /\ UNCHANGED <<call, isActive, ticks, index, pin, cc, irq, meant, whole>>

ServoNext == Program \/ Handler \/ TimerTick

ServoSpec == ServoInit /\ [][ServoNext]_servoVars
-----------------------------------------------------------------------------
(* A pulse that no attach() or detach() falls into is as wide as the       *)
(* program wanted when it began, whatever it writes in the meantime.       *)
Falls == pin = "HIGH" /\ pin' = "LOW"

PulseRight ==
    [][Falls /\ whole => width \in meant .. meant + Latency]_servoVars

(* While the servo stays attached its pulses come once in a refresh        *)
(* period.                                                                 *)
Rises == pin = "LOW" /\ pin' = "HIGH"

RefreshKept ==
    [][Rises /\ whole => since \in Refresh .. Refresh + Latency]_servoVars

(* A servo that stays attached is pulsed for ever, and its pin is not left *)
(* HIGH, whatever an earlier detach() left behind.                         *)
KeepsPulsing ==
    <>[](isActive /\ call = "sketch") =>
        []<>(pin = "HIGH") /\ []<>(pin = "LOW")
=============================================================================
