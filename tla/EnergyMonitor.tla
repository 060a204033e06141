---------------------------- MODULE EnergyMonitor ----------------------------
(***************************************************************************)
(* loop() and energyMonitor() of the voice gateway board: once a second    *)
(* current and voltage are measured and four values are written to the     *)
(* widgets of the app, one after the other over a connection that may come *)
(* and go between them.  What SinricPro.handle() does in the same loop is  *)
(* in VoiceGateway, what Blynk.run() does in BlynkSession.                 *)
(***************************************************************************)
EXTENDS Millis

CONSTANTS
    Interval,   \* interval (1000 ms)
    MaxStep,    \* bound: ms between two steps of the loop
    Currents,   \* what calcIrms() may return, in A
    Voltages,   \* what getVoltageAC() may be, in V
    Least       \* voltages below this one (200 V) count as none

ASSUME EnergyAssumption ==
    /\ Interval \in Nat \ {0} /\ MaxStep \in Nat
    /\ Interval + 7 * MaxStep < W
    /\ Currents \subseteq Nat /\ Currents # {}
    /\ Voltages \subseteq Nat /\ Voltages # {}
    /\ Least \in Nat \ {0}

VARIABLES
    step,            \* "loop", "V6", "V5", "V7", "V8", "handle"
    currentMillis,   \* millis()
    previous,        \* previousMillis1
    irms, vrms,      \* Irms and Vrms
    power,           \* aPower; kWh is the thousandth part of it
    widgets,         \* the values in the app: V5, V6, V7, V8
    session,         \* the session with Blynk is up
    \* Audit.
    gone,            \* ms since the last measurement or the end of setup()
    sinceLast,       \* ms since the last step
    ran,             \* there has been a measurement
    unbroken         \* the session has been up since the present one began

energySketch == <<step, previous, irms, vrms, power, widgets, ran>>
energyVars   == <<step, currentMillis, previous, irms, vrms, power, widgets,
                  session, gone, sinceLast, ran, unbroken>>

Pins == {"V5", "V6", "V7", "V8"}

EnergyTypeOK ==
    /\ step \in {"loop", "handle"} \cup Pins
    /\ currentMillis \in Time
    /\ previous \in Time
    /\ irms \in Nat
    /\ vrms \in Nat
    /\ power \in Nat
    /\ widgets \in [Pins -> Nat]
    /\ session \in BOOLEAN
    /\ gone \in 0 .. W
    /\ sinceLast \in 0 .. MaxStep
    /\ ran \in BOOLEAN
    /\ unbroken \in BOOLEAN

\* Global variables are zero; setup() may have taken any time.
EnergyInit ==
    /\ step = "loop"
    /\ currentMillis \in Time
    /\ previous = 0
    /\ irms = 0 /\ vrms = 0 /\ power = 0
    /\ widgets = [pin \in Pins |-> 0]
    /\ session \in BOOLEAN
    /\ gone = 0
    /\ sinceLast = 0
    /\ ran = FALSE
    /\ unbroken = FALSE
-----------------------------------------------------------------------------
\* mutant: the comparison without the unsigned difference
SumIsDue(time) == time >= previous + Interval
IsDue(time)    == Elapsed(time, previous) >= Interval

\* One ampere is taken off, for the noise of the sensor; what is left is not
\* below zero.
\* mutant: it may be
BelowZero(i)  == i - 1
LessOffset(i) == IF i - 1 < 0 THEN 0 ELSE i - 1

Measure ==
    /\ step = "loop"
    /\ IsDue(currentMillis)
    /\ step' = "V6"
    /\ \E i \in Currents : irms' = LessOffset(i)
    /\ vrms' \in Voltages
    /\ unbroken' = session
    /\ sinceLast' = 0
    /\ UNCHANGED <<currentMillis, previous, power, widgets, session, gone,
                   ran>>

NotYet ==
    /\ step = "loop"
    /\ ~IsDue(currentMillis)
    /\ step' = "handle"
    /\ sinceLast' = 0
    /\ UNCHANGED <<currentMillis, previous, irms, vrms, power, widgets,
                   session, gone, ran, unbroken>>

\* Blynk.virtualWrite(): without a session nothing happens.
VirtualWrite(pin, value) ==
    widgets' = IF session THEN [widgets EXCEPT ![pin] = value] ELSE widgets

Mains(v) == IF v < Least THEN 0 ELSE v

WriteCurrent ==
    /\ step = "V6"
    /\ step' = "V5"
    /\ VirtualWrite("V6", irms)
    /\ sinceLast' = 0
    /\ UNCHANGED <<currentMillis, previous, irms, vrms, power, session, gone,
                   ran, unbroken>>

WriteVoltage ==
    /\ step = "V5"
    /\ step' = "V7"
    /\ vrms' = Mains(vrms)
    /\ VirtualWrite("V5", vrms')
    /\ sinceLast' = 0
    /\ UNCHANGED <<currentMillis, previous, irms, power, session, gone, ran,
                   unbroken>>

\* mutant: the power of the measurement before
LastPower(v, i) == power
Power(v, i)     == v * i

WritePower ==
    /\ step = "V7"
    /\ step' = "V8"
    /\ power' = Power(vrms, irms)
    /\ VirtualWrite("V7", power')
    /\ sinceLast' = 0
    /\ UNCHANGED <<currentMillis, previous, irms, vrms, session, gone, ran,
                   unbroken>>

\* mutant: the next second is counted from the last measurement on
FromTheLast(time) == After(previous, Interval)
NextFrom(time)    == time

\* kWh is written and the time taken anew.
WriteKWh ==
    /\ step = "V8"
    /\ step' = "handle"
    /\ VirtualWrite("V8", power)
    /\ previous' = NextFrom(currentMillis)
    /\ gone' = 0
    /\ sinceLast' = 0
    /\ ran' = TRUE
    /\ UNCHANGED <<currentMillis, irms, vrms, power, session, unbroken>>

Handle ==
    /\ step = "handle"
    /\ step' = "loop"
    /\ sinceLast' = 0
    /\ UNCHANGED <<currentMillis, previous, irms, vrms, power, widgets,
                   session, gone, ran, unbroken>>

EnergyTick ==
    /\ sinceLast < MaxStep
    /\ currentMillis' = Advance(currentMillis)
    /\ sinceLast' = sinceLast + 1
    /\ gone' = IF gone < W THEN gone + 1 ELSE gone
    /\ UNCHANGED <<energySketch, session, unbroken>>

\* The session is lost or comes back.
Session ==
    /\ session' = ~session
    /\ unbroken' = FALSE
    /\ UNCHANGED <<energySketch, currentMillis, gone, sinceLast>>

Loop == \/ Measure \/ NotYet \/ WriteCurrent \/ WriteVoltage \/ WritePower
        \/ WriteKWh \/ Handle

EnergyNext == Loop \/ EnergyTick \/ Session

EnergySpec == EnergyInit /\ [][EnergyNext]_energyVars
-----------------------------------------------------------------------------
(* A measurement begins at most two steps late, also when the clock starts *)
(* over; the first one may be late by a step more, if the clock starts     *)
(* over between setup() and the first look at it.                          *)
OnTime ==
    step \in {"loop", "handle"} =>
        gone < Interval + (IF ran THEN 2 * MaxStep ELSE 3 * MaxStep)

(* The rest of the loop has a whole interval between two measurements, so  *)
(* that a voice command or a heartbeat never waits for two of them.        *)
RestOfTheLoop ==
    [][ran /\ step = "loop" /\ step' = "V6" => gone >= Interval]_energyVars

(* The four widgets fit together after a measurement since whose beginning *)
(* the session has been up: the power is that of the current and the       *)
(* voltage shown, and there is none without mains.                         *)
WidgetsAgree ==
    step \in {"loop", "handle"} /\ unbroken =>
        /\ widgets["V5"] = 0 \/ widgets["V5"] >= Least
        /\ widgets["V7"] = widgets["V5"] * widgets["V6"]
        /\ widgets["V8"] = widgets["V7"]
=============================================================================
