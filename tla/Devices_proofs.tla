---------------------------- MODULE Devices_proofs ----------------------------
(***************************************************************************)
(* Proofs about the parts of the boards that keep time by themselves: the  *)
(* servo, the climate sensor, the energy meter and the wait for the chip   *)
(* of the card reader, each for any interval, length of a step and width   *)
(* of the clock that its assumption allows, and about all of them together.*)
(***************************************************************************)
EXTENDS MCDevices, TLAPS
-----------------------------------------------------------------------------
(* The interrupt of the Servo library.                                     *)

LEMMA LowType ==
    ASSUME NEW n \in 0 .. 2 * M - 1
    PROVE  /\ Low(n) \in 0 .. M - 1
           /\ n < M => Low(n) = n
    BY TimerAssumption DEF Low

\* While the servo stays attached the counter counts from the rise of the
\* pin: up to the end of the pulse, then on to the end of the period.
InPulse ==
    whole /\ pin = "HIGH" =>
        /\ index = 0 /\ count = width /\ cc = meant
        /\ IF match THEN width = meant + late ELSE width < meant

InPeriod ==
    whole =>
        /\ isActive /\ irq /\ count = since
        /\ pin = "LOW" =>
              /\ index = None /\ cc = Refresh
              /\ IF match THEN since = Refresh + late ELSE since < Refresh

PulseInv ==
    /\ ServoTypeOK
    /\ call = "detaching" => ~isActive
    /\ match \/ late = 0
    /\ InPulse
    /\ InPeriod

LEMMA PulseInit == ServoInit => PulseInv
<1> SUFFICES ASSUME ServoInit PROVE PulseInv
    OBVIOUS
<1>1. /\ call = "sketch" /\ pin = "LOW" /\ index = 0 /\ late = 0
      /\ count = 0 /\ cc = 0 /\ width = 0 /\ since = 0
      /\ ticks \in Widths /\ meant \in Widths
    BY DEF ServoInit
<1>2. /\ isActive \in BOOLEAN /\ match \in BOOLEAN /\ irq \in BOOLEAN
      /\ whole \in BOOLEAN /\ ~whole
    BY Zenon DEF ServoInit
<1> QED
    BY <1>1, <1>2, TimerAssumption
    DEF PulseInv, ServoTypeOK, InPulse, InPeriod, TooLong, None

LEMMA PulseStep == PulseInv /\ [ServoNext]_servoVars => PulseInv'
<1> SUFFICES ASSUME PulseInv, [ServoNext]_servoVars PROVE PulseInv'
    OBVIOUS
<1>w. \A w \in Widths : w \in Nat /\ w < M /\ w + Latency + Margin < Refresh
    BY TimerAssumption
<1> USE TimerAssumption
        DEF PulseInv, ServoTypeOK, InPulse, InPeriod, TooLong, None, timer, audit
<1>1. CASE Attach
  <2>1. CASE isActive
    BY <1>1, <2>1 DEF Attach
  <2>2. CASE ~isActive
    <3>1. /\ isActive' \in BOOLEAN /\ match' \in BOOLEAN /\ irq' \in BOOLEAN
          /\ whole' \in BOOLEAN /\ ~whole'
      BY <1>1, <2>2, Zenon DEF Attach, InitISR
    <3>2. /\ call' = "attaching" /\ count' = 0 /\ cc' = First /\ late' = 0
          /\ UNCHANGED <<ticks, index, pin, width, meant, since>>
      BY <1>1, <2>2 DEF Attach, InitISR
    <3> QED
      BY <3>1, <3>2
  <2> QED
    BY <2>1, <2>2
<1>2. CASE Activate
    BY <1>2 DEF Activate
<1>3. ASSUME NEW w \in Widths, Write(w) PROVE PulseInv'
    BY <1>3 DEF Write
<1>4. CASE Detach
    BY <1>4 DEF Detach
<1>5. CASE FinISR
    BY <1>5 DEF FinISR
<1>6. CASE Handler /\ EndOfRefresh
  <2>1. /\ isActive' = isActive /\ isActive' \in BOOLEAN
        /\ irq' = irq /\ irq' \in BOOLEAN /\ irq
        /\ match' \in BOOLEAN /\ ~match'
    BY <1>6, Zenon DEF Handler
  <2>2. /\ index = None /\ index' = 0 /\ count' = 0 /\ late' = 0
        /\ ticks' = ticks /\ call' = call /\ cc' = ticks
    BY <1>6, <1>w DEF Handler, EndOfRefresh, PulseEnd, Low
  <2>3. CASE isActive /\ pin = "LOW"
    <3>1. /\ whole' \in BOOLEAN /\ pin' = "HIGH"
          /\ width' = 0 /\ since' = 0 /\ meant' = ticks
      BY <1>6, <2>3 DEF EndOfRefresh
    <3> QED
      BY <2>1, <2>2, <2>3, <3>1, <1>w
  <2>4. CASE ~(isActive /\ pin = "LOW")
    <3>1. UNCHANGED audit /\ pin' = pin
      BY <1>6, <2>4 DEF EndOfRefresh
    <3>2. ~whole
      BY <2>2, <2>4
    <3> QED
      BY <2>1, <2>2, <3>1, <3>2, <1>w
  <2> QED
    BY <2>3, <2>4
<1>7. CASE Handler /\ EndOfPulse
  <2>1. /\ isActive' = isActive /\ isActive' \in BOOLEAN
        /\ irq' = irq /\ irq' \in BOOLEAN /\ irq
        /\ match' \in BOOLEAN /\ ~match'
    BY <1>7, Zenon DEF Handler
  <2>2. /\ index = 0 /\ index' = None /\ late' = 0 /\ match
        /\ UNCHANGED <<call, ticks, count, audit>>
        /\ pin' = IF isActive THEN "LOW" ELSE pin
    BY <1>7 DEF Handler, EndOfPulse, EndLow
  <2>3. cc' \in 0 .. M - 1 /\ (count + Margin < Refresh => cc' = Refresh)
    BY <1>7 DEF EndOfPulse, NextRefresh, Low
  <2>4. whole => pin = "HIGH"
    BY <2>2
  <2>5. whole => count + Margin < Refresh
    BY <2>2, <2>4, <1>w
  <2> QED
    BY <2>1, <2>2, <2>3, <2>4, <2>5, <1>w
<1>8. CASE TimerTick
    BY <1>8, <1>w DEF TimerTick, Up, Low
<1>9. CASE UNCHANGED servoVars
    BY <1>9 DEF servoVars
<1> HIDE DEF PulseInv
<1> QED
    BY <1>1, <1>2, <1>3, <1>4, <1>5, <1>6, <1>7, <1>8, <1>9
    DEF ServoNext, Program, Handler

LEMMA PulseAlways == ServoSpec => []PulseInv
    BY PulseInit, PulseStep, PTL DEF ServoSpec

(* Every variable keeps its type, the counter and its compare register     *)
(* stay within their 16 bits.                                              *)
THEOREM TimerTypeCorrect == ServoSpec => []ServoTypeOK
<1>1. PulseInv => ServoTypeOK
    BY DEF PulseInv
<1> QED
    BY <1>1, PulseAlways, PTL

(* A pulse that nothing cuts is as wide as the program wanted when it      *)
(* began.                                                                  *)
THEOREM PulsesAreRight == ServoSpec => PulseRight
<1>1. PulseInv /\ [ServoNext]_servoVars =>
          [Falls /\ whole => width \in meant .. meant + Latency]_servoVars
  <2> SUFFICES ASSUME PulseInv, [ServoNext]_servoVars, Falls, whole
               PROVE  width \in meant .. meant + Latency
    OBVIOUS
  <2>1. match
    BY DEF ServoNext, Program, Attach, Activate, Write, Detach, FinISR, Handler,
           TimerTick, servoVars, Falls
  <2> QED
    BY <2>1, TimerAssumption DEF PulseInv, ServoTypeOK, InPulse, Falls
<1> QED
    BY <1>1, PulseAlways, PTL DEF ServoSpec, PulseRight

(* An attached servo is pulsed once in a refresh period.                   *)
THEOREM RefreshIsKept == ServoSpec => RefreshKept
<1>1. PulseInv /\ [ServoNext]_servoVars =>
          [Rises /\ whole => since \in Refresh .. Refresh + Latency]_servoVars
  <2> SUFFICES ASSUME PulseInv, [ServoNext]_servoVars, Rises, whole
               PROVE  since \in Refresh .. Refresh + Latency
    OBVIOUS
  <2>1. match
    BY DEF ServoNext, Program, Attach, Activate, Write, Detach, FinISR, Handler,
           TimerTick, servoVars, Rises
  <2> QED
    BY <2>1, TimerAssumption DEF PulseInv, ServoTypeOK, InPeriod, Rises
<1> QED
    BY <1>1, PulseAlways, PTL DEF ServoSpec, RefreshKept

-----------------------------------------------------------------------------
(* The climate sensor.                                                     *)

LEMMA BeginIsLongAgo ==
    ASSUME NEW a \in Time
    PROVE  /\ BeginTime(a) \in Time
           /\ Elapsed(a, BeginTime(a)) = MinInterval
    BY ClockAssumption, ClimateAssumption
    DEF Time, BeginTime, Before, Elapsed

LEMMA TickOfTheClock ==
    ASSUME NEW a \in Time, NEW b \in Time, Elapsed(a, b) + 1 < W
    PROVE  /\ Advance(a) \in Time
           /\ Elapsed(Advance(a), b) = Elapsed(a, b) + 1
    BY ClockAssumption DEF Time, Advance, Elapsed

LEMMA NoTime ==
    ASSUME NEW a \in Time
    PROVE  Elapsed(a, a) = 0
    BY ClockAssumption DEF Time, Elapsed

\* How long ago read() thinks the sensor was asked: rightly when it was.
SinceRead == Elapsed(currenttime, lastreadtime)

Known ==
    /\ age = Never =>
          \/ /\ stage = "setup" /\ sinceStep <= MaxSetup
             /\ SinceRead = MinInterval + sinceStep
          \/ /\ stage = "loop"
             /\ MinInterval <= SinceRead
             /\ SinceRead <= MinInterval + MaxSetup + sinceStep
    /\ age # Never =>
          /\ stage # "setup"
          /\ age = SinceRead
          /\ stage = "humidity" => age < MinInterval + sinceStep
          /\ stage = "publish" => age < MinInterval + sinceStep
          /\ stage = "loop" => age < MinInterval + MaxPause + sinceStep
    /\ stage # "setup" => sinceStep <= MaxPause

ClimateInv == ClimateTypeOK /\ Known

LEMMA SinceReadType == ClimateTypeOK => SinceRead \in 0 .. W - 1
    BY ClockAssumption DEF ClimateTypeOK, SinceRead, Elapsed, Time

LEMMA ClimateInitially == ClimateInit => ClimateInv
<1> SUFFICES ASSUME ClimateInit PROVE ClimateInv
    OBVIOUS
<1>1. lastreadtime \in Time /\ SinceRead = MinInterval /\ currenttime \in Time
    BY BeginIsLongAgo DEF ClimateInit, SinceRead
<1>2. lastresult \in BOOLEAN /\ works \in BOOLEAN /\ reachable \in BOOLEAN
    BY Zenon DEF ClimateInit
<1>3. /\ stage = "setup" /\ age = Never /\ sinceStep = 0 /\ asked = 0
      /\ t \in Value /\ h \in Value /\ shown \in Value \X Value
    BY DEF ClimateInit, Value
<1> QED
    BY <1>1, <1>2, <1>3, ClockAssumption, ClimateAssumption
    DEF ClimateInv, ClimateTypeOK, Known, Never

\* Both outcomes of read(), with all that the properties ask of it.
LEMMA ReadStep ==
    ASSUME ClimateInv, stage \in {"loop", "humidity"}, Read,
            currenttime' = currenttime
    PROVE  /\ lastreadtime' \in Time
           /\ lastresult' \in BOOLEAN
           /\ age' \in Nat /\ age' < MinInterval
           /\ age' = SinceRead'
           /\ asked' \in {0, 1}
           /\ asked' # asked => age >= MinInterval
<1> USE ClockAssumption, ClimateAssumption
<1>1. SinceRead \in 0 .. W - 1
    BY SinceReadType DEF ClimateInv
<1>2. CASE TooSoon(currenttime)
  <2>1. UNCHANGED <<lastreadtime, lastresult, age, asked>>
    BY <1>2 DEF Read
  <2>2. SinceRead < MinInterval
    BY <1>2 DEF TooSoon, SinceRead
  <2>3. age = SinceRead
    BY <1>1, <2>2 DEF ClimateInv, Known
  <2>4. SinceRead' = SinceRead
    BY <2>1 DEF SinceRead
  <2> QED
    BY <1>1, <2>1, <2>2, <2>3, <2>4 DEF ClimateInv, ClimateTypeOK
<1>3. CASE ~TooSoon(currenttime)
  <2>1. lastreadtime' = currenttime /\ age' = 0 /\ asked' = 1 - asked
    BY <1>3 DEF Read
  <2>2. lastresult' \in BOOLEAN
    BY <1>3, Zenon DEF Read, ClimateInv, ClimateTypeOK
  <2>3. SinceRead' = 0
    BY <2>1, NoTime DEF SinceRead, ClimateInv, ClimateTypeOK
  <2>4. SinceRead >= MinInterval
    BY <1>1, <1>3 DEF TooSoon, SinceRead
  <2>5. age >= MinInterval
    BY <1>1, <2>4 DEF ClimateInv, Known, Never
  <2> QED
    BY <2>1, <2>2, <2>3, <2>5 DEF ClimateInv, ClimateTypeOK
<1> QED
    BY <1>2, <1>3

LEMMA ClimateStep == ClimateInv /\ [ClimateNext]_climateVars => ClimateInv'
<1> SUFFICES ASSUME ClimateInv, [ClimateNext]_climateVars PROVE ClimateInv'
    OBVIOUS
<1> USE ClockAssumption, ClimateAssumption
<1>s. SinceRead \in 0 .. W - 1
    BY SinceReadType DEF ClimateInv
<1>v. \A good \in BOOLEAN : Result(good) \in Value
    BY DEF Result, Value
<1>1. CASE SetupEnds
  <2>1. SinceRead' = SinceRead
    BY <1>1 DEF SetupEnds, SinceRead
  <2> QED
    BY <1>1, <1>s, <2>1 DEF SetupEnds, ClimateInv, ClimateTypeOK, Known
<1>2. CASE ReadTemperature
  <2>1. /\ Read /\ stage = "loop" /\ stage' = "humidity" /\ sinceStep' = 0
        /\ t' = Result(lastresult')
        /\ UNCHANGED <<currenttime, h, shown, works, reachable>>
    BY <1>2 DEF ReadTemperature
  <2>2. /\ lastreadtime' \in Time /\ lastresult' \in BOOLEAN
        /\ age' \in Nat /\ age' < MinInterval /\ age' = SinceRead'
        /\ asked' \in {0, 1}
    BY <2>1, ReadStep
  <2> QED
    BY <2>1, <2>2, <1>v DEF ClimateInv, ClimateTypeOK, Known, Never
<1>3. CASE ReadHumidity
  <2>1. /\ Read /\ stage = "humidity" /\ stage' = "publish" /\ sinceStep' = 0
        /\ h' = Result(lastresult')
        /\ UNCHANGED <<currenttime, t, shown, works, reachable>>
    BY <1>3 DEF ReadHumidity
  <2>2. /\ lastreadtime' \in Time /\ lastresult' \in BOOLEAN
        /\ age' \in Nat /\ age' < MinInterval /\ age' = SinceRead'
        /\ asked' \in {0, 1}
    BY <2>1, ReadStep
  <2> QED
    BY <2>1, <2>2, <1>v DEF ClimateInv, ClimateTypeOK, Known, Never
<1>4. CASE DhtOLED
  <2>1. SinceRead' = SinceRead
    BY <1>4 DEF DhtOLED, SinceRead
  <2>2. shown' \in Value \X Value
    BY <1>4 DEF DhtOLED, ClimateInv, ClimateTypeOK
  <2> QED
    BY <1>4, <1>s, <2>1, <2>2 DEF DhtOLED, ClimateInv, ClimateTypeOK, Known, Never
<1>5. CASE ClimateTick
  <2>1. /\ UNCHANGED <<stage, lastreadtime, lastresult, t, h, shown, asked, works,
                       reachable>>
        /\ currenttime' = Advance(currenttime) /\ sinceStep' = sinceStep + 1
        /\ age' = IF age < W THEN age + 1 ELSE age
        /\ sinceStep < IF stage = "setup" THEN MaxSetup ELSE MaxPause
    BY <1>5 DEF ClimateTick, climateSketch
  <2>2. SinceRead + 1 < W
    BY <1>s, <2>1 DEF ClimateInv, ClimateTypeOK, Known, Never
  <2>3. currenttime' \in Time /\ SinceRead' = SinceRead + 1
    BY <2>1, <2>2, TickOfTheClock DEF SinceRead, ClimateInv, ClimateTypeOK
  <2>4. ClimateTypeOK'
    BY <2>1, <2>3 DEF ClimateInv, ClimateTypeOK
  <2>5. Known'
    BY <1>s, <2>1, <2>2, <2>3 DEF ClimateInv, ClimateTypeOK, Known, Never
  <2> QED
    BY <2>4, <2>5 DEF ClimateInv
<1>6. CASE Environment
  <2>1. SinceRead' = SinceRead
    BY <1>6 DEF Environment, climateSketch, SinceRead
  <2> QED
    BY <1>6, <1>s, <2>1
        DEF Environment, climateSketch, ClimateInv, ClimateTypeOK, Known
<1>7. CASE UNCHANGED climateVars
  <2>1. SinceRead' = SinceRead
    BY <1>7 DEF climateVars, SinceRead
  <2> QED
    BY <1>7, <1>s, <2>1 DEF climateVars, ClimateInv, ClimateTypeOK, Known
<1> QED
    BY <1>1, <1>2, <1>3, <1>4, <1>5, <1>6, <1>7 DEF ClimateNext, Sketch

LEMMA ClimateAlways == ClimateSpec => []ClimateInv
    BY ClimateInitially, ClimateStep, PTL DEF ClimateSpec

(* Every variable keeps its type, the clock and _lastreadtime that of an   *)
(* unsigned counter.                                                       *)
THEOREM ClimateTypeCorrect == ClimateSpec => []ClimateTypeOK
<1>1. ClimateInv => ClimateTypeOK
    BY DEF ClimateInv
<1> QED
    BY <1>1, ClimateAlways, PTL

(* The sensor gets its rest.                                               *)
THEOREM SensorGetsItsRest == ClimateSpec => SensorRests
<1>1. ClimateInv /\ [ClimateNext]_climateVars =>
           [asked' # asked => age >= MinInterval]_climateVars
  <2> SUFFICES ASSUME ClimateInv, [ClimateNext]_climateVars, asked' # asked
               PROVE  age >= MinInterval
    OBVIOUS
  <2>1. ReadTemperature \/ ReadHumidity
    BY DEF ClimateNext, Sketch, SetupEnds, DhtOLED, ClimateTick, Environment,
           climateSketch, climateVars
  <2>2. stage \in {"loop", "humidity"} /\ Read /\ currenttime' = currenttime
    BY <2>1 DEF ReadTemperature, ReadHumidity
  <2> QED
    BY <2>2, ReadStep
<1> QED
    BY <1>1, ClimateAlways, PTL DEF ClimateSpec, SensorRests

(* No reading is given out that is older than the interval.                *)
THEOREM ReadingsAreFresh == ClimateSpec => Fresh
<1>1. ClimateInv /\ [ClimateNext]_climateVars =>
          [stage' # stage /\ stage \in {"loop", "humidity"}
              => age' < MinInterval]_climateVars
  <2> SUFFICES ASSUME ClimateInv, [ClimateNext]_climateVars, stage' # stage,
                      stage \in {"loop", "humidity"}
               PROVE  age' < MinInterval
    OBVIOUS
  <2>1. ReadTemperature \/ ReadHumidity
    BY DEF ClimateNext, Sketch, SetupEnds, DhtOLED, ClimateTick, Environment,
           climateSketch, climateVars
  <2>2. Read /\ currenttime' = currenttime
    BY <2>1 DEF ReadTemperature, ReadHumidity
  <2> QED
    BY <2>2, ReadStep
<1> QED
    BY <1>1, ClimateAlways, PTL DEF ClimateSpec, Fresh
-----------------------------------------------------------------------------
(* The energy meter.                                                       *)

LEMMA MomentAfter ==
    ASSUME NEW a \in Time, NEW b \in Time, Elapsed(a, b) + 1 < W
    PROVE  Elapsed(Advance(a), b) = Elapsed(a, b) + 1
    BY ClockAssumption DEF Time, Advance, Elapsed

LEMMA MomentIsTime ==
    ASSUME NEW a \in Time
    PROVE  Advance(a) \in Time /\ Elapsed(a, a) = 0 /\ Elapsed(a, 0) = a
    BY ClockAssumption DEF Time, Advance, Elapsed

LEMMA Products == \A v, i \in Nat : v * i \in Nat
    OBVIOUS

LEMMA Offset == \A i \in Nat : LessOffset(i) \in Nat
    BY DEF LessOffset
-----------------------------------------------------------------------------
LEMMA EnergyTypeStep == EnergyTypeOK /\ [EnergyNext]_energyVars => EnergyTypeOK'
<1> SUFFICES ASSUME EnergyTypeOK, [EnergyNext]_energyVars PROVE EnergyTypeOK'
    OBVIOUS
<1> USE ClockAssumption, EnergyAssumption DEF EnergyTypeOK, Pins
<1>1. CASE Measure
  <2>1. irms' \in Nat
    <3>1. PICK i \in Currents : irms' = LessOffset(i)
      BY <1>1 DEF Measure
    <3>2. i \in Nat
      BY <3>1
    <3> QED  BY <3>1, <3>2, Offset
  <2>2. vrms' \in Nat
    BY <1>1 DEF Measure
  <2>3. unbroken' \in BOOLEAN /\ session' \in BOOLEAN /\ ran' \in BOOLEAN
    BY <1>1, Zenon DEF Measure
  <2> QED  BY <1>1, <2>1, <2>2, <2>3 DEF Measure
<1>2. CASE NotYet
  BY <1>2 DEF NotYet
<1>3. CASE WriteCurrent
  BY <1>3 DEF WriteCurrent, VirtualWrite
<1>4. CASE WriteVoltage
  BY <1>4 DEF WriteVoltage, VirtualWrite, Mains
<1>5. CASE WritePower
  <2>1. power' \in Nat
    BY <1>5, Products DEF WritePower, Power
  <2> QED  BY <1>5, <2>1 DEF WritePower, VirtualWrite
<1>6. CASE WriteKWh
  BY <1>6 DEF WriteKWh, VirtualWrite, NextFrom
<1>7. CASE Handle
  BY <1>7 DEF Handle
<1>8. CASE EnergyTick
  BY <1>8, MomentIsTime DEF EnergyTick, energySketch
<1>9. CASE Session
  <2>1. session' \in BOOLEAN /\ unbroken' \in BOOLEAN
    BY <1>9, Zenon DEF Session
  <2> QED  BY <1>9, <2>1 DEF Session, energySketch
<1>10. CASE UNCHANGED energyVars
  BY <1>10 DEF energyVars
<1> QED
  BY <1>1, <1>2, <1>3, <1>4, <1>5, <1>6, <1>7, <1>8, <1>9, <1>10
     DEF EnergyNext, Loop

LEMMA EnergyTypeInit == EnergyInit => EnergyTypeOK
<1> SUFFICES ASSUME EnergyInit PROVE EnergyTypeOK
    OBVIOUS
<1>1. session \in BOOLEAN
  BY Zenon DEF EnergyInit
<1>2. /\ step = "loop" /\ previous = 0 /\ irms = 0 /\ vrms = 0 /\ power = 0
      /\ gone = 0 /\ sinceLast = 0 /\ currentMillis \in Time
  BY DEF EnergyInit
<1>3. ran \in BOOLEAN /\ unbroken \in BOOLEAN
  BY DEF EnergyInit
<1>4. widgets \in [Pins -> Nat]
  BY DEF EnergyInit
<1>5. 0 \in Time /\ 0 \in 0 .. W /\ 0 \in 0 .. MaxStep
  BY ClockAssumption, EnergyAssumption DEF Time
<1> QED  BY <1>1, <1>2, <1>3, <1>4, <1>5 DEF EnergyTypeOK

(* The state of the board is well-formed: current, voltage and power are   *)
(* never negative, whatever calcIrms() returned.                           *)
THEOREM EnergyTypeCorrect == EnergySpec => []EnergyTypeOK
<1> QED  BY EnergyTypeInit, EnergyTypeStep, PTL DEF EnergySpec
-----------------------------------------------------------------------------
\* How long ago the sketch thinks the last measurement was.
SinceMeasured == Elapsed(currentMillis, previous)

\* How long the steps before the present one may have been.
Steps ==
    CASE step = "V6" -> 2 * MaxStep
      [] step = "V5" -> 3 * MaxStep
      [] step = "V7" -> 4 * MaxStep
      [] OTHER     -> 5 * MaxStep

\* After a measurement the sketch knows how long ago it was ...
Timed ==
    ran =>
        /\ gone = SinceMeasured
        /\ step = "handle" => gone < Interval + sinceLast
        /\ step = "loop" => gone < Interval + MaxStep + sinceLast
        /\ step \in Pins => gone < Interval + Steps + sinceLast

\* ... before the first one it takes the zero of the clock for it.
Untimed ==
    ~ran =>
        /\ previous = 0
        /\ step = "handle" => /\ currentMillis < Interval + sinceLast
                              /\ gone <= currentMillis + MaxStep
        /\ step = "loop" =>
              \/ gone <= sinceLast
              \/ /\ currentMillis < Interval + MaxStep + sinceLast
                 /\ gone <= currentMillis + MaxStep

EnergyInv == EnergyTypeOK /\ Timed /\ Untimed

LEMMA EnergyInitially == EnergyInit => EnergyInv
<1> SUFFICES ASSUME EnergyInit PROVE EnergyInv
    OBVIOUS
<1>1. Timed /\ Untimed
  BY DEF EnergyInit, Timed, Untimed
<1> QED  BY <1>1, EnergyTypeInit DEF EnergyInv

LEMMA TimedStep ==
    ASSUME EnergyInv, [EnergyNext]_energyVars, EnergyTypeOK'
    PROVE  Timed'
<1> USE ClockAssumption, EnergyAssumption DEF EnergyInv, EnergyTypeOK, Pins, Timed
<1> SUFFICES ASSUME ran' PROVE Timed'
    OBVIOUS
<1>1. CASE Measure
  <2>1. ran /\ SinceMeasured' = SinceMeasured /\ gone' = gone /\ sinceLast' = 0 /\ step' = "V6"
    BY <1>1 DEF Measure, SinceMeasured
  <2> QED  BY <1>1, <2>1 DEF Measure, Steps
<1>2. CASE NotYet
  <2>1. /\ ran /\ SinceMeasured' = SinceMeasured /\ gone' = gone /\ sinceLast' = 0
        /\ step' = "handle" /\ SinceMeasured < Interval
    <3>1. ~(SinceMeasured >= Interval) /\ SinceMeasured \in Int
      BY <1>2 DEF NotYet, IsDue, SinceMeasured, Elapsed, Time
    <3> QED  BY <1>2, <3>1 DEF NotYet, SinceMeasured
  <2> QED  BY <2>1
<1>3. CASE WriteCurrent
  <2>1. ran /\ SinceMeasured' = SinceMeasured /\ gone' = gone /\ sinceLast' = 0 /\ step' = "V5"
    BY <1>3 DEF WriteCurrent, SinceMeasured
  <2> QED  BY <1>3, <2>1 DEF WriteCurrent, Steps
<1>4. CASE WriteVoltage
  <2>1. ran /\ SinceMeasured' = SinceMeasured /\ gone' = gone /\ sinceLast' = 0 /\ step' = "V7"
    BY <1>4 DEF WriteVoltage, SinceMeasured
  <2> QED  BY <1>4, <2>1 DEF WriteVoltage, Steps
<1>5. CASE WritePower
  <2>1. ran /\ SinceMeasured' = SinceMeasured /\ gone' = gone /\ sinceLast' = 0 /\ step' = "V8"
    BY <1>5 DEF WritePower, SinceMeasured
  <2> QED  BY <1>5, <2>1 DEF WritePower, Steps
<1>6. CASE WriteKWh
  <2>1. SinceMeasured' = 0 /\ gone' = 0 /\ sinceLast' = 0 /\ step' = "handle"
    BY <1>6, MomentIsTime DEF WriteKWh, NextFrom, SinceMeasured
  <2> QED  BY <2>1
<1>7. CASE Handle
  <2>1. ran /\ SinceMeasured' = SinceMeasured /\ gone' = gone /\ sinceLast' = 0 /\ step' = "loop"
    BY <1>7 DEF Handle, SinceMeasured
  <2> QED  BY <1>7, <2>1 DEF Handle
<1>8. CASE EnergyTick
  <2>1. /\ ran /\ step' = step /\ sinceLast' = sinceLast + 1 /\ previous' = previous
        /\ currentMillis' = Advance(currentMillis) /\ sinceLast < MaxStep
        /\ gone' = IF gone < W THEN gone + 1 ELSE gone
    BY <1>8 DEF EnergyTick, energySketch
  <2>2. gone = SinceMeasured /\ gone < Interval + 5 * MaxStep + sinceLast + 1
    BY <2>1 DEF Steps
  <2>3. SinceMeasured' = SinceMeasured + 1
    BY <2>1, <2>2, MomentAfter DEF SinceMeasured
  <2> QED  BY <2>1, <2>2, <2>3 DEF Steps
<1>9. CASE Session
  <2>1. ran /\ UNCHANGED <<step, currentMillis, previous, gone, sinceLast>>
    BY <1>9 DEF Session, energySketch
  <2> QED  BY <2>1 DEF SinceMeasured, Steps
<1>10. CASE UNCHANGED energyVars
  BY <1>10 DEF energyVars, SinceMeasured, Steps
<1> QED
  BY <1>1, <1>2, <1>3, <1>4, <1>5, <1>6, <1>7, <1>8, <1>9, <1>10
     DEF EnergyNext, Loop

LEMMA UntimedStep ==
    ASSUME EnergyInv, [EnergyNext]_energyVars, EnergyTypeOK'
    PROVE  Untimed'
<1> USE ClockAssumption, EnergyAssumption
    DEF EnergyInv, EnergyTypeOK, Pins, Untimed, Time
<1> SUFFICES ASSUME ~ran' PROVE Untimed'
    OBVIOUS
<1>1. CASE Measure \/ WriteCurrent \/ WriteVoltage \/ WritePower
  <2>1. ~ran /\ previous' = previous /\ step' \notin {"handle", "loop"}
    BY <1>1 DEF Measure, WriteCurrent, WriteVoltage, WritePower
  <2> QED  BY <2>1
<1>2. CASE NotYet
  <2>1. /\ ~ran /\ UNCHANGED <<currentMillis, previous, gone>> /\ sinceLast' = 0
        /\ step = "loop" /\ step' = "handle" /\ currentMillis < Interval
    BY <1>2, MomentIsTime DEF NotYet, IsDue
  <2> QED  BY <2>1
<1>3. CASE WriteKWh
  BY <1>3 DEF WriteKWh
<1>4. CASE Handle
  <2>1. /\ ~ran /\ UNCHANGED <<currentMillis, previous, gone>> /\ sinceLast' = 0
        /\ step = "handle" /\ step' = "loop"
    BY <1>4 DEF Handle
  <2> QED  BY <2>1
<1>5. CASE EnergyTick
  <2>1. /\ ~ran /\ UNCHANGED <<step, previous>> /\ sinceLast' = sinceLast + 1
        /\ sinceLast < MaxStep /\ currentMillis' = Advance(currentMillis)
        /\ gone' = IF gone < W THEN gone + 1 ELSE gone
    BY <1>5 DEF EnergyTick, energySketch
  <2>2. currentMillis + 1 < W => currentMillis' = currentMillis + 1
    BY <2>1 DEF Advance
  <2> QED  BY <2>1, <2>2
<1>6. CASE Session
  <2>1. ~ran /\ UNCHANGED <<step, currentMillis, previous, gone, sinceLast>>
    BY <1>6 DEF Session, energySketch
  <2> QED  BY <2>1
<1>7. CASE UNCHANGED energyVars
  BY <1>7 DEF energyVars
<1> QED
  BY <1>1, <1>2, <1>3, <1>4, <1>5, <1>6, <1>7 DEF EnergyNext, Loop

LEMMA EnergyStep == EnergyInv /\ [EnergyNext]_energyVars => EnergyInv'
BY EnergyTypeStep, TimedStep, UntimedStep DEF EnergyInv

(* A measurement is due in time, however long setup() took and also when   *)
(* the clock starts over.                                                  *)
THEOREM MeasuredOnTime == EnergySpec => []OnTime
<1>1. EnergyInv => OnTime
  BY EnergyAssumption DEF EnergyInv, EnergyTypeOK, Timed, Untimed, OnTime, Time, Pins
<1> QED  BY <1>1, EnergyInitially, EnergyStep, PTL DEF EnergySpec

(* Two measurements are a whole interval apart, which belongs to the rest  *)
(* of the loop.                                                            *)
THEOREM LoopHasItsTime == EnergySpec => RestOfTheLoop
<1>1. EnergyInv /\ [EnergyNext]_energyVars =>
         [ran /\ step = "loop" /\ step' = "V6" => gone >= Interval]_energyVars
  <2> SUFFICES ASSUME EnergyInv, [EnergyNext]_energyVars, ran,
                      step = "loop", step' = "V6"
               PROVE  gone >= Interval
    BY Zenon
  <2>1. Measure
    BY DEF EnergyNext, Loop, NotYet, WriteCurrent, WriteVoltage, WritePower, WriteKWh,
           Handle, EnergyTick, Session, energySketch, energyVars
  <2>2. SinceMeasured >= Interval /\ gone = SinceMeasured
    BY <2>1 DEF EnergyInv, Timed, Measure, IsDue, SinceMeasured
  <2> QED  BY <2>2
<1> QED  BY <1>1, EnergyInitially, EnergyStep, PTL DEF EnergySpec, RestOfTheLoop
-----------------------------------------------------------------------------
\* What the widgets hold of a measurement that no loss of the session has
\* fallen into, at every point of it.
Agreeing ==
    unbroken =>
        /\ session
        /\ step \in {"V5", "V7", "V8", "handle", "loop"} => widgets["V6"] = irms
        /\ step \in {"V7", "V8", "handle", "loop"} =>
              /\ widgets["V5"] = vrms
              /\ vrms = 0 \/ vrms >= Least
        /\ step \in {"V8", "handle", "loop"} =>
              widgets["V7"] = power /\ power = vrms * irms
        /\ step \in {"handle", "loop"} => widgets["V8"] = power

LEMMA AgreeingStep == EnergyTypeOK /\ Agreeing /\ [EnergyNext]_energyVars => Agreeing'
<1> SUFFICES ASSUME EnergyTypeOK, Agreeing, [EnergyNext]_energyVars, unbroken'
             PROVE  Agreeing'
    BY Zenon DEF Agreeing
<1> USE DEF Agreeing
<1> DEFINE w == widgets
<1>1. CASE Measure
  <2>1. session' /\ step' = "V6"
    BY <1>1, Zenon DEF Measure
  <2> QED  BY <2>1
<1>2. CASE NotYet \/ Handle
  <2>1. /\ unbroken /\ (session' <=> session) /\ step \in {"handle", "loop"}
        /\ step' \in {"handle", "loop"}
        /\ UNCHANGED <<irms, vrms, power, widgets>>
    BY <1>2 DEF NotYet, Handle
  <2> QED  BY <2>1
<1>3. CASE WriteCurrent
  <2>1. /\ unbroken /\ session /\ (session' <=> session) /\ step' = "V5" /\ irms' = irms
    BY <1>3 DEF WriteCurrent
  <2>2. w'["V6"] = irms
    BY <1>3, <2>1 DEF WriteCurrent, VirtualWrite, EnergyTypeOK, Pins
  <2> QED  BY <2>1, <2>2
<1>4. CASE WriteVoltage
  <2>1. /\ unbroken /\ session /\ (session' <=> session) /\ step = "V5" /\ step' = "V7"
        /\ irms' = irms /\ vrms' = Mains(vrms)
    BY <1>4 DEF WriteVoltage
  <2>2. w'["V5"] = vrms' /\ w'["V6"] = w["V6"]
    BY <1>4, <2>1 DEF WriteVoltage, VirtualWrite, EnergyTypeOK, Pins
  <2>3. vrms' = 0 \/ vrms' >= Least
    BY <2>1, EnergyAssumption DEF Mains, EnergyTypeOK
  <2> QED  BY <2>1, <2>2, <2>3
<1>5. CASE WritePower
  <2>1. /\ unbroken /\ session /\ (session' <=> session) /\ step = "V7" /\ step' = "V8"
        /\ UNCHANGED <<irms, vrms>> /\ power' = vrms * irms
    BY <1>5 DEF WritePower, Power
  <2>2. w'["V7"] = power' /\ w'["V5"] = w["V5"] /\ w'["V6"] = w["V6"]
    BY <1>5, <2>1 DEF WritePower, VirtualWrite, EnergyTypeOK, Pins
  <2> QED  BY <2>1, <2>2
<1>6. CASE WriteKWh
  <2>1. /\ unbroken /\ session /\ (session' <=> session) /\ step = "V8" /\ step' = "handle"
        /\ UNCHANGED <<irms, vrms, power>>
    BY <1>6 DEF WriteKWh
  <2>2. /\ w'["V8"] = power
        /\ w'["V5"] = w["V5"] /\ w'["V6"] = w["V6"] /\ w'["V7"] = w["V7"]
    BY <1>6, <2>1 DEF WriteKWh, VirtualWrite, EnergyTypeOK, Pins
  <2> QED  BY <2>1, <2>2
<1>7. CASE EnergyTick
  <2>1. /\ unbroken /\ (session' <=> session)
        /\ UNCHANGED <<step, irms, vrms, power, widgets>>
    BY <1>7 DEF EnergyTick, energySketch
  <2> QED  BY <2>1
<1>8. CASE Session
  BY <1>8 DEF Session
<1>9. CASE UNCHANGED energyVars
  <2>1. /\ unbroken /\ (session' <=> session)
        /\ UNCHANGED <<step, irms, vrms, power, widgets>>
    BY <1>9 DEF energyVars
  <2> QED  BY <2>1
<1> QED
  BY <1>1, <1>2, <1>3, <1>4, <1>5, <1>6, <1>7, <1>8, <1>9 DEF EnergyNext, Loop

(* The widgets show one measurement, whenever the session with the app was *)
(* lost and found before it.                                               *)
THEOREM WidgetsShowOneMeasurement == EnergySpec => []WidgetsAgree
<1> DEFINE Inv == EnergyTypeOK /\ Agreeing
<1>1. EnergyInit => Inv
  BY EnergyTypeInit DEF EnergyInit, Agreeing
<1>2. Inv /\ [EnergyNext]_energyVars => Inv'
  BY EnergyTypeStep, AgreeingStep
<1>3. Inv => WidgetsAgree
  <2> SUFFICES ASSUME Inv, step \in {"loop", "handle"}, unbroken
               PROVE  /\ widgets["V5"] = 0 \/ widgets["V5"] >= Least
                      /\ widgets["V7"] = widgets["V5"] * widgets["V6"]
                      /\ widgets["V8"] = widgets["V7"]
    BY Zenon DEF WidgetsAgree
  <2>1. /\ widgets["V5"] = vrms /\ widgets["V6"] = irms
        /\ widgets["V7"] = power /\ widgets["V8"] = power
        /\ power = vrms * irms /\ (vrms = 0 \/ vrms >= Least)
    BY DEF Agreeing
  <2> QED  BY <2>1
<1> HIDE DEF Inv
<1> QED  BY <1>1, <1>2, <1>3, PTL DEF EnergySpec
-----------------------------------------------------------------------------
(* The wait for the chip.  Counted from the moment at which the command    *)
(* was begun, which may lie before the clock started over, the clock and   *)
(* the time waited agree: while the chip still has time, and to the end of *)
(* a wait whose deadline no pass can jump over.                            *)
Began == deadline - Wait

Agrees ==
    millis = IF Began + spent < 0 THEN Began + spent + W ELSE Began + spent

HeldInv == phase # "idle" /\ ClearOfTheEnd => spent - pass < Wait /\ Agrees

TimeInv == phase # "idle" /\ spent < Wait => Agrees

WaitInv ==
    /\ WaitTypeOK
    /\ phase # "idle" => result = "none"
    /\ HeldInv
    /\ TimeInv

LEMMA WaitInitially == WaitInit => WaitInv
    BY ClockAssumption, WaitAssumption
       DEF WaitInit, WaitInv, WaitTypeOK, HeldInv, TimeInv, Time

LEMMA WaitStep == WaitInv /\ [WaitNext]_readerVars => WaitInv'
<1> SUFFICES ASSUME WaitInv, [WaitNext]_readerVars PROVE WaitInv'
    OBVIOUS
<1> USE ClockAssumption, WaitAssumption
    DEF WaitInv, WaitTypeOK, Time, Began, Agrees, ClearOfTheEnd
<1>1. CASE Start
  <2>1. /\ WaitTypeOK'
        /\ (phase # "idle" => result = "none")'
    BY <1>1 DEF Start, Deadline, After
  <2>2. HeldInv' /\ TimeInv'
    BY <1>1 DEF Start, Deadline, After, HeldInv, TimeInv
  <2> QED
    BY <2>1, <2>2
<1>2. CASE Poll
    BY <1>2 DEF Poll, Return, HeldInv, TimeInv
<1>3. CASE Check
  <2>1. /\ WaitTypeOK'
        /\ (phase # "idle" => result = "none")'
        /\ TimeInv'
    BY <1>3 DEF Check, Return, GoesOn, TimeInv
  <2>2. HeldInv'
    BY <1>3 DEF Check, Return, GoesOn, HeldInv
  <2> QED
    BY <2>1, <2>2
<1>4. CASE Chip
    BY <1>4 DEF Chip, HeldInv, TimeInv
<1>5. CASE WaitTick
  <2>1. /\ WaitTypeOK'
        /\ (phase # "idle" => result = "none")'
    BY <1>5 DEF WaitTick, Advance
  <2>2. HeldInv'
    BY <1>5 DEF WaitTick, Advance, HeldInv
  <2>3. TimeInv'
    BY <1>5 DEF WaitTick, Advance, TimeInv
  <2> QED
    BY <2>1, <2>2, <2>3
<1>6. CASE UNCHANGED readerVars
    BY <1>6 DEF readerVars, HeldInv, TimeInv
<1> QED
    BY <1>1, <1>2, <1>3, <1>4, <1>5, <1>6 DEF WaitNext

LEMMA WaitAlways == WaitSpec => []WaitInv
    BY WaitInitially, WaitStep, PTL DEF WaitSpec

(* The type invariant of the wait; the deadline in particular keeps to the *)
(* width of the clock.                                                     *)
THEOREM WaitTypeCorrect == WaitSpec => []WaitTypeOK
<1>1. WaitInv => WaitTypeOK
    BY DEF WaitInv
<1> QED
    BY <1>1, WaitAlways, PTL

(* PCD_CommunicateWithPICC() returns within its time limit and one pass of *)
(* the loop, unless a pass may jump over the deadline and the end of the   *)
(* counter at once.                                                        *)
THEOREM SketchIsHeldUpShortly == WaitSpec => []HeldUpShortly
<1>1. WaitInv => HeldUpShortly
    BY WaitAssumption DEF WaitInv, WaitTypeOK, HeldInv, HeldUpShortly
<1> QED
    BY <1>1, WaitAlways, PTL

(* A chip is given up only after its 36 ms, unless the command was begun   *)
(* in the last 36 ms of the counter and this has not started over yet.     *)
THEOREM ChipIsGivenItsTime == WaitSpec => GivenItsTime
<1> DEFINE Cut == deadline < Wait /\ millis >= W - Wait
           Timely == phase = "check" /\ result' = "givenUp" => spent >= Wait \/ Cut
<1>1. WaitInv /\ [WaitNext]_readerVars => Timely
  <2> SUFFICES ASSUME WaitInv, [WaitNext]_readerVars, phase = "check",
                      result' = "givenUp", spent < Wait
               PROVE  Cut
    BY WaitAssumption DEF WaitInv, WaitTypeOK
  <2>1. result = "none"
    BY DEF WaitInv
  <2>2. Check
    BY <2>1 DEF WaitNext, readerVars, Start, Poll, Chip, WaitTick
  <2>3. ~(millis < deadline)
    BY <2>1, <2>2 DEF Check, GoesOn
  <2> QED
    BY <2>3, ClockAssumption, WaitAssumption
       DEF WaitInv, WaitTypeOK, TimeInv, Agrees, Began, Time
<1>2. WaitSpec => [][Timely]_readerVars
    BY <1>1, WaitAlways, PTL DEF WaitSpec
<1> QED
    BY <1>2, PTL DEF GivenItsTime
-----------------------------------------------------------------------------
(* Each of the four runs as its own specification says in the instance     *)
(* that puts them into one: this carries what is proved of each to it.     *)
LEMMA EachKeepsItsSpec ==
    Spec => ServoSpec /\ ClimateSpec /\ WaitSpec /\ EnergySpec
<1>1. Init => ServoInit /\ ClimateInit /\ WaitInit /\ EnergyInit
    BY DEF Init
<1>2. [Next]_vars => /\ [ServoNext]_servoVars
                     /\ [ClimateNext]_climateVars
                     /\ [WaitNext]_readerVars
                     /\ [EnergyNext]_energyVars
    BY DEF Next, vars
<1> QED
    BY <1>1, <1>2, PTL DEF Spec, ServoSpec, ClimateSpec, WaitSpec, EnergySpec

(* The types of all four in that instance.                                 *)
THEOREM DevicesTypeCorrect == Spec => []TypeOK
<1> DEFINE On == device \in {"servo", "climate", "reader", "meter"}
<1>1. Init => On
    BY DEF Init
<1>2. On /\ [Next]_vars => On'
    BY DEF Next, vars
<1>3. On /\ ServoTypeOK /\ ClimateTypeOK /\ WaitTypeOK /\ EnergyTypeOK => TypeOK
    BY DEF TypeOK
<1> HIDE DEF On
<1>4. Spec => []On
    BY <1>1, <1>2, PTL DEF Spec
<1> QED
    BY <1>3, <1>4, EachKeepsItsSpec, TimerTypeCorrect, ClimateTypeCorrect,
       WaitTypeCorrect, EnergyTypeCorrect, PTL
=============================================================================
