---------------------------- MODULE ClimateReport ----------------------------
(***************************************************************************)
(* dhtOLED() of the room controller and the library of its sensor, which   *)
(* asks the sensor at most once in MIN_INTERVAL and gives out its last     *)
(* reading in between, by the clock that starts over.                      *)
(***************************************************************************)
EXTENDS Millis

CONSTANTS
    MinInterval,   \* MIN_INTERVAL (2000 ms)
    MaxPause,      \* bound: ms between two steps of the loop
    MaxSetup       \* bound: ms that setup() lasts after dht.begin()

ASSUME ClimateAssumption ==
    /\ MinInterval \in Nat \ {0} /\ MaxPause \in Nat /\ MaxSetup \in Nat
    /\ MinInterval + 2 * MaxPause < W
    /\ MinInterval + MaxSetup + MaxPause < W

VARIABLES
    stage,          \* "setup", "loop", "humidity", "publish"
    currenttime,    \* millis()
    lastreadtime,   \* _lastreadtime
    lastresult,     \* _lastresult
    t,              \* the temperature, "none", "number" or "NaN"
    h,              \* the humidity
    shown,          \* what the app and the database were last told
    works,          \* the sensor answers
    reachable,      \* what is told arrives
    \* Audit.
    age,            \* ms since the sensor was last asked, or Never
    sinceStep,      \* ms since the last step
    asked           \* changes whenever the sensor is asked

climateSketch == <<stage, lastreadtime, lastresult, t, h, shown, asked>>
climateVars   == <<stage, currenttime, lastreadtime, lastresult, t, h, shown,
                   works, reachable, age, sinceStep, asked>>

Never == W
Value == {"none", "number", "NaN"}

ClimateTypeOK ==
    /\ stage \in {"setup", "loop", "humidity", "publish"}
    /\ currenttime \in Time
    /\ lastreadtime \in Time
    /\ lastresult \in BOOLEAN
    /\ t \in Value /\ h \in Value
    /\ shown \in Value \X Value
    /\ works \in BOOLEAN
    /\ reachable \in BOOLEAN
    /\ age \in 0 .. W
    /\ sinceStep \in 0 .. MaxSetup + MaxPause
    /\ asked \in {0, 1}

\* mutants: the time of dht.begin() itself; a difference that is not unsigned
AtOnce(time)    == time
Signed(time)    == time - MinInterval
BeginTime(time) == Before(time, MinInterval)

\* dht.begin() has just been called.
ClimateInit ==
    /\ stage = "setup"
    /\ currenttime \in Time
    /\ lastreadtime = BeginTime(currenttime)
    /\ lastresult = FALSE
    /\ t = "none" /\ h = "none"
    /\ shown = <<"none", "none">>
    /\ works \in BOOLEAN
    /\ reachable \in BOOLEAN
    /\ age = Never
    /\ sinceStep = 0
    /\ asked = 0
-----------------------------------------------------------------------------
SetupEnds ==
    /\ stage = "setup"
    /\ stage' = "loop"
    /\ sinceStep' = 0
    /\ UNCHANGED <<currenttime, lastreadtime, lastresult, t, h, shown, works,
                   reachable, age, asked>>

\* mutants: the comparison without the unsigned difference; one that is off
\* by one
SumTooSoon(time) == time < lastreadtime + MinInterval
OneLess(time)  == Elapsed(time, lastreadtime) < MinInterval - 1
OneMore(time)  == Elapsed(time, lastreadtime) <= MinInterval
TooSoon(time)  == Elapsed(time, lastreadtime) < MinInterval

\* read(): a sensor that does not answer, or not rightly, is found out by
\* the length of its pulses or by the checksum.
Read ==
    IF TooSoon(currenttime)
      THEN UNCHANGED <<lastreadtime, lastresult, age, asked>>
      ELSE /\ lastreadtime' = currenttime
           /\ lastresult' = works
           /\ age' = 0
           /\ asked' = 1 - asked

Result(good) == IF good THEN "number" ELSE "NaN"

ReadTemperature ==
    /\ stage = "loop"
    /\ stage' = "humidity"
    /\ Read
    /\ t' = Result(lastresult')
    /\ sinceStep' = 0
    /\ UNCHANGED <<currenttime, h, shown, works, reachable>>

ReadHumidity ==
    /\ stage = "humidity"
    /\ stage' = "publish"
    /\ Read
    /\ h' = Result(lastresult')
    /\ sinceStep' = 0
    /\ UNCHANGED <<currenttime, t, shown, works, reachable>>

\* A value that is not a number is published like any other one.
DhtOLED ==
    /\ stage = "publish"
    /\ stage' = "loop"
    /\ shown' = IF reachable THEN <<t, h>> ELSE shown
    /\ sinceStep' = 0
    /\ UNCHANGED <<currenttime, lastreadtime, lastresult, t, h, works,
                   reachable, age, asked>>

ClimateTick ==
    /\ sinceStep < (IF stage = "setup" THEN MaxSetup ELSE MaxPause)
    /\ currenttime' = Advance(currenttime)
    /\ sinceStep' = sinceStep + 1
    /\ age' = IF age < W THEN age + 1 ELSE age
    /\ UNCHANGED <<climateSketch, works, reachable>>

Environment ==
    /\ works' \in BOOLEAN /\ reachable' \in BOOLEAN
    /\ UNCHANGED <<climateSketch, currenttime, age, sinceStep>>

Sketch == SetupEnds \/ ReadTemperature \/ ReadHumidity \/ DhtOLED

ClimateNext == Sketch \/ ClimateTick \/ Environment

ClimateSpec == ClimateInit /\ [][ClimateNext]_climateVars
-----------------------------------------------------------------------------
(* The sensor is left alone for MIN_INTERVAL after it was asked, also when *)
(* the clock starts over in the meantime.                                  *)
SensorRests == [][asked' # asked => age >= MinInterval]_climateVars

(* What a call returns was read less than MIN_INTERVAL ago; the first call *)
(* reads the sensor, at once after dht.begin() or much later.              *)
Fresh ==
    [][stage' # stage /\ stage \in {"loop", "humidity"}
          => age' < MinInterval]_climateVars

(* "Not a number" disappears from the app when the sensor works again and  *)
(* the connection holds.                                                   *)
Recovers == <>[](works /\ reachable) => <>[](shown = <<"number", "number">>)
=============================================================================
