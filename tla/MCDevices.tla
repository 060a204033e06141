------------------------------ MODULE MCDevices ------------------------------
(***************************************************************************)
(* The parts of the two boards that keep time by themselves: the servo,    *)
(* the climate sensor, the wait for the chip of the card reader and the    *)
(* energy meter.  They share no variable, so that none can disturb another *)
(* one, and each is explored by itself: device says which of them is.      *)
(***************************************************************************)
EXTENDS ServoTimer, ClimateReport, ReaderWait, EnergyMonitor

VARIABLE device   \* the one that is switched on

vars == <<device, servoVars, climateVars, readerVars, energyVars>>

TypeOK ==
    /\ device \in {"servo", "climate", "reader", "meter"}
    /\ ServoTypeOK /\ ClimateTypeOK /\ WaitTypeOK /\ EnergyTypeOK

\* One initial state is enough for those that are switched off.
Init ==
    /\ device \in {"servo", "climate", "reader", "meter"}
    /\ ServoInit /\ ClimateInit /\ WaitInit /\ EnergyInit
    /\ device # "servo" => ticks = CHOOSE w \in Widths : TRUE
    /\ device # "climate" => currenttime = 0 /\ ~works /\ ~reachable
    /\ device # "reader" => millis = 0
    /\ device # "meter" => currentMillis = 0 /\ ~session

Next ==
    /\ UNCHANGED device
    /\ \/ /\ device = "servo" /\ ServoNext
          /\ UNCHANGED <<climateVars, readerVars, energyVars>>
       \/ /\ device = "climate" /\ ClimateNext
          /\ UNCHANGED <<servoVars, readerVars, energyVars>>
       \/ /\ device = "reader" /\ WaitNext
          /\ UNCHANGED <<servoVars, climateVars, energyVars>>
       \/ /\ device = "meter" /\ EnergyNext
          /\ UNCHANGED <<servoVars, climateVars, readerVars>>

Spec == Init /\ [][Next]_vars

(* The timer of the servo counts, its interrupt is served, and the calls   *)
(* of the sketch return.                                                   *)
ServoFairness ==
    /\ WF_servoVars(device = "servo" /\ TimerTick)
    /\ WF_servoVars(device = "servo" /\ Handler)
    /\ WF_servoVars(device = "servo" /\ (Activate \/ FinISR))

(* The loop goes round, and the clock goes on whenever the bound of a step *)
(* lets it.                                                                *)
ClimateFairness ==
    /\ WF_climateVars(device = "climate" /\ Sketch)
    /\ SF_climateVars(device = "climate" /\ ClimateTick)

FairSpec == Spec /\ ServoFairness /\ ClimateFairness
=============================================================================
