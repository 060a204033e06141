--------------------------- MODULE RoomController ---------------------------
(***************************************************************************)
(* The MKR1000 sketch of the meeting room, IoT_FYP2_MKR1000.ino: its boot  *)
(* sequence and its endless loop.  One sequential program (pc) shares the  *)
(* real-time database with the phone, the voice gateway and the web        *)
(* console, so every call to Firebase is a step of its own, at which the   *)
(* others may have moved in between.                                       *)
(*                                                                         *)
(* Appliances are numbered in the order in which the sketch reads and      *)
(* drives them: the lamps on a pin first, the infrared appliance last      *)
(* (LAMP1 = 1, LAMP2 = 2, IR APP = 3 in the sketch).                       *)
(*                                                                         *)
(* lcdDate() touches no state of this module; of dhtOLED() it matters that *)
(* Blynk.virtualWrite() runs Blynk as well (the readings themselves are in *)
(* ClimateReport).                                                         *)
(***************************************************************************)
EXTENDS Naturals, Sequences, FiniteSets

CONSTANTS
    NLamps,       \* how many lamps hang on a pin (2 in the sketch)
    RtcTimes,     \* the times, as [h, m] in UTC, the clock may show
    BookedTimes,  \* the times stored under /CHECKOUT and /CHECKIN
    Key,          \* the card whose UID is "D2 57 D5 1A"
    Strangers,    \* other cards
    MaxTries,     \* maxTries of setupNTP (6 in the sketch)
    MaxCommands,  \* bound: commands the users give in one behaviour
    MaxFaults,    \* bound: resets and link failures in one behaviour
    MaxInbox,     \* bound: Blynk commands that wait in the receive buffer
    MaxLate,      \* bound: failed puts that the server may yet carry out
    Absent        \* what a read of an empty database path returns

Lamp      == 1 .. NLamps
IRApp     == NLamps + 1
Appliance == 1 .. NLamps + 1
Switch    == Appliance \X BOOLEAN
Shown     == Appliance \X {"ON", "OFF"}
Message   == {"Permitted", "Denied"}
GMT       == 8
OpenAngle == 50
StuckOpen == OpenAngle   \* mutant: the closing write repeats the opening one
ShutAngle == 90
DefaultAngle == 90       \* DEFAULT_PULSE_WIDTH, within three degrees
Field     == {"h", "m"}

ASSUME ControllerAssumption ==
    /\ NLamps \in Nat
    /\ MaxTries \in Nat \ {0}
    /\ MaxCommands \in Nat
    /\ MaxFaults \in Nat
    /\ MaxInbox \in Nat
    /\ MaxLate \in Nat
    /\ RtcTimes \subseteq [Field -> Nat]
    /\ BookedTimes \subseteq [Field -> Nat \cup {Absent}]
    /\ Key \notin Strangers
    /\ Absent \notin BOOLEAN \cup Nat \cup Strangers \cup {Key}
    /\ Absent \notin {"ON", "OFF", "Permitted", "Denied"}

VARIABLES
    \* The real-time database, shared with the rest of the system.
    control,     \* /CONTROL/<appliance>: what the users asked for
    status,      \* /MEETING ROOM 1/<appliance>: what the room reports
    doorStatus,  \* /IoT Working Space/DOOR
    booked,      \* /CHECKOUT and /CHECKIN, each [h, m]
    \* The memory of the microcontroller, lost at a reset.
    pc,          \* where the sketch is
    k,           \* the appliance getDatabaseControl or controlvLAMP is at
    want,        \* dbLamp1, dbLamp2, dbIRApp
    checkOut,    \* checkOutHours and checkOutMins
    tries,       \* numberOfTries of setupNTP
    gotEpoch,    \* epoch is not zero: the last try brought the time
    inbox,       \* Blynk writes received and not yet handled
    servo,       \* [attached, angle]: the Servo object and its pulse
    \* The room.
    actual,      \* the lamps, and the appliance the infrared codes switch
    door,        \* what the servo arm holds: "open" or "shut"
    online,      \* Wi-Fi, Blynk and the database all answer
    late,        \* puts that failed and may yet be carried out
    \* Audit.
    issued,      \* every command a user ever gave, <<appliance, value>>
    visitor,     \* the card rfidDOOR() is dealing with, or Absent
    clean,       \* no report of the last controlvLAMP pass was lost or undone
    commands,    \* how many commands were given
    faults       \* how many resets and link failures happened

rtdb   == <<control, status, doorStatus, booked>>
ntp    == <<tries, gotEpoch>>
memory == <<pc, k, want, checkOut, ntp, inbox, servo>>
room   == <<actual, door>>
link   == <<online, late>>
audit  == <<issued, visitor, clean, commands, faults>>
vars   == <<control, status, doorStatus, booked, pc, k, want, checkOut, tries,
            gotEpoch, inbox, servo, actual, door, online, late, issued,
            visitor, clean, commands, faults>>
\* Everything but pc.
rest   == <<rtdb, k, want, checkOut, ntp, inbox, servo, room, link, audit>>

\* The servo arm has not been driven since the last reset.
BeforeServo == {"setupWIFI", "setupDISPLAY", "displayHung", "setupMISC"}
\* setup() is not finished, Blynk has not been started.
BeforeBlynk == BeforeServo \cup {"blynkBegin"}
Reading     == {"checkOutH", "checkOutM", "checkInH", "checkInM"}
Driving     == {"drive", "report", "sendIR"}
Location    ==
    BeforeBlynk \cup Reading \cup Driving \cup
        {"setupNTP", "ntpHung", "rfidDOOR", "permitted", "unlock", "doorOpen",
         "denied", "dhtOLED", "blynkRun", "readControl", "controlAPP"}

Angles == {OpenAngle, ShutAngle, DefaultAngle}

TypeOK ==
    /\ control \in [Appliance -> BOOLEAN \cup {Absent}]
    /\ status \in [Appliance -> {"ON", "OFF", Absent}]
    /\ doorStatus \in Message \cup {Absent}
    /\ booked \in [{"CHECKOUT", "CHECKIN"} -> BookedTimes]
    /\ pc \in Location
    /\ k \in Appliance
    /\ want \in [Appliance -> BOOLEAN]
    /\ checkOut \in [Field -> Nat]
    /\ tries \in 0 .. MaxTries
    /\ gotEpoch \in BOOLEAN
    /\ inbox \in Seq(Switch)
    /\ servo \in [attached : BOOLEAN, angle : Angles]
    /\ actual \in [Appliance -> BOOLEAN]
    /\ door \in {"open", "shut"}
    /\ online \in BOOLEAN
    /\ late \in [control : SUBSET Switch, status : SUBSET Shown, door : SUBSET Message]
    /\ issued \subseteq Switch
    /\ visitor \in Strangers \cup {Key, Absent}
    /\ clean \in BOOLEAN
    /\ commands \in 0 .. MaxCommands
    /\ faults \in 0 .. MaxFaults
-----------------------------------------------------------------------------
\* The memory of a microcontroller that has just started: globals are zero,
\* a Servo object holds the default pulse, which is the angle 90.
PowerOn ==
    /\ pc = "setupWIFI"
    /\ k = 1
    /\ want = [a \in Appliance |-> FALSE]
    /\ checkOut = [f \in Field |-> 0]
    /\ tries = 0
    /\ gotEpoch = FALSE
    /\ inbox = <<>>
    /\ servo = [attached |-> FALSE, angle |-> DefaultAngle]

\* The system may be installed over any database that users have filled.
Init ==
    /\ control \in [Appliance -> BOOLEAN \cup {Absent}]
    /\ status = [a \in Appliance |-> Absent]
    /\ doorStatus = Absent
    /\ booked \in [{"CHECKOUT", "CHECKIN"} -> BookedTimes]
    /\ PowerOn
    /\ actual = [a \in Appliance |-> FALSE]
    /\ door = "shut"
    /\ online = TRUE
    /\ late = [control |-> {}, status |-> {}, door |-> {}]
    /\ issued = {s \in Switch : control[s[1]] = s[2]}
    /\ visitor = Absent
    /\ clean = FALSE
    /\ commands = 0
    /\ faults = 0
-----------------------------------------------------------------------------
(* Firebase calls.  While the link is bad a put may be stored or lost, or  *)
(* it is carried out after the call has failed; the sketch ignores what it *)
(* returns.  A get returns true only when the answer came.                 *)

Overdue == Cardinality(late.control) + Cardinality(late.status)
               + Cardinality(late.door)

Outcome ==
    IF online THEN {"stored"}
              ELSE {"stored", "lost"} \cup
                       (IF Overdue < MaxLate THEN {"late"} ELSE {})

\* What a put p does to the queue of the tree it is for.
Delayed(o, tree, p) ==
    IF o = "late" THEN [late EXCEPT ![tree] = @ \cup {p}] ELSE late

Answered == IF online THEN {TRUE} ELSE BOOLEAN

Goto(l) == pc' = l

\* The arm follows the pulse while the servo is attached.
ArmAt(angle) == IF angle = OpenAngle THEN "open" ELSE "shut"

ServoAttach ==
    /\ servo' = [servo EXCEPT !.attached = TRUE]
    /\ door' = ArmAt(servo.angle)

ServoWrite(angle) ==
    /\ servo' = [servo EXCEPT !.angle = angle]
    /\ door' = IF servo.attached THEN ArmAt(angle) ELSE door

ServoKept   == UNCHANGED servo   \* mutant: the detach is forgotten
ServoDetach == servo' = [servo EXCEPT !.attached = FALSE]
-----------------------------------------------------------------------------
(* setup()                                                                 *)

SetupWIFI ==
    /\ pc = "setupWIFI"
    /\ online
    /\ Goto("setupDISPLAY")
    /\ UNCHANGED rest

\* display.begin() returns false when the OLED buffer cannot be allocated.
SetupDISPLAY ==
    /\ pc = "setupDISPLAY"
    /\ \E allocated \in BOOLEAN :
          Goto(IF allocated THEN "setupMISC" ELSE "displayHung")
    /\ UNCHANGED rest

\* myservo.attach(DOOR); myservo.write(90).
SetupMISC ==
    /\ pc = "setupMISC"
    /\ servo' = [attached |-> TRUE, angle |-> ShutAngle]
    /\ door' = ArmAt(ShutAngle)
    /\ Goto("blynkBegin")
    /\ UNCHANGED <<rtdb, k, want, checkOut, ntp, inbox, actual, link,
                   audit>>

\* Blynk.begin() returns when the session is up; Firebase.begin() is local.
BlynkBegin ==
    /\ pc = "blynkBegin"
    /\ online
    /\ Goto("setupNTP")
    /\ UNCHANGED rest

\* The condition of the do-while loop.
TryOnceMore(got, n) == ~got /\ n <= MaxTries   \* mutant: one try too many
TryAgain(got, n)    == ~got /\ n < MaxTries

\* One turn of the loop, and the test after it.
SetupNTP ==
    /\ pc = "setupNTP"
    /\ tries' = tries + 1
    /\ gotEpoch' \in BOOLEAN
    /\ IF TryAgain(gotEpoch', tries')
         THEN UNCHANGED pc
         ELSE Goto(IF tries' = MaxTries THEN "ntpHung" ELSE "rfidDOOR")
    /\ UNCHANGED <<rtdb, k, want, checkOut, inbox, servo, room, link, audit>>
-----------------------------------------------------------------------------
(* rfidDOOR()                                                              *)

\* No new card, or its serial cannot be read.
NoCard ==
    /\ pc = "rfidDOOR"
    /\ Goto("dhtOLED")
    /\ UNCHANGED rest

\* The UID is compared with the one permitted; rfidPermitted() attaches the
\* servo before anything else.
OpensToAll(card) == card # Absent   \* mutant: the UID is not compared
Opens(card)      == card = Key

RfidDOOR(card) ==
    /\ pc = "rfidDOOR"
    /\ IF Opens(card)
         THEN /\ ServoAttach
              /\ Goto("permitted")
         ELSE /\ Goto("denied")
              /\ UNCHANGED <<servo, door>>
    /\ visitor' = card
    /\ UNCHANGED <<rtdb, k, want, checkOut, ntp, inbox, actual, link,
                   issued, clean, commands, faults>>

PostDoor(here, message, next) ==
    /\ pc = here
    /\ \E o \in Outcome :
          /\ doorStatus' = IF o = "stored" THEN message ELSE doorStatus
          /\ late' = Delayed(o, "door", message)
    /\ Goto(next)
    /\ UNCHANGED <<control, status, booked, k, want, checkOut, ntp, inbox,
                   servo, room, online, issued, clean, commands, faults>>

RfidPermitted ==
    /\ PostDoor("permitted", "Permitted", "unlock")
    /\ UNCHANGED visitor

RfidDenied ==
    /\ PostDoor("denied", "Denied", "dhtOLED")
    /\ visitor' = Absent

Unlock ==
    /\ pc = "unlock"
    /\ ServoWrite(OpenAngle)
    /\ Goto("doorOpen")
    /\ UNCHANGED <<rtdb, k, want, checkOut, ntp, inbox, actual, link,
                   audit>>

\* After delay(300) and delay(2000); the servo stays attached.
Lock ==
    /\ pc = "doorOpen"
    /\ ServoWrite(ShutAngle)
    /\ Goto("dhtOLED")
    /\ visitor' = Absent
    /\ UNCHANGED <<rtdb, k, want, checkOut, ntp, inbox, actual, link,
                   issued, clean, commands, faults>>
-----------------------------------------------------------------------------
(* dhtOLED(): Blynk.virtualWrite() runs Blynk, and with it the BLYNK_WRITE *)
(* handlers (BlynkWrite below), before it sends; it does nothing while     *)
(* there is no session.                                                    *)
DhtOLED ==
    /\ pc = "dhtOLED"
    /\ inbox = <<>> \/ ~online
    /\ Goto("checkOutH")
    /\ UNCHANGED rest
-----------------------------------------------------------------------------
(* getCheckIO(): four reads, each stored in the variable of its field; a   *)
(* value that is not an integer leaves the variable alone.                 *)

ReadTime(here, path, field, next) ==
    /\ pc = here
    /\ \E answered \in Answered :
          checkOut' = IF answered /\ booked[path][field] \in Nat
                        THEN [checkOut EXCEPT ![field] = booked[path][field]]
                        ELSE checkOut
    /\ Goto(next)
    /\ UNCHANGED <<rtdb, k, want, ntp, inbox, servo, room, link, audit>>

GetCheckIO ==
    \/ ReadTime("checkOutH", "CHECKOUT", "h", "checkOutM")
    \/ ReadTime("checkOutM", "CHECKOUT", "m", "checkInH")
    \/ ReadTime("checkInH", "CHECKIN", "h", "checkInM")
    \/ ReadTime("checkInM", "CHECKIN", "m", "blynkRun")
-----------------------------------------------------------------------------
(* Blynk.run(): while there is input, call the BLYNK_WRITE handler of the  *)
(* pin; V0, V1 and V2 are the appliances in order.                         *)

\* mutant: every handler writes the path of the next appliance
PathOfNext(pin) == IF pin = IRApp THEN 1 ELSE pin + 1
PathOf(pin)     == pin

BlynkWrite ==
    /\ pc \in {"dhtOLED", "blynkRun"}
    /\ inbox # <<>>
    /\ LET pin   == Head(inbox)[1]
           value == Head(inbox)[2]
       IN  \E o \in Outcome :
              /\ control' = IF o = "stored"
                              THEN [control EXCEPT ![PathOf(pin)] = value]
                              ELSE control
              /\ late' = Delayed(o, "control", <<PathOf(pin), value>>)
    /\ inbox' = Tail(inbox)
    /\ UNCHANGED <<status, doorStatus, booked, pc, k, want, checkOut, ntp,
                   servo, room, online, audit>>

BlynkIdle ==
    /\ pc = "blynkRun"
    /\ inbox = <<>>
    /\ Goto("readControl")
    /\ k' = 1
    /\ UNCHANGED <<rtdb, want, checkOut, ntp, inbox, servo, room, link,
                   audit>>
-----------------------------------------------------------------------------
\* The path that the read number i asks for.
ReadPathOff(i) == IF i = 1 THEN 1 ELSE i - 1   \* mutant: off by one
ReadPath(i)    == i

\* One of the reads of getDatabaseControl(): a value that is not a boolean
\* leaves the variable alone.
GetDatabaseControl ==
    /\ pc = "readControl"
    /\ \E answered \in Answered :
          want' = IF answered /\ control[ReadPath(k)] \in BOOLEAN
                    THEN [want EXCEPT ![k] = control[ReadPath(k)]]
                    ELSE want
    /\ IF k = IRApp
         THEN Goto("controlAPP") /\ UNCHANGED k
         ELSE k' = k + 1 /\ UNCHANGED pc
    /\ UNCHANGED <<rtdb, checkOut, ntp, inbox, servo, room, link, audit>>

\* controlAPP() tests the clock of the board, moved to the time zone.
\* mutant: the hours are compared for equality
GateAtHour(t) == t.h + GMT = checkOut.h /\ t.m # checkOut.m
GateOpen(t)   == t.h + GMT # checkOut.h /\ t.m # checkOut.m

\* controlvLAMP() detaches the servo before anything else.
ControlAPP ==
    /\ pc = "controlAPP"
    /\ \E t \in RtcTimes : GateOpen(t)
    /\ ServoDetach
    /\ k' = 1
    /\ Goto(IF NLamps = 0 THEN "report" ELSE "drive")
    /\ clean' = TRUE
    /\ UNCHANGED <<rtdb, want, checkOut, ntp, inbox, room, link, issued,
                   visitor, commands, faults>>

ControlSkipped ==
    /\ pc = "controlAPP"
    /\ \E t \in RtcTimes : ~GateOpen(t)
    /\ Goto("rfidDOOR")
    /\ UNCHANGED rest

(* controlvLAMP(): a lamp is switched and then reported ...                *)
DriveLamp ==
    /\ pc = "drive"
    /\ actual' = [actual EXCEPT ![k] = want[k]]
    /\ Goto("report")
    /\ UNCHANGED <<rtdb, k, want, checkOut, ntp, inbox, servo, door, link,
                   audit>>

ShowOpposite(on) == IF on THEN "OFF" ELSE "ON"   \* mutant: branches swapped
Show(on)         == IF on THEN "ON" ELSE "OFF"

Report ==
    /\ pc = "report"
    /\ \E o \in Outcome :
          /\ status' = IF o = "stored"
                         THEN [status EXCEPT ![k] = Show(want[k])]
                         ELSE status
          /\ late' = Delayed(o, "status", <<k, Show(want[k])>>)
          /\ clean' = (clean /\ o = "stored")
    /\ IF k = IRApp
         THEN Goto("sendIR") /\ UNCHANGED k
         ELSE /\ k' = k + 1
              /\ Goto(IF k + 1 = IRApp THEN "report" ELSE "drive")
    /\ UNCHANGED <<control, doorStatus, booked, want, checkOut, ntp, inbox,
                   servo, room, online, issued, visitor, commands, faults>>

(* ... the infrared appliance is reported and then switched.  The ON and   *)
(* OFF codes are two different codes, so that sending each three times is  *)
(* sending it once.                                                        *)
SendIR ==
    /\ pc = "sendIR"
    /\ actual' = [actual EXCEPT ![IRApp] = want[IRApp]]
    /\ Goto("rfidDOOR")
    /\ UNCHANGED <<rtdb, k, want, checkOut, ntp, inbox, servo, door, link,
                   audit>>

Sketch ==
    \/ SetupWIFI \/ SetupDISPLAY \/ SetupMISC \/ BlynkBegin \/ SetupNTP
    \/ NoCard \/ \E card \in Strangers \cup {Key} : RfidDOOR(card)
    \/ RfidPermitted \/ RfidDenied \/ Unlock \/ Lock
    \/ DhtOLED
    \/ GetCheckIO
    \/ BlynkWrite \/ BlynkIdle
    \/ GetDatabaseControl
    \/ ControlAPP \/ ControlSkipped
    \/ DriveLamp \/ Report \/ SendIR
-----------------------------------------------------------------------------
(* What happens around the sketch.                                         *)

\* A power cut or a press of the reset button: the pins of the lamps float
\* back to LOW, the servo arm and the infrared appliance stay as they are.
Reset ==
    /\ faults < MaxFaults
    /\ faults' = faults + 1
    /\ pc' = "setupWIFI"
    /\ k' = 1
    /\ want' = [a \in Appliance |-> FALSE]
    /\ checkOut' = [f \in Field |-> 0]
    /\ tries' = 0
    /\ gotEpoch' = FALSE
    /\ inbox' = <<>>
    /\ servo' = [attached |-> FALSE, angle |-> DefaultAngle]
    /\ actual' = [a \in Appliance |-> a = IRApp /\ actual[a]]
    /\ visitor' = Absent
    /\ clean' = FALSE
    /\ UNCHANGED <<rtdb, door, link, issued, commands>>

Issue(a, v) ==
    /\ commands < MaxCommands
    /\ commands' = commands + 1
    /\ issued' = issued \cup {<<a, v>>}

\* A tap in the Blynk app reaches the board while its session is up.
AppCommand(a, v) ==
    /\ Issue(a, v)
    /\ online
    /\ pc \notin BeforeBlynk
    /\ Len(inbox) < MaxInbox
    /\ inbox' = Append(inbox, <<a, v>>)
    /\ UNCHANGED <<rtdb, pc, k, want, checkOut, ntp, servo, room, link,
                   visitor, clean, faults>>

\* Another client of the database (the voice gateway, the console) writes.
OtherCommand(a, v) ==
    /\ Issue(a, v)
    /\ control' = [control EXCEPT ![a] = v]
    /\ UNCHANGED <<status, doorStatus, booked, memory, room, link, visitor,
                   clean, faults>>

\* The reservation system writes a check-out or check-in time.
Book(path, t) ==
    /\ booked' = [booked EXCEPT ![path] = t]
    /\ UNCHANGED <<control, status, doorStatus, memory, room, link, audit>>

\* The link fails; what Blynk had buffered may be gone with the session.
LinkDown ==
    /\ online
    /\ faults < MaxFaults
    /\ faults' = faults + 1
    /\ online' = FALSE
    /\ inbox' \in {inbox, <<>>}
    /\ UNCHANGED <<rtdb, pc, k, want, checkOut, ntp, servo, room, late,
                   issued, visitor, clean, commands>>

LinkUp ==
    /\ ~online
    /\ online' = TRUE
    /\ UNCHANGED <<rtdb, memory, room, late, audit>>

\* The server carries out a put the sketch has given up on, at any time.
CarryOutControl(p) ==
    /\ late' = [late EXCEPT !.control = @ \ {p}]
    /\ control' = [control EXCEPT ![p[1]] = p[2]]
    /\ UNCHANGED <<status, doorStatus, booked, memory, room, online, audit>>

CarryOutStatus(p) ==
    /\ late' = [late EXCEPT !.status = @ \ {p}]
    /\ status' = [status EXCEPT ![p[1]] = p[2]]
    /\ clean' = FALSE
    /\ UNCHANGED <<control, doorStatus, booked, memory, room, online, issued,
                   visitor, commands, faults>>

CarryOutDoor(message) ==
    /\ late' = [late EXCEPT !.door = @ \ {message}]
    /\ doorStatus' = message
    /\ UNCHANGED <<control, status, booked, memory, room, online, audit>>

CarryOut ==
    \/ \E p \in late.control : CarryOutControl(p)
    \/ \E p \in late.status : CarryOutStatus(p)
    \/ \E message \in late.door : CarryOutDoor(message)

Surroundings ==
    \/ Reset \/ LinkDown \/ LinkUp \/ CarryOut
    \/ \E a \in Appliance, v \in BOOLEAN :
          AppCommand(a, v) \/ OtherCommand(a, v)
    \/ \E path \in {"CHECKOUT", "CHECKIN"}, t \in BookedTimes : Book(path, t)

Next == Sketch \/ Surroundings

Spec == Init /\ [][Next]_vars

(* The processor keeps running.  A pass of the loop takes seconds, so that *)
(* the clock does not forbid controlvLAMP() at every pass.                 *)
Fairness == WF_vars(Sketch) /\ SF_vars(ControlAPP)

FairSpec == Spec /\ Fairness
-----------------------------------------------------------------------------
(* The door is open only in the two seconds of rfidPermitted() for the     *)
(* permitted card, or after a reset in those seconds until setupMISC()     *)
(* drives the servo again: no path through the loop, no detach by          *)
(* controlvLAMP() and no re-attach leaves or moves the arm elsewhere.      *)
DoorSafe ==
    door = "open" => \/ pc = "doorOpen" /\ visitor = Key
                     \/ pc \in BeforeServo

(* controlvLAMP() switches lamps, reports and sends infrared codes with    *)
(* the servo detached, although every visit leaves it attached.            *)
IRWithoutServo == pc \in Driving => ~servo.attached

(* An appliance is on only if a user asked for that very appliance to be   *)
(* on: no pin, path or variable of another one leaks into it, on any route *)
(* from the Blynk pin through the database to the relay.                   *)
NothingUnasked == \A a \in Appliance : actual[a] => <<a, TRUE>> \in issued

(* Between two passes of controlvLAMP(), /MEETING ROOM 1 shows the room as *)
(* it is, unless since the pass began a report was lost, an overdue one    *)
(* was carried out over it, or the board was reset.                        *)
ReportAgrees ==
    clean /\ pc \notin Driving =>
        \A a \in Appliance : status[a] = IF actual[a] THEN "ON" ELSE "OFF"

(* getCheckIO() stores nothing in checkOutHours and checkOutMins but what  *)
(* the database holds under /CHECKOUT.                                     *)
ReadsCheckOut ==
    pc \in Reading /\ checkOut' # checkOut /\ faults' = faults =>
        \E f \in Field :
            checkOut' = [checkOut EXCEPT ![f] = booked["CHECKOUT"][f]]

CheckOutFromCheckOut == [][ReadsCheckOut]_vars

(* setupNTP() declares the time server unreachable only when the last of   *)
(* its tries brought no time either.                                       *)
NtpUnreachable == pc = "ntpHung" => ~gotEpoch

(* setup() stopped in an endless loop.                                     *)
Hung == pc \in {"displayHung", "ntpHung"}

(* Once the link stays up, the room ends up as the database asks, and is   *)
(* reported so although the result of no report is looked at: a lost one   *)
(* is made good by a later pass.  Only a setup() that stopped for good is  *)
(* an exception.                                                           *)
AsAsked(a) ==
    /\ actual[a] = control[a]
    /\ status[a] = IF control[a] THEN "ON" ELSE "OFF"

Converges ==
    <>[]online =>
        \A a \in Appliance :
            <>[](Hung \/ (control[a] \in BOOLEAN => AsAsked(a)))

(* Once the link stays up, a door left open by a reset is shut again,      *)
(* unless the OLED keeps setup() from reaching the servo.                  *)
DoorShutsAgain ==
    <>[]online => (door = "open" ~> (door = "shut" \/ pc = "displayHung"))

Room == INSTANCE RemoteSwitch WITH Sticky <- {IRApp}

(* What the users see is a remote switch: the board latches what the       *)
(* database holds and applies what it latched, whatever else it does.      *)
IsRemoteSwitch == Room!Spec
=============================================================================
