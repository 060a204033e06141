----------------------- MODULE RoomController_proofs -----------------------
(***************************************************************************)
(* Proofs that the properties of RoomController hold for any number of     *)
(* lamps, any clock, any bookings, any cards and any number of commands    *)
(* and faults.                                                             *)
(***************************************************************************)
EXTENDS RoomController, TLAPS

(* The types, and how far setupNTP() has counted: without the second part  *)
(* numberOfTries could run past its bound.                                 *)
Tries ==
    /\ pc \in BeforeBlynk => tries = 0
    /\ pc = "setupNTP" => tries < MaxTries

TypeInv == TypeOK /\ Tries

LEMMA NoInbox == <<>> \in Seq(Switch)
    OBVIOUS

LEMMA TypeInit == Init => TypeInv
<1> USE ControllerAssumption
<1> SUFFICES ASSUME Init PROVE TypeInv
    OBVIOUS
<1> USE DEF Init, PowerOn
<1>1. TypeOK
  <2>1. /\ want \in [Appliance -> BOOLEAN]
        /\ actual \in [Appliance -> BOOLEAN]
        /\ status \in [Appliance -> {"ON", "OFF", Absent}]
        /\ checkOut \in [Field -> Nat]
    OBVIOUS
  <2>2. servo \in [attached : BOOLEAN, angle : Angles]
    BY DEF Angles
  <2>3. k \in Appliance /\ pc \in Location
    BY DEF Appliance, Location, BeforeBlynk, BeforeServo
  <2>4. inbox \in Seq(Switch)
    BY NoInbox
  <2>5. /\ control \in [Appliance -> BOOLEAN \cup {Absent}]
        /\ doorStatus \in Message \cup {Absent}
        /\ booked \in [{"CHECKOUT", "CHECKIN"} -> BookedTimes]
        /\ visitor \in Strangers \cup {Key, Absent}
    OBVIOUS
  <2>6. /\ tries \in 0 .. MaxTries
        /\ commands \in 0 .. MaxCommands
        /\ faults \in 0 .. MaxFaults
    OBVIOUS
  <2>7. issued \subseteq Switch
    OBVIOUS
  <2>8. /\ gotEpoch \in BOOLEAN
        /\ door \in {"open", "shut"}
        /\ online \in BOOLEAN
        /\ clean \in BOOLEAN
    OBVIOUS
  <2>9. late \in [control : SUBSET Switch, status : SUBSET Shown,
                  door : SUBSET Message]
    OBVIOUS
  <2> QED
    BY <2>1, <2>2, <2>3, <2>4, <2>5, <2>6, <2>7, <2>8, <2>9 DEF TypeOK
<1>2. Tries
    BY DEF Tries, BeforeBlynk, BeforeServo
<1> QED
    BY <1>1, <1>2 DEF TypeInv

Queues == [control : SUBSET Switch, status : SUBSET Shown,
           door : SUBSET Message]

\* A put that fails is queued, if at all, with the puts of its own tree.
LEMMA DelayedPut ==
    ASSUME late \in Queues, NEW o
    PROVE  /\ \A p \in Switch : Delayed(o, "control", p) \in Queues
           /\ \A p \in Shown : Delayed(o, "status", p) \in Queues
           /\ \A p \in Message : Delayed(o, "door", p) \in Queues
    BY DEF Delayed, Queues

LEMMA DelayedElsewhere ==
    ASSUME late \in Queues, NEW o, NEW p, NEW tree \in {"status", "door"}
    PROVE  Delayed(o, tree, p).control = late.control
    BY DEF Delayed, Queues

LEMMA TypeStep == TypeInv /\ [Next]_vars => TypeInv'
<1> SUFFICES ASSUME TypeInv, [Next]_vars PROVE TypeInv'
    OBVIOUS
<1> USE ControllerAssumption
        DEF TypeInv, TypeOK, Tries, Location, BeforeBlynk, BeforeServo,
            Reading, Driving, Appliance, Field, Goto, rest, rtdb, ntp, room,
            link, audit
<1>1. CASE SetupWIFI
    BY <1>1 DEF SetupWIFI
<1>2. CASE SetupDISPLAY
    BY <1>2 DEF SetupDISPLAY
<1>3. CASE SetupMISC
    BY <1>3 DEF SetupMISC, ArmAt, Angles
<1>4. CASE BlynkBegin
    BY <1>4 DEF BlynkBegin
<1>5. CASE SetupNTP
    BY <1>5 DEF SetupNTP, TryAgain
<1>6. CASE NoCard
    BY <1>6 DEF NoCard
<1>7. ASSUME NEW card \in Strangers \cup {Key}, RfidDOOR(card)
      PROVE  TypeInv'
  <2>1. /\ servo' \in {servo, [servo EXCEPT !.attached = TRUE]}
        /\ door' \in {door, "open", "shut"}
    BY <1>7 DEF RfidDOOR, ServoAttach, ArmAt
  <2>2. servo' \in [attached : BOOLEAN, angle : Angles]
    BY <2>1
  <2>3. pc' \in {"permitted", "denied"} /\ visitor' = card
    BY <1>7 DEF RfidDOOR
  <2>4. UNCHANGED <<rtdb, k, want, checkOut, ntp, inbox, actual, link,
                   issued, clean, commands, faults>>
    BY <1>7 DEF RfidDOOR
  <2> QED
    BY <2>1, <2>2, <2>3, <2>4
<1>8. CASE RfidPermitted
  <2>1. PICK o \in Outcome : late' = Delayed(o, "door", "Permitted")
    BY <1>8 DEF RfidPermitted, PostDoor
  <2>2. late' \in Queues
    BY <2>1, DelayedPut DEF Message, Queues
  <2> QED
    BY <1>8, <2>2 DEF RfidPermitted, PostDoor, Message, Queues
<1>9. CASE RfidDenied
  <2>1. PICK o \in Outcome : late' = Delayed(o, "door", "Denied")
    BY <1>9 DEF RfidDenied, PostDoor
  <2>2. late' \in Queues
    BY <2>1, DelayedPut DEF Message, Queues
  <2> QED
    BY <1>9, <2>2 DEF RfidDenied, PostDoor, Message, Queues
<1>10. CASE Unlock
    BY <1>10 DEF Unlock, ServoWrite, ArmAt, Angles
<1>11. CASE Lock
    BY <1>11 DEF Lock, ServoWrite, ArmAt, Angles
<1>12. CASE GetCheckIO
  <2>1. ASSUME NEW path \in {"CHECKOUT", "CHECKIN"}, NEW field \in Field,
               NEW here, NEW next \in {"checkOutM", "checkInH", "checkInM",
                                      "blynkRun"},
               ReadTime(here, path, field, next)
        PROVE  TypeInv'
    BY <2>1 DEF ReadTime
  <2> QED
    BY <1>12, <2>1 DEF GetCheckIO
<1>13. CASE BlynkWrite
  <2>1. inbox # <<>> /\ inbox' = Tail(inbox)
    BY <1>13 DEF BlynkWrite
  <2>2. Head(inbox) \in Switch /\ Tail(inbox) \in Seq(Switch)
    BY <2>1
  <2>3. Head(inbox)[1] \in Appliance /\ Head(inbox)[2] \in BOOLEAN
    BY <2>2 DEF Switch
  <2>4. control' \in {control, [control EXCEPT ![Head(inbox)[1]] =
                                               Head(inbox)[2]]}
    BY <1>13 DEF BlynkWrite, PathOf
  <2>5. PICK o \in Outcome :
           late' = Delayed(o, "control", <<Head(inbox)[1], Head(inbox)[2]>>)
    BY <1>13 DEF BlynkWrite, PathOf
  <2>6. <<Head(inbox)[1], Head(inbox)[2]>> \in Switch
    BY <2>3 DEF Switch
  <2>7. late' \in Queues
    BY <2>5, <2>6, DelayedPut DEF Queues
  <2>8. UNCHANGED <<status, doorStatus, booked, pc, k, want, checkOut, ntp,
                   servo, room, online, audit>>
    BY <1>13 DEF BlynkWrite
  <2> QED
    BY <2>1, <2>2, <2>3, <2>4, <2>7, <2>8 DEF Queues
<1>14. CASE BlynkIdle
    BY <1>14 DEF BlynkIdle
<1>15. CASE GetDatabaseControl
    BY <1>15 DEF GetDatabaseControl, ReadPath, IRApp
<1>16. CASE ControlAPP
  <2>1. clean' \in BOOLEAN
    BY <1>16, Zenon DEF ControlAPP
  <2>2. servo' \in [attached : BOOLEAN, angle : Angles]
    BY <1>16 DEF ControlAPP, ServoDetach
  <2>3. pc' \in Driving /\ k' = 1
    BY <1>16 DEF ControlAPP
  <2>4. UNCHANGED <<rtdb, want, checkOut, ntp, inbox, room, link, issued,
                   visitor, commands, faults>>
    BY <1>16 DEF ControlAPP
  <2> QED
    BY <2>1, <2>2, <2>3, <2>4
<1>17. CASE ControlSkipped
    BY <1>17 DEF ControlSkipped
<1>18. CASE DriveLamp
    BY <1>18 DEF DriveLamp
<1>19. CASE Report
  <2>1. PICK o \in Outcome :
           /\ late' = Delayed(o, "status", <<k, Show(want[k])>>)
           /\ status' = IF o = "stored"
                          THEN [status EXCEPT ![k] = Show(want[k])]
                          ELSE status
           /\ clean' = (clean /\ o = "stored")
    BY <1>19 DEF Report
  <2>2. Show(want[k]) \in {"ON", "OFF"}
    BY DEF Show
  <2>3. late' \in Queues
    BY <2>1, <2>2, DelayedPut DEF Shown, Queues
  <2>4. status' \in [Appliance -> {"ON", "OFF", Absent}]
    BY <2>1, <2>2
  <2>5. clean' \in BOOLEAN
    BY <2>1, Zenon
  <2>6. pc' \in Driving /\ k' \in Appliance
    BY <1>19 DEF Report, IRApp
  <2>7. UNCHANGED <<control, doorStatus, booked, want, checkOut, ntp, inbox,
                   servo, room, online, issued, visitor, commands, faults>>
    BY <1>19 DEF Report
  <2> QED
    BY <2>3, <2>4, <2>5, <2>6, <2>7 DEF Queues
<1>20. CASE SendIR
    BY <1>20 DEF SendIR, IRApp
<1>21. CASE Reset
  <2>1. clean' \in BOOLEAN /\ gotEpoch' \in BOOLEAN
    BY <1>21, Zenon DEF Reset
  <2>2. /\ want' \in [Appliance -> BOOLEAN]
        /\ actual' \in [Appliance -> BOOLEAN]
        /\ checkOut' \in [Field -> Nat]
    BY <1>21 DEF Reset
  <2>3. servo' \in [attached : BOOLEAN, angle : Angles] /\ visitor' = Absent
    BY <1>21 DEF Reset, Angles
  <2>4. /\ pc' = "setupWIFI" /\ k' = 1 /\ tries' = 0 /\ inbox' = <<>>
        /\ faults' \in 0 .. MaxFaults
        /\ UNCHANGED <<rtdb, door, link, issued, commands>>
    BY <1>21 DEF Reset
  <2>5. Tries'
    BY <2>4
  <2>6. TypeOK'
    BY <2>1, <2>2, <2>3, <2>4, NoInbox, SMTT(30)
  <2> QED
    BY <2>5, <2>6
<1>22. CASE LinkDown
  <2>1. online' \in BOOLEAN
    BY <1>22, Zenon DEF LinkDown
  <2>2. inbox' \in Seq(Switch)
    BY <1>22, NoInbox, Zenon DEF LinkDown
  <2>3. faults' \in 0 .. MaxFaults
    BY <1>22 DEF LinkDown
  <2>4. UNCHANGED <<rtdb, pc, k, want, checkOut, ntp, servo, room, late,
                   issued, visitor, clean, commands>>
    BY <1>22 DEF LinkDown
  <2> QED
    BY <2>1, <2>2, <2>3, <2>4
<1>23. CASE LinkUp
    BY <1>23 DEF LinkUp, memory
<1>24. ASSUME NEW a \in Appliance, NEW v \in BOOLEAN, AppCommand(a, v)
       PROVE  TypeInv'
    BY <1>24 DEF AppCommand, Issue, Switch
<1>25. ASSUME NEW a \in Appliance, NEW v \in BOOLEAN, OtherCommand(a, v)
       PROVE  TypeInv'
    BY <1>25 DEF OtherCommand, Issue, Switch, memory
<1>26. ASSUME NEW path \in {"CHECKOUT", "CHECKIN"}, NEW t \in BookedTimes,
              Book(path, t)
       PROVE  TypeInv'
    BY <1>26 DEF Book, memory
<1>27. CASE CarryOut
  <2>1. ASSUME NEW p \in late.control, CarryOutControl(p) PROVE TypeInv'
    <3>1. p \in Switch
      OBVIOUS
    <3>2. p[1] \in Appliance /\ p[2] \in BOOLEAN
      BY <3>1 DEF Switch
    <3>3. control' \in [Appliance -> BOOLEAN \cup {Absent}]
      BY <2>1, <3>2 DEF CarryOutControl
    <3>4. late' \in Queues
      BY <2>1 DEF CarryOutControl, Queues
    <3>5. UNCHANGED <<status, doorStatus, booked, memory, room, online, audit>>
      BY <2>1 DEF CarryOutControl
    <3> QED
      BY <3>3, <3>4, <3>5 DEF memory, Queues
  <2>2. ASSUME NEW p \in late.status, CarryOutStatus(p) PROVE TypeInv'
    <3>1. p \in Shown
      OBVIOUS
    <3>2. p[1] \in Appliance /\ p[2] \in {"ON", "OFF"}
      BY <3>1 DEF Shown
    <3>3. clean' \in BOOLEAN
      BY <2>2, Zenon DEF CarryOutStatus
    <3>4. status' \in [Appliance -> {"ON", "OFF", Absent}]
      BY <2>2, <3>2 DEF CarryOutStatus
    <3>5. late' \in Queues
      BY <2>2 DEF CarryOutStatus, Queues
    <3>6. UNCHANGED <<control, doorStatus, booked, memory, room, online,
                     issued, visitor, commands, faults>>
      BY <2>2 DEF CarryOutStatus
    <3> QED
      BY <3>3, <3>4, <3>5, <3>6 DEF memory, Queues
  <2>3. ASSUME NEW m \in late.door, CarryOutDoor(m) PROVE TypeInv'
    <3>1. doorStatus' \in Message \cup {Absent}
      BY <2>3 DEF CarryOutDoor
    <3>2. late' \in Queues
      BY <2>3 DEF CarryOutDoor, Queues
    <3>3. UNCHANGED <<control, status, booked, memory, room, online, audit>>
      BY <2>3 DEF CarryOutDoor
    <3> QED
      BY <3>1, <3>2, <3>3 DEF memory, Queues
  <2> QED
    BY <1>27, <2>1, <2>2, <2>3 DEF CarryOut
<1>28. CASE UNCHANGED vars
    BY <1>28 DEF vars
<1>29. CASE DhtOLED
    BY <1>29 DEF DhtOLED
<1> HIDE DEF TypeInv, Appliance
<1> QED
    BY <1>1, <1>2, <1>3, <1>4, <1>5, <1>6, <1>7, <1>8, <1>9, <1>10, <1>11,
       <1>12, <1>13, <1>14, <1>15, <1>16, <1>17, <1>18, <1>19, <1>20, <1>21,
       <1>22, <1>23, <1>24, <1>25, <1>26, <1>27, <1>28, <1>29
    DEF Next, Sketch, Surroundings

(* Every variable keeps its type, and setupNTP() stops at its last try.    *)
THEOREM TypeCorrect == Spec => []TypeOK
<1>1. Spec => []TypeInv
    BY TypeInit, TypeStep, PTL DEF Spec
<1> QED
    BY <1>1, PTL DEF TypeInv
-----------------------------------------------------------------------------
(* The door.  DoorSafe is not inductive: what keeps the arm shut when the  *)
(* servo is attached again is the angle it was last told, and what shuts   *)
(* it after the two seconds is that it is still attached.                  *)
DoorInv ==
    /\ DoorSafe
    /\ pc \notin BeforeServo \cup {"doorOpen"} => servo.angle = ShutAngle
    /\ pc \in {"permitted", "unlock", "doorOpen"} =>
          visitor = Key /\ servo.attached

LEMMA DoorInit == Init => DoorInv
    BY DEF Init, PowerOn, DoorInv, DoorSafe, BeforeServo

LEMMA DoorStep == TypeInv /\ DoorInv /\ [Next]_vars => DoorInv'
<1> SUFFICES ASSUME TypeInv, DoorInv, [Next]_vars PROVE DoorInv'
    OBVIOUS
<1>0. TypeOK
    BY DEF TypeInv
<1>a. servo \in [attached : BOOLEAN, angle : Angles]
    BY <1>0 DEF TypeOK
<1> USE DEF DoorInv, DoorSafe, BeforeBlynk, BeforeServo, Reading, Goto, rest,
            rtdb, ntp, room, link, audit
<1>1. CASE SetupWIFI
    BY <1>1 DEF SetupWIFI
<1>2. CASE SetupDISPLAY
    BY <1>2 DEF SetupDISPLAY
<1>3. CASE SetupMISC
    BY <1>3 DEF SetupMISC, ArmAt, OpenAngle, ShutAngle
<1>4. CASE BlynkBegin
    BY <1>4 DEF BlynkBegin
<1>5. CASE SetupNTP
    BY <1>5 DEF SetupNTP
<1>6. CASE NoCard
    BY <1>6 DEF NoCard
<1>7. ASSUME NEW card \in Strangers \cup {Key}, RfidDOOR(card)
      PROVE  DoorInv'
  <2>1. CASE Opens(card)
    BY <1>7, <2>1, <1>a DEF RfidDOOR, ServoAttach, ArmAt, Opens, OpenAngle,
                            ShutAngle
  <2>2. CASE ~Opens(card)
    BY <1>7, <2>2 DEF RfidDOOR
  <2> QED
    BY <2>1, <2>2
<1>8. CASE RfidPermitted
    BY <1>8 DEF RfidPermitted, PostDoor
<1>9. CASE RfidDenied
    BY <1>9 DEF RfidDenied, PostDoor
<1>10. CASE Unlock
    BY <1>10, <1>a DEF Unlock, ServoWrite
<1>11. CASE Lock
    BY <1>11, <1>a DEF Lock, ServoWrite, ArmAt, OpenAngle, ShutAngle
<1>12. CASE GetCheckIO
    BY <1>12 DEF GetCheckIO, ReadTime
<1>13. CASE BlynkWrite
    BY <1>13 DEF BlynkWrite
<1>14. CASE BlynkIdle
    BY <1>14 DEF BlynkIdle
<1>15. CASE GetDatabaseControl
    BY <1>15 DEF GetDatabaseControl
<1>16. CASE ControlAPP
    BY <1>16, <1>a DEF ControlAPP, ServoDetach
<1>17. CASE ControlSkipped
    BY <1>17 DEF ControlSkipped
<1>18. CASE DriveLamp
    BY <1>18 DEF DriveLamp
<1>19. CASE Report
    BY <1>19 DEF Report
<1>20. CASE SendIR
    BY <1>20 DEF SendIR
<1>21. CASE Reset
    BY <1>21 DEF Reset
<1>22. CASE LinkDown
    BY <1>22 DEF LinkDown
<1>23. CASE LinkUp
    BY <1>23 DEF LinkUp, memory
<1>24. ASSUME NEW a \in Appliance, NEW v \in BOOLEAN, AppCommand(a, v)
       PROVE  DoorInv'
    BY <1>24 DEF AppCommand
<1>25. ASSUME NEW a \in Appliance, NEW v \in BOOLEAN, OtherCommand(a, v)
       PROVE  DoorInv'
    BY <1>25 DEF OtherCommand, memory
<1>26. ASSUME NEW path \in {"CHECKOUT", "CHECKIN"}, NEW t \in BookedTimes,
              Book(path, t)
       PROVE  DoorInv'
    BY <1>26 DEF Book, memory
<1>27. CASE CarryOut
    BY <1>27 DEF CarryOut, CarryOutControl, CarryOutStatus, CarryOutDoor,
                 memory
<1>28. CASE UNCHANGED vars
    BY <1>28 DEF vars
<1>29. CASE DhtOLED
    BY <1>29 DEF DhtOLED
<1> HIDE DEF DoorInv
<1> QED
    BY <1>1, <1>2, <1>3, <1>4, <1>5, <1>6, <1>7, <1>8, <1>9, <1>10, <1>11,
       <1>12, <1>13, <1>14, <1>15, <1>16, <1>17, <1>18, <1>19, <1>20, <1>21,
       <1>22, <1>23, <1>24, <1>25, <1>26, <1>27, <1>28, <1>29
    DEF Next, Sketch, Surroundings

(* The door is open only for the permitted card, or after a reset until    *)
(* setupMISC() drives the servo.                                           *)
THEOREM DoorIsSafe == Spec => []DoorSafe
<1>1. Spec => [](TypeInv /\ DoorInv)
    BY DoorInit, TypeInit, TypeStep, DoorStep, PTL DEF Spec
<1> QED
    BY <1>1, PTL DEF DoorInv
-----------------------------------------------------------------------------
(* The commands.  What is on was asked for, because what is latched, what  *)
(* the database holds, what waits in the inbox and what the server may yet *)
(* carry out was.                                                          *)
Waiting   == \A i \in DOMAIN inbox : inbox[i] \in issued
Commanded == \A a \in Appliance :
                control[a] \in BOOLEAN => <<a, control[a]>> \in issued
Latched   == \A a \in Appliance : want[a] => <<a, TRUE>> \in issued

Pending   == late.control \subseteq issued

CommandInv == Waiting /\ Commanded /\ Latched /\ Pending /\ NothingUnasked

LEMMA CommandStep == TypeInv /\ CommandInv /\ [Next]_vars => CommandInv'
<1> SUFFICES ASSUME TypeOK, CommandInv, [Next]_vars PROVE CommandInv'
    BY DEF TypeInv
<1>t. /\ control \in [Appliance -> BOOLEAN \cup {Absent}]
      /\ want \in [Appliance -> BOOLEAN]
      /\ actual \in [Appliance -> BOOLEAN]
      /\ inbox \in Seq(Switch)
      /\ k \in Appliance
      /\ late \in Queues
      /\ Absent \notin BOOLEAN
    BY ControllerAssumption DEF TypeOK, Queues
<1> USE DEF CommandInv, Waiting, Commanded, Latched, Pending, NothingUnasked
<1>1. ASSUME UNCHANGED <<control, inbox, want, actual, issued>>,
             late'.control = late.control
      PROVE  CommandInv'
    BY <1>1
<1>2. CASE BlynkWrite
  <2>1. /\ inbox # <<>>
        /\ inbox' = Tail(inbox)
        /\ UNCHANGED <<want, actual, issued>>
    BY <1>2 DEF BlynkWrite, rtdb, room, audit
  <2>2. /\ Head(inbox) \in issued
        /\ Head(inbox) \in Switch
        /\ Head(inbox) = <<Head(inbox)[1], Head(inbox)[2]>>
    BY <2>1, <1>t DEF Switch
  <2>3. Waiting'
    BY <2>1, <1>t
  <2>4. control' \in {control, [control EXCEPT ![Head(inbox)[1]] =
                                               Head(inbox)[2]]}
    BY <1>2 DEF BlynkWrite, PathOf
  <2>5. Commanded'
    BY <2>1, <2>2, <2>4, <1>t
  <2>6. \/ late' = late
        \/ late' = [late EXCEPT !.control =
                        @ \cup {<<Head(inbox)[1], Head(inbox)[2]>>}]
    BY <1>2 DEF BlynkWrite, PathOf, Delayed
  <2>7. Pending'
    BY <2>1, <2>2, <2>6, <1>t DEF Queues
  <2> QED
    BY <2>1, <2>3, <2>5, <2>7
<1>3. CASE GetDatabaseControl
  <2>1. UNCHANGED <<control, inbox, actual, issued, late>>
    BY <1>3 DEF GetDatabaseControl, rtdb, room, link, audit
  <2>2. \/ want' = want
        \/ /\ control[k] \in BOOLEAN
           /\ want' = [want EXCEPT ![k] = control[k]]
    BY <1>3 DEF GetDatabaseControl, ReadPath
  <2>3. Latched'
    BY <2>1, <2>2, <1>t
  <2> QED
    BY <2>1, <2>3
<1>4. CASE DriveLamp
    BY <1>4, <1>t DEF DriveLamp, rtdb, link, audit
<1>5. CASE SendIR
    BY <1>5, <1>t DEF SendIR, rtdb, link, audit
<1>6. CASE Reset
  <2>1. UNCHANGED <<control, issued, late>> /\ inbox' = <<>>
    BY <1>6 DEF Reset, rtdb, link
  <2>2. /\ want' = [a \in Appliance |-> FALSE]
        /\ actual' = [a \in Appliance |-> a = IRApp /\ actual[a]]
    BY <1>6 DEF Reset
  <2>3. Waiting' /\ Commanded' /\ Pending'
    BY <2>1
  <2>4. Latched' /\ NothingUnasked'
    BY <2>1, <2>2
  <2> QED
    BY <2>3, <2>4
<1>7. CASE LinkDown
  <2>1. UNCHANGED <<control, want, actual, issued, late>>
    BY <1>7 DEF LinkDown, rtdb, room
  <2>2. inbox' = inbox \/ inbox' = <<>>
    BY <1>7, Zenon DEF LinkDown
  <2>3. CASE inbox' = inbox
    BY <2>1, <2>3, <1>1
  <2>4. CASE inbox' = <<>>
    <3>1. Waiting'
      BY <2>4
    <3>2. Commanded' /\ Latched' /\ Pending' /\ NothingUnasked'
      BY <2>1
    <3> QED
      BY <3>1, <3>2
  <2> QED
    BY <2>2, <2>3, <2>4
<1>8. ASSUME NEW a \in Appliance, NEW v \in BOOLEAN, AppCommand(a, v)
      PROVE  CommandInv'
  <2>1. /\ UNCHANGED <<control, want, actual, late>>
        /\ inbox' = Append(inbox, <<a, v>>)
        /\ issued' = issued \cup {<<a, v>>}
    BY <1>8 DEF AppCommand, Issue, rtdb, room, link
  <2>2. Waiting'
    BY <2>1, <1>t DEF Switch
  <2> QED
    BY <2>1, <2>2
<1>9. ASSUME NEW a \in Appliance, NEW v \in BOOLEAN, OtherCommand(a, v)
      PROVE  CommandInv'
  <2>1. /\ control' = [control EXCEPT ![a] = v]
        /\ issued' = issued \cup {<<a, v>>}
        /\ UNCHANGED <<inbox, want, actual, late>>
    BY <1>9 DEF OtherCommand, Issue, memory, room, link
  <2> QED
    BY <2>1, <1>t
<1>10. CASE \/ SetupWIFI \/ SetupDISPLAY \/ BlynkBegin \/ NoCard \/ DhtOLED
            \/ ControlSkipped
    BY <1>10, <1>1
    DEF SetupWIFI, SetupDISPLAY, BlynkBegin, NoCard, DhtOLED, ControlSkipped,
        rest, rtdb, room, link, audit
<1>11. ASSUME NEW card, RfidDOOR(card) PROVE CommandInv'
    BY <1>11, <1>1 DEF RfidDOOR, rtdb, link
<1>12. CASE \/ SetupMISC \/ SetupNTP \/ Unlock \/ Lock \/ GetCheckIO
            \/ BlynkIdle \/ ControlAPP
    BY <1>12, <1>1
    DEF SetupMISC, SetupNTP, Unlock, Lock, GetCheckIO, ReadTime, BlynkIdle,
        ControlAPP, rtdb, room, link, audit
<1>15. CASE RfidPermitted \/ RfidDenied \/ Report
  <2>1. /\ UNCHANGED <<control, inbox, want, actual, issued>>
        /\ \E o, p : \E tree \in {"status", "door"} :
              late' = Delayed(o, tree, p)
    BY <1>15 DEF RfidPermitted, RfidDenied, PostDoor, Report, room
  <2>2. late'.control = late.control
    BY <2>1, <1>t, DelayedElsewhere
  <2> QED
    BY <2>1, <2>2, <1>1
<1>16. CASE CarryOut
  <2>1. ASSUME NEW p \in late.control, CarryOutControl(p) PROVE CommandInv'
    <3>1. /\ p[1] \in Appliance /\ p[2] \in BOOLEAN
          /\ p = <<p[1], p[2]>>
          /\ p \in issued
      BY <1>t DEF Queues, Switch
    <3>2. /\ control' = [control EXCEPT ![p[1]] = p[2]]
          /\ late'.control \subseteq late.control
          /\ UNCHANGED <<inbox, want, actual, issued>>
      BY <2>1, <1>t DEF CarryOutControl, Queues, memory, room, audit
    <3>3. Commanded'
      BY <3>1, <3>2, <1>t
    <3> QED
      BY <3>2, <3>3
  <2>2. ASSUME NEW p, CarryOutStatus(p) \/ CarryOutDoor(p) PROVE CommandInv'
    BY <2>2, <1>1, <1>t
    DEF CarryOutStatus, CarryOutDoor, Queues, memory, room, audit
  <2> QED
    BY <1>16, <2>1, <2>2 DEF CarryOut
<1>13. ASSUME LinkUp \/ \E path \in {"CHECKOUT", "CHECKIN"} :
                           \E t \in BookedTimes : Book(path, t)
       PROVE  CommandInv'
    BY <1>13, <1>1 DEF LinkUp, Book, rtdb, memory, room, link, audit
<1>14. CASE UNCHANGED vars
    BY <1>14, <1>1 DEF vars
<1> HIDE DEF CommandInv
<1> QED
    BY <1>2, <1>3, <1>4, <1>5, <1>6, <1>7, <1>8, <1>9, <1>10, <1>11, <1>12,
       <1>13, <1>14, <1>15, <1>16
    DEF Next, Sketch, Surroundings

LEMMA CommandInit == Init => CommandInv
<1> SUFFICES ASSUME Init PROVE CommandInv
    OBVIOUS
<1>1. inbox = <<>> /\ want = [a \in Appliance |-> FALSE] /\ actual = want
    BY DEF Init, PowerOn
<1>2. control \in [Appliance -> BOOLEAN \cup {Absent}]
    BY DEF Init
<1>3. issued = {s \in Switch : control[s[1]] = s[2]}
    BY DEF Init
<1>4. Commanded
    BY <1>2, <1>3 DEF Commanded, Switch
<1>5. Pending
    BY DEF Init, Pending
<1> QED
    BY <1>1, <1>4, <1>5 DEF CommandInv, Waiting, Latched, NothingUnasked

(* No appliance is on that no user ever asked to be on.                    *)
THEOREM NothingIsUnasked == Spec => []NothingUnasked
<1>1. Spec => [](TypeInv /\ CommandInv)
    BY TypeInit, CommandInit, TypeStep, CommandStep, PTL DEF Spec
<1> QED
    BY <1>1, PTL DEF CommandInv
-----------------------------------------------------------------------------
(* The reports.  Within a pass of controlvLAMP() the appliances before k   *)
(* are already reported; the lamp k may be driven and not yet reported,    *)
(* the infrared appliance reported and not yet switched.                   *)
Agrees(a) == status[a] = Show(actual[a])

ReportInv ==
    /\ pc \in Driving => ~servo.attached
    /\ pc = "drive" => k # IRApp
    /\ pc = "report" /\ k # IRApp => actual[k] = want[k]
    /\ pc = "sendIR" => k = IRApp
    /\ clean /\ pc \in {"drive", "report"} =>
          \A a \in Appliance : a < k => Agrees(a)
    /\ clean /\ pc = "sendIR" =>
          /\ \A a \in Appliance : a < k => Agrees(a)
          /\ status[IRApp] = Show(want[IRApp])
    /\ clean /\ pc \notin Driving => \A a \in Appliance : Agrees(a)

LEMMA ReportStep == TypeInv /\ ReportInv /\ [Next]_vars => ReportInv'
<1> SUFFICES ASSUME TypeOK, ReportInv, [Next]_vars PROVE ReportInv'
    BY DEF TypeInv
<1>t. /\ status \in [Appliance -> {"ON", "OFF", Absent}]
      /\ actual \in [Appliance -> BOOLEAN]
      /\ want \in [Appliance -> BOOLEAN]
      /\ k \in Appliance
      /\ NLamps \in Nat
      /\ servo \in [attached : BOOLEAN, angle : Angles]
    BY ControllerAssumption DEF TypeOK
<1> USE DEF ReportInv, Agrees, Driving
<1>1. ASSUME UNCHANGED <<status, actual, want, k, clean, servo>>,
             pc' = pc \/ (pc \notin Driving /\ pc' \notin Driving)
      PROVE  ReportInv'
    BY <1>1
<1>2. ASSUME UNCHANGED <<status, actual, clean>>,
             pc \notin Driving, pc' \notin Driving
      PROVE  ReportInv'
    BY <1>2
<1>3. CASE ControlAPP
  <2>1. /\ k' = 1
        /\ ~servo'.attached
        /\ pc' = IF NLamps = 0 THEN "report" ELSE "drive"
    BY <1>3, <1>t DEF ControlAPP, Goto, ServoDetach
  <2> QED
    BY <2>1, <1>t DEF Appliance, IRApp
<1>4. CASE DriveLamp
  <2>1. /\ pc = "drive" /\ pc' = "report"
        /\ actual' = [actual EXCEPT ![k] = want[k]]
        /\ UNCHANGED <<status, want, k, clean, servo>>
    BY <1>4 DEF DriveLamp, Goto, rtdb, audit
  <2> QED
    BY <2>1, <1>t DEF Appliance
<1>5. CASE Report
  <2>1. /\ pc = "report"
        /\ UNCHANGED <<actual, want, servo>>
        /\ \/ status' = [status EXCEPT ![k] = Show(want[k])]
           \/ ~clean'
        /\ clean' => clean
    BY <1>5 DEF Report, room
  <2>2. CASE k = IRApp
    <3>1. pc' = "sendIR" /\ k' = k
      BY <1>5, <2>2 DEF Report, Goto
    <3> QED
      BY <2>1, <2>2, <3>1, <1>t DEF Appliance, IRApp
  <2>3. CASE k # IRApp
    <3>1. k' = k + 1 /\ pc' = IF k + 1 = IRApp THEN "report" ELSE "drive"
      BY <1>5, <2>3 DEF Report, Goto
    <3> QED
      BY <2>1, <2>3, <3>1, <1>t DEF Appliance, IRApp
  <2> QED
    BY <2>2, <2>3
<1>6. CASE SendIR
  <2>1. /\ pc = "sendIR" /\ pc' = "rfidDOOR"
        /\ actual' = [actual EXCEPT ![IRApp] = want[IRApp]]
        /\ UNCHANGED <<status, want, k, clean>>
    BY <1>6 DEF SendIR, Goto, rtdb, audit
  <2> QED
    BY <2>1, <1>t DEF Appliance, IRApp
<1>7. CASE Reset
    BY <1>7 DEF Reset
<1>8. CASE \/ SetupWIFI \/ SetupDISPLAY \/ BlynkBegin \/ NoCard \/ DhtOLED
            \/ ControlSkipped
    BY <1>8, <1>2
    DEF SetupWIFI, SetupDISPLAY, BlynkBegin, NoCard, DhtOLED, ControlSkipped,
        Goto, rest, rtdb, room, audit
<1>9. CASE \/ SetupMISC \/ SetupNTP \/ RfidPermitted \/ RfidDenied \/ Unlock
           \/ Lock \/ GetCheckIO \/ BlynkWrite \/ BlynkIdle
           \/ GetDatabaseControl
    BY <1>9, <1>2
    DEF SetupMISC, SetupNTP, RfidPermitted, RfidDenied, PostDoor, Unlock,
        Lock, GetCheckIO, ReadTime, BlynkWrite, BlynkIdle, GetDatabaseControl,
        Goto, rtdb, room, audit
<1>10. ASSUME NEW card, RfidDOOR(card) PROVE ReportInv'
    BY <1>10, <1>2 DEF RfidDOOR, Goto, rtdb
<1>11. CASE LinkDown \/ LinkUp
    BY <1>11, <1>1 DEF LinkDown, LinkUp, rtdb, memory, room, audit
<1>12. ASSUME NEW a, NEW v, AppCommand(a, v) \/ OtherCommand(a, v)
       PROVE  ReportInv'
    BY <1>12, <1>1
    DEF AppCommand, OtherCommand, Issue, rtdb, memory, room
<1>13. ASSUME NEW path, NEW t, Book(path, t) PROVE ReportInv'
    BY <1>13, <1>1 DEF Book, memory, room, audit
<1>14. CASE UNCHANGED vars
    BY <1>14, <1>1 DEF vars
<1>15. ASSUME NEW p, CarryOutControl(p) \/ CarryOutDoor(p) PROVE ReportInv'
    BY <1>15, <1>1 DEF CarryOutControl, CarryOutDoor, memory, room, audit
<1>16. ASSUME NEW p, CarryOutStatus(p) PROVE ReportInv'
  <2>1. ~clean' /\ UNCHANGED <<pc, k, want, servo, actual>>
    BY <1>16 DEF CarryOutStatus, memory, room
  <2> QED
    BY <2>1
<1> HIDE DEF ReportInv
<1> QED
    BY <1>3, <1>4, <1>5, <1>6, <1>7, <1>8, <1>9, <1>10, <1>11, <1>12, <1>13,
       <1>14, <1>15, <1>16
    DEF Next, Sketch, Surroundings, CarryOut

LEMMA ReportInit == Init => ReportInv
    BY DEF Init, PowerOn, ReportInv, Driving

LEMMA ReportAlways == Spec => []ReportInv
    BY ReportInit, TypeInit, TypeStep, ReportStep, PTL DEF Spec

(* Lamps and infrared codes are only ever driven with the servo detached.  *)
THEOREM ServoIsDetached == Spec => []IRWithoutServo
<1>1. ReportInv => IRWithoutServo
    BY DEF ReportInv, IRWithoutServo
<1> QED
    BY <1>1, ReportAlways, PTL

(* Between two passes the report shows the room as it is.                  *)
THEOREM ReportIsTrue == Spec => []ReportAgrees
<1>1. ReportInv => ReportAgrees
    BY DEF ReportInv, ReportAgrees, Agrees, Show
<1> QED
    BY <1>1, ReportAlways, PTL
-----------------------------------------------------------------------------
(* The refinement: every step of the board and its surroundings is a step  *)
(* of the remote switch, or leaves it alone.                               *)
switch == <<control, want, actual>>

LEMMA SwitchStep == TypeInv /\ [Next]_vars => [Room!Next]_switch
<1> SUFFICES ASSUME TypeOK, [Next]_vars PROVE [Room!Next]_switch
    BY DEF TypeInv
<1>t. /\ inbox \in Seq(Switch)
      /\ k \in Appliance
      /\ IRApp \in Appliance
      /\ late.control \subseteq Switch
    BY ControllerAssumption DEF TypeOK, Appliance, IRApp
<1>1. ASSUME UNCHANGED switch PROVE [Room!Next]_switch
    BY <1>1
<1>2. ASSUME NEW a \in Appliance, NEW v \in BOOLEAN,
             control' = [control EXCEPT ![a] = v], UNCHANGED <<want, actual>>
      PROVE  [Room!Next]_switch
    BY <1>2 DEF Room!Next, Room!Command
<1>3. ASSUME NEW a \in Appliance, actual' = [actual EXCEPT ![a] = want[a]],
             UNCHANGED <<control, want>>
      PROVE  [Room!Next]_switch
    BY <1>3 DEF Room!Next, Room!Apply
<1>4. CASE BlynkWrite
  <2>1. /\ inbox # <<>>
        /\ UNCHANGED <<want, actual>>
        /\ \/ control' = control
           \/ control' = [control EXCEPT ![Head(inbox)[1]] = Head(inbox)[2]]
    BY <1>4 DEF BlynkWrite, PathOf, rtdb, room
  <2>2. Head(inbox)[1] \in Appliance /\ Head(inbox)[2] \in BOOLEAN
    BY <2>1, <1>t DEF Switch
  <2> QED
    BY <2>1, <2>2, <1>1, <1>2 DEF switch
<1>5. CASE GetDatabaseControl
  <2>1. /\ UNCHANGED <<control, actual>>
        /\ \/ want' = want
           \/ /\ control[k] \in BOOLEAN
              /\ want' = [want EXCEPT ![k] = control[k]]
    BY <1>5 DEF GetDatabaseControl, ReadPath, rtdb, room
  <2> QED
    BY <2>1, <1>t DEF switch, Room!Next, Room!Latch
<1>6. CASE DriveLamp
    BY <1>6, <1>3, <1>t DEF DriveLamp, rtdb
<1>7. CASE SendIR
    BY <1>7, <1>3, <1>t DEF SendIR, rtdb
<1>8. CASE Reset
  <2>1. Room!PowerCut
    BY <1>8 DEF Reset, Room!PowerCut, rtdb
  <2> QED
    BY <2>1 DEF Room!Next
<1>9. ASSUME NEW a \in Appliance, NEW v \in BOOLEAN, OtherCommand(a, v)
      PROVE  [Room!Next]_switch
    BY <1>9, <1>2 DEF OtherCommand, memory, room
<1>10. CASE \/ SetupWIFI \/ SetupDISPLAY \/ BlynkBegin \/ NoCard \/ DhtOLED
            \/ ControlSkipped
    BY <1>10, <1>1
    DEF switch, SetupWIFI, SetupDISPLAY, BlynkBegin, NoCard, DhtOLED,
        ControlSkipped, rest, rtdb, room
<1>11. CASE \/ SetupMISC \/ SetupNTP \/ RfidPermitted \/ RfidDenied \/ Unlock
            \/ Lock \/ GetCheckIO \/ BlynkIdle \/ ControlAPP \/ Report
    BY <1>11, <1>1
    DEF switch, SetupMISC, SetupNTP, RfidPermitted, RfidDenied, PostDoor,
        Unlock, Lock, GetCheckIO, ReadTime, BlynkIdle, ControlAPP, Report,
        rtdb, room
<1>12. ASSUME NEW card, RfidDOOR(card) PROVE [Room!Next]_switch
    BY <1>12, <1>1 DEF switch, RfidDOOR, rtdb
<1>13. CASE LinkDown \/ LinkUp
    BY <1>13, <1>1 DEF switch, LinkDown, LinkUp, rtdb, memory, room
<1>14. ASSUME NEW a, NEW v, AppCommand(a, v) PROVE [Room!Next]_switch
    BY <1>14, <1>1 DEF switch, AppCommand, rtdb, room
<1>15. ASSUME NEW path, NEW t, Book(path, t) PROVE [Room!Next]_switch
    BY <1>15, <1>1 DEF switch, Book, memory, room
<1>16. CASE UNCHANGED vars
    BY <1>16, <1>1 DEF switch, vars
<1>17. ASSUME NEW p \in late.control, CarryOutControl(p)
       PROVE  [Room!Next]_switch
  <2>1. p[1] \in Appliance /\ p[2] \in BOOLEAN
    BY <1>t DEF Switch
  <2> QED
    BY <1>17, <2>1, <1>2 DEF CarryOutControl, memory, room
<1>18. ASSUME NEW p, CarryOutStatus(p) \/ CarryOutDoor(p)
       PROVE  [Room!Next]_switch
    BY <1>18, <1>1 DEF switch, CarryOutStatus, CarryOutDoor, memory, room
<1> QED
    BY <1>4, <1>5, <1>6, <1>7, <1>8, <1>9, <1>10, <1>11, <1>12, <1>13, <1>14,
       <1>15, <1>16, <1>17, <1>18
    DEF Next, Sketch, Surroundings, CarryOut

(* The sketch, with the faults and the users around it, implements the     *)
(* remote switch.                                                          *)
THEOREM ControllerIsRemoteSwitch == Spec => IsRemoteSwitch
<1>1. Init => Room!Init
    BY DEF Init, PowerOn, Room!Init
<1>2. Spec => []TypeInv
    BY TypeInit, TypeStep, PTL DEF Spec
<1> QED
    BY <1>1, <1>2, SwitchStep, PTL DEF Spec, IsRemoteSwitch, Room!Spec, switch
=============================================================================
