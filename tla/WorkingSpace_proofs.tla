------------------------- MODULE WorkingSpace_proofs -------------------------
(***************************************************************************)
(* Proofs about the room controller and the voice gateway together, for    *)
(* any number of appliances, requests, commands and faults on both sides.  *)
(*                                                                         *)
(* A step of the working space is, for the controller, a step of its own   *)
(* or one of two that its specification does not have: the gateway stores  *)
(* a command that was given before, or a command is given that nobody has  *)
(* stored yet.  For the gateway it is a step of its own, or another client *)
(* writes to the database.                                                 *)
(***************************************************************************)
EXTENDS WorkingSpace, RoomController_proofs, QueueTheorems

\* The step of the controller and the people around it.
Around ==
    \/ Sketch \/ Reset \/ LinkDown \/ LinkUp \/ CarryOut
    \/ \E path \in {"CHECKOUT", "CHECKIN"}, t \in BookedTimes : Book(path, t)

\* The two steps that only the working space has.
Stored(a, v) ==
    /\ <<a, v>> \in issued
    /\ control' = [control EXCEPT ![a] = v]
    /\ UNCHANGED ownVars

Asked(a, v) ==
    /\ Issue(a, v)
    /\ UNCHANGED <<rtdb, memory, room, link, visitor, clean, faults>>

Joint ==
    \/ [Next]_vars
    \/ \E a \in Appliance, v \in BOOLEAN : Stored(a, v) \/ Asked(a, v)

(* What travels to the database by voice was asked for.                    *)
OnTheWire ==
    /\ wire \in Seq(issued)
    /\ receiveQueue \in Seq(issued)
    /\ overdue \subseteq issued

LEMMA IssuedAreSwitches == TypeOK => issued \subseteq Appliance \X BOOLEAN
BY DEF TypeOK, Switch

\* The two strange steps leave most of the controller alone.
LEMMA AsideType ==
  ASSUME TypeInv, NEW a \in Appliance, NEW v \in BOOLEAN,
         Stored(a, v) \/ Asked(a, v)
  PROVE  TypeInv'
<1> USE ControllerAssumption
        DEF TypeInv, TypeOK, Tries, memory, room, link, audit, ntp, rtdb
<1>1. CASE Stored(a, v)
  BY <1>1 DEF Stored, ownVars
<1>2. CASE Asked(a, v)
  BY <1>2 DEF Asked, Issue, Switch
<1> QED  BY <1>1, <1>2

LEMMA AsideCommands ==
  ASSUME TypeInv, CommandInv, NEW a \in Appliance, NEW v \in BOOLEAN,
         Stored(a, v) \/ Asked(a, v)
  PROVE  CommandInv'
<1>t. control \in [Appliance -> BOOLEAN \cup {Absent}]
  BY DEF TypeInv, TypeOK
<1> USE DEF CommandInv, Waiting, Commanded, Latched, Pending, NothingUnasked
<1>1. CASE Stored(a, v)
  <2>1. /\ UNCHANGED <<inbox, want, actual, issued, late>>
        /\ control' = [control EXCEPT ![a] = v]
        /\ <<a, v>> \in issued
    BY <1>1 DEF Stored, ownVars, memory, room, link, audit
  <2>2. Commanded'
    BY <2>1, <1>t
  <2> QED  BY <2>1, <2>2
<1>2. CASE Asked(a, v)
  <2>1. /\ UNCHANGED <<control, inbox, want, actual, late>>
        /\ issued \subseteq issued'
    BY <1>2 DEF Asked, Issue, rtdb, memory, room, link
  <2> QED  BY <2>1
<1> QED  BY <1>1, <1>2

\* What the controller does to the commands.
LEMMA AroundStep ==
  ASSUME TypeInv, Around
  PROVE  /\ Next
         /\ UNCHANGED issued
         /\ \/ UNCHANGED control
            \/ \E a \in Appliance, v \in BOOLEAN :
                  control' = [control EXCEPT ![a] = v]
<1>1. Next
  BY DEF Around, Next, Surroundings
<1>t. inbox \in Seq(Switch) /\ late.control \subseteq Switch
  BY DEF TypeInv, TypeOK
<1> DEFINE Kept == UNCHANGED issued /\ UNCHANGED control
<1>2. CASE \/ SetupWIFI \/ SetupDISPLAY \/ SetupMISC \/ BlynkBegin \/ SetupNTP
           \/ NoCard \/ DhtOLED \/ ControlSkipped \/ Unlock \/ Lock
           \/ RfidPermitted \/ RfidDenied \/ GetCheckIO
  <2>1. Kept
    BY <1>2
    DEF SetupWIFI, SetupDISPLAY, SetupMISC, BlynkBegin, SetupNTP, NoCard,
        DhtOLED, ControlSkipped, Unlock, Lock, RfidPermitted, RfidDenied,
        PostDoor, GetCheckIO, ReadTime, rest, rtdb, audit
  <2> QED  BY <1>1, <2>1
<1>3. CASE \/ BlynkIdle \/ GetDatabaseControl \/ ControlAPP \/ DriveLamp
           \/ Report \/ SendIR \/ Reset \/ LinkDown \/ LinkUp
  <2>1. Kept
    BY <1>3
    DEF BlynkIdle, GetDatabaseControl, ControlAPP, DriveLamp, Report, SendIR,
        Reset, LinkDown, LinkUp, rtdb, audit
  <2> QED  BY <1>1, <2>1
<1>4. ASSUME NEW card, RfidDOOR(card) PROVE Kept
  BY <1>4 DEF RfidDOOR, rtdb
<1>5. ASSUME NEW path, NEW t, Book(path, t) PROVE Kept
  BY <1>5 DEF Book, audit
<1>6. CASE BlynkWrite
  <2>1. /\ inbox # <<>>
        /\ UNCHANGED issued
        /\ \/ control' = control
           \/ control' = [control EXCEPT ![Head(inbox)[1]] = Head(inbox)[2]]
    BY <1>6 DEF BlynkWrite, PathOf, audit
  <2>2. Head(inbox)[1] \in Appliance /\ Head(inbox)[2] \in BOOLEAN
    BY <2>1, <1>t DEF Switch
  <2> QED  BY <1>1, <2>1, <2>2
<1>7. ASSUME NEW p \in late.control, CarryOutControl(p)
      PROVE  /\ UNCHANGED issued
             /\ \E a \in Appliance, v \in BOOLEAN :
                   control' = [control EXCEPT ![a] = v]
  <2>1. p[1] \in Appliance /\ p[2] \in BOOLEAN
    BY <1>t DEF Switch
  <2> QED  BY <1>7, <2>1 DEF CarryOutControl, audit
<1>8. ASSUME NEW p, CarryOutStatus(p) \/ CarryOutDoor(p) PROVE Kept
  BY <1>8 DEF CarryOutStatus, CarryOutDoor, audit
<1> QED
  BY <1>1, <1>2, <1>3, <1>4, <1>5, <1>6, <1>7, <1>8
  DEF Around, Sketch, CarryOut

\* The elements of the queues of the gateway are commands.
LEMMA FrontOfTheQueue ==
  ASSUME TypeInv, OnTheWire, receiveQueue # <<>>
  PROVE  LET r == Head(receiveQueue)
         IN  /\ r \in issued /\ r = <<r[1], r[2]>> /\ r # Voice!Unknown
             /\ r[1] \in Appliance /\ r[2] \in BOOLEAN
<1> DEFINE r == Head(receiveQueue)
<1>1. r \in issued
  BY HeadAndTail DEF OnTheWire
<1>2. r = <<r[1], r[2]>> /\ r[1] \in Appliance /\ r[2] \in BOOLEAN
  BY <1>1, IssuedAreSwitches DEF TypeInv
<1> HIDE DEF r
<1>3. r # Voice!Unknown
  BY <1>2, ControllerAssumption DEF Voice!Unknown
<1> QED  BY <1>1, <1>2, <1>3 DEF r

\* Every request of the working space is for a switch and its state.
LEMMA NothingIsRefused ==
  ASSUME TypeInv, OnTheWire
  PROVE  ~Voice!RefuseRequest
BY FrontOfTheQueue DEF Voice!RefuseRequest

LEMMA OverduePut ==
  ASSUME TypeInv, OnTheWire, NEW p \in overdue
  PROVE  /\ p \in issued /\ p = <<p[1], p[2]>>
         /\ p[1] \in Appliance /\ p[2] \in BOOLEAN
BY IssuedAreSwitches DEF TypeInv, OnTheWire

\* What the gateway does to the commands.
LEMMA GatewayControl ==
  ASSUME TypeInv, OnTheWire, GatewayStep
  PROVE  \/ UNCHANGED vars
         \/ \E a \in Appliance, v \in BOOLEAN : Stored(a, v)
<1>0. UNCHANGED ownVars
  BY DEF GatewayStep
<1>1. ASSUME UNCHANGED control PROVE UNCHANGED vars
  BY <1>0, <1>1 DEF ownVars, memory, room, link, audit, ntp, vars
<1>2. CASE \/ Voice!Setup \/ Voice!Listen \/ Voice!ReceiveQueueEmpty
           \/ Voice!SendReply \/ Voice!SendQueueDone
  BY <1>1, <1>2
  DEF Voice!Setup, Voice!Listen, Voice!ReceiveQueueEmpty, Voice!SendReply,
      Voice!SendQueueDone, Voice!database
<1>3. CASE \/ Voice!Disconnect \/ Voice!Reconnect \/ Voice!Restart
           \/ Voice!SendReplyInVain \/ Voice!DatabaseDown \/ Voice!DatabaseUp
  BY <1>1, <1>3
  DEF Voice!Disconnect, Voice!Reconnect, Voice!Restart, Voice!SendReplyInVain,
      Voice!DatabaseDown, Voice!DatabaseUp, Voice!database
<1>4. CASE Voice!HandleRequest
  <2> DEFINE r == Head(receiveQueue)
  <2>1. /\ receiveQueue # <<>>
        /\ \/ control' = control
           \/ control' = [control EXCEPT ![r[1]] = r[2]]
    BY <1>4 DEF Voice!HandleRequest, Voice!PathOf
  <2>2. /\ <<r[1], r[2]>> \in issued
        /\ r[1] \in Appliance /\ r[2] \in BOOLEAN
    BY <2>1, FrontOfTheQueue
  <2> QED  BY <1>0, <1>1, <2>1, <2>2 DEF Stored
<1>5. ASSUME NEW p \in overdue, Voice!CarryOut(p)
      PROVE  \E a \in Appliance, v \in BOOLEAN : Stored(a, v)
  <2>1. /\ <<p[1], p[2]>> \in issued
        /\ p[1] \in Appliance /\ p[2] \in BOOLEAN
    BY OverduePut
  <2> QED  BY <1>0, <1>5, <2>1 DEF Stored, Voice!CarryOut
<1> QED
  BY <1>2, <1>3, <1>4, <1>5, NothingIsRefused
  DEF GatewayStep, Voice!Gateway, Voice!Network

(* A step of the working space, as the controller sees it.                 *)
LEMMA JointStep ==
  ASSUME TypeInv, OnTheWire, [WorkingNext]_allVars
  PROVE  Joint
<1>1. CASE ControllerStep
  <2>1. Around
    BY <1>1 DEF ControllerStep, Around
  <2> QED  BY <2>1, AroundStep DEF Joint
<1>2. CASE GatewayStep
  BY <1>2, GatewayControl DEF Joint
<1>3. ASSUME NEW a \in Appliance, NEW v \in BOOLEAN, AppRoute(a, v)
      PROVE  Joint
  BY <1>3 DEF AppRoute, Joint, Next, Surroundings
<1>4. ASSUME NEW a \in Appliance, NEW v \in BOOLEAN, VoiceRoute(a, v)
      PROVE  Joint
  <2>1. Asked(a, v)
    BY <1>4 DEF VoiceRoute, Asked, Voice!Ask, Voice!database, rtdb
  <2> QED  BY <2>1 DEF Joint
<1>5. CASE UNCHANGED allVars
  BY <1>5 DEF allVars, Joint
<1> QED  BY <1>1, <1>2, <1>3, <1>4, <1>5 DEF WorkingNext
-----------------------------------------------------------------------------
\* Listen moves a batch; the others leave the queues alone or take the
\* front, and Restart and the loss of the link empty them.
LEMMA ListenTypes ==
  ASSUME NEW S, wire \in Seq(S), receiveQueue \in Seq(S), Voice!Listen
  PROVE  /\ wire' \in Seq(S) /\ receiveQueue' \in Seq(S)
         /\ receiveQueue' \o wire' = receiveQueue \o wire
<1>1. CASE connected
  <2>1. PICK n \in 0 .. Len(wire) :
           /\ receiveQueue' = receiveQueue \o SubSeq(wire, 1, n)
           /\ wire' = SubSeq(wire, n + 1, Len(wire))
    BY <1>1 DEF Voice!Listen
  <2> DEFINE a == SubSeq(wire, 1, n)
             b == SubSeq(wire, n + 1, Len(wire))
  <2>2. a \in Seq(S) /\ b \in Seq(S) /\ wire = a \o b
    BY Splitting
  <2>3. receiveQueue' = receiveQueue \o a /\ wire' = b
    BY <2>1
  <2> HIDE DEF a, b
  <2>4. receiveQueue \o a \in Seq(S)
    BY <2>2, ConcatProperties
  <2>5. (receiveQueue \o a) \o b = receiveQueue \o (a \o b)
    BY <2>2, ConcatAssociative
  <2> QED  BY <2>2, <2>3, <2>4, <2>5
<1>2. CASE ~connected
  BY <1>2 DEF Voice!Listen
<1> QED  BY <1>1, <1>2

LEMMA OnTheWireStep ==
  ASSUME TypeInv, OnTheWire, [WorkingNext]_allVars
  PROVE  OnTheWire'
<1>e. <<>> \in Seq(issued)
  BY EmptySeq
<1>1. CASE ControllerStep
  <2>1. UNCHANGED issued
    BY <1>1, AroundStep DEF ControllerStep, Around
  <2> QED  BY <1>1, <2>1 DEF ControllerStep, gatewayVars, OnTheWire
<1>2. CASE GatewayStep
  <2>0. issued' = issued
    BY <1>2 DEF GatewayStep, ownVars, audit
  <2>1. CASE Voice!Listen
    <3>1. wire' \in Seq(issued) /\ receiveQueue' \in Seq(issued)
      BY <2>1, ListenTypes DEF OnTheWire
    <3> QED  BY <2>0, <2>1, <3>1 DEF OnTheWire, Voice!Listen, Voice!database
  <2>2. CASE Voice!HandleRequest
    <3> DEFINE r == Head(receiveQueue)
    <3>1. receiveQueue # <<>> /\ receiveQueue' = Tail(receiveQueue) /\ wire' = wire
      BY <2>2 DEF Voice!HandleRequest, Voice!Popped
    <3>2. r \in issued /\ r = <<r[1], r[2]>>
      BY <3>1, FrontOfTheQueue
    <3>3. receiveQueue' \in Seq(issued)
      BY <3>1, HeadAndTail DEF OnTheWire
    <3>4. overdue' \subseteq overdue \cup {<<r[1], r[2]>>}
      BY <2>2 DEF Voice!HandleRequest, Voice!PathOf
    <3> QED  BY <2>0, <3>1, <3>2, <3>3, <3>4 DEF OnTheWire
  <2>3. CASE \/ Voice!Setup \/ Voice!ReceiveQueueEmpty \/ Voice!SendReply
             \/ Voice!SendQueueDone \/ Voice!Reconnect
             \/ Voice!DatabaseDown \/ Voice!DatabaseUp
    BY <2>0, <2>3
    DEF OnTheWire, Voice!Setup, Voice!ReceiveQueueEmpty, Voice!SendReply,
        Voice!SendQueueDone, Voice!Reconnect, Voice!DatabaseDown,
        Voice!DatabaseUp, Voice!database, Voice!esp
  <2>4. CASE Voice!Disconnect \/ Voice!Restart \/ Voice!SendReplyInVain
    BY <1>e, <2>0, <2>4
    DEF OnTheWire, Voice!Disconnect, Voice!Restart, Voice!SendReplyInVain,
        Voice!database, Voice!esp
  <2>5. ASSUME NEW p \in overdue, Voice!CarryOut(p) PROVE OnTheWire'
    BY <2>0, <2>5 DEF OnTheWire, Voice!CarryOut, Voice!esp
  <2> QED
    BY <1>2, <2>1, <2>2, <2>3, <2>4, <2>5, NothingIsRefused
    DEF GatewayStep, Voice!Gateway, Voice!Network
<1>3. ASSUME NEW a \in Appliance, NEW v \in BOOLEAN, AppRoute(a, v)
      PROVE  OnTheWire'
  <2>1. issued \subseteq issued' /\ UNCHANGED <<wire, receiveQueue, overdue>>
    BY <1>3 DEF AppRoute, AppCommand, Issue, gatewayVars
  <2>2. wire \in Seq(issued') /\ receiveQueue \in Seq(issued')
    BY <2>1, SeqOfMore DEF OnTheWire
  <2> QED  BY <2>1, <2>2 DEF OnTheWire
<1>4. ASSUME NEW a \in Appliance, NEW v \in BOOLEAN, VoiceRoute(a, v)
      PROVE  OnTheWire'
  <2>1. /\ issued' = issued \cup {<<a, v>>}
        /\ wire' = Append(wire, <<a, v>>)
        /\ UNCHANGED <<receiveQueue, overdue>>
    BY <1>4 DEF VoiceRoute, Issue, Voice!Ask, Voice!database, Voice!esp
  <2>2. wire \in Seq(issued') /\ receiveQueue \in Seq(issued')
    BY <2>1, SeqOfMore DEF OnTheWire
  <2>3. Append(wire, <<a, v>>) \in Seq(issued')
    BY <2>1, <2>2, AppendProperties
  <2> QED  BY <2>1, <2>2, <2>3 DEF OnTheWire
<1>5. CASE UNCHANGED allVars
  BY <1>5 DEF OnTheWire, allVars, gatewayVars, vars
<1> QED  BY <1>1, <1>2, <1>3, <1>4, <1>5 DEF WorkingNext

(* The invariant of both boards.                                           *)
SpaceInv == TypeInv /\ CommandInv /\ OnTheWire

LEMMA SpaceStep == SpaceInv /\ [WorkingNext]_allVars => SpaceInv'
<1> SUFFICES ASSUME SpaceInv, [WorkingNext]_allVars PROVE SpaceInv'
  OBVIOUS
<1>1. Joint /\ OnTheWire'
  BY JointStep, OnTheWireStep DEF SpaceInv
<1>2. TypeInv'
  BY <1>1, TypeStep, AsideType DEF SpaceInv, Joint
<1>3. CommandInv'
  BY <1>1, CommandStep, AsideCommands DEF SpaceInv, Joint
<1> QED  BY <1>1, <1>2, <1>3 DEF SpaceInv

LEMMA SpaceInit == WorkingInit => SpaceInv
<1> SUFFICES ASSUME WorkingInit PROVE SpaceInv
  OBVIOUS
<1>1. OnTheWire
  BY EmptySeq DEF WorkingInit, Voice!Init, OnTheWire
<1>2. Init
  BY DEF WorkingInit
<1> QED  BY <1>1, <1>2, TypeInit, CommandInit DEF SpaceInv

LEMMA SpaceAlways == WorkingSpec => []SpaceInv
BY SpaceInit, SpaceStep, PTL DEF WorkingSpec

(* No appliance is on that no user ever asked to be on, on whatever route  *)
(* the commands of others travel and whichever board fails.                *)
THEOREM NothingIsUnaskedOnEitherRoute == WorkingSpec => []NothingUnasked
<1>1. SpaceInv => NothingUnasked
  BY DEF SpaceInv, CommandInv
<1> QED  BY <1>1, SpaceAlways, PTL

(* What the controller promises of its door, its servo and its reports it  *)
(* keeps beside the gateway as well.                                       *)
LEMMA AsidePromises ==
  ASSUME DoorInv, ReportInv, NEW a, NEW v, Stored(a, v) \/ Asked(a, v)
  PROVE  DoorInv' /\ ReportInv'
<1>1. /\ UNCHANGED <<pc, k, want, servo, actual, door, status, clean, visitor>>
  <2>1. CASE Stored(a, v)
    BY <2>1 DEF Stored, ownVars, memory, room, audit
  <2>2. CASE Asked(a, v)
    BY <2>2 DEF Asked, Issue, rtdb, memory, room
  <2> QED  BY <2>1, <2>2
<1>2. DoorInv'
  BY <1>1 DEF DoorInv, DoorSafe
<1>3. ReportInv'
  BY <1>1 DEF ReportInv, Agrees
<1> QED  BY <1>2, <1>3

THEOREM ControllerKeepsItsPromises ==
    WorkingSpec => [](DoorSafe /\ IRWithoutServo /\ ReportAgrees)
<1> DEFINE Inv == DoorInv /\ ReportInv
<1>1. WorkingInit => Inv
  BY DoorInit, ReportInit DEF WorkingInit
<1>2. SpaceInv /\ Inv /\ [WorkingNext]_allVars => Inv'
  <2> SUFFICES ASSUME SpaceInv, Inv, [WorkingNext]_allVars PROVE Inv'
    OBVIOUS
  <2>1. Joint
    BY JointStep DEF SpaceInv
  <2>2. CASE [Next]_vars
    BY <2>2, DoorStep, ReportStep DEF SpaceInv
  <2>3. ASSUME NEW a \in Appliance, NEW v \in BOOLEAN, Stored(a, v) \/ Asked(a, v)
        PROVE  Inv'
    BY <2>3, AsidePromises
  <2> HIDE DEF Inv
  <2> QED  BY <2>1, <2>2, <2>3 DEF Joint
<1>3. Inv => DoorSafe /\ IRWithoutServo /\ ReportAgrees
  BY DEF DoorInv, ReportInv, IRWithoutServo, ReportAgrees, Agrees, Show
<1> HIDE DEF Inv
<1> QED  BY <1>1, <1>2, <1>3, SpaceAlways, PTL DEF WorkingSpec

(* The whole working space is a remote switch, too: what the gateway       *)
(* stores, at once or overdue, is a command.                               *)
THEOREM WorkingSpaceIsRemoteSwitch == WorkingSpec => IsRemoteSwitch
<1>1. WorkingInit => Room!Init
  BY DEF WorkingInit, Init, PowerOn, Room!Init
<1>2. SpaceInv /\ [WorkingNext]_allVars => [Room!Next]_switch
  <2> SUFFICES ASSUME SpaceInv, [WorkingNext]_allVars PROVE [Room!Next]_switch
    OBVIOUS
  <2>1. Joint
    BY JointStep DEF SpaceInv
  <2>2. CASE [Next]_vars
    BY <2>2, SwitchStep DEF SpaceInv
  <2>3. ASSUME NEW a \in Appliance, NEW v \in BOOLEAN, Stored(a, v)
        PROVE  [Room!Next]_switch
    <3>1. Room!Command(a, v)
      BY <2>3 DEF Stored, ownVars, memory, room, Room!Command
    <3> QED  BY <3>1 DEF Room!Next
  <2>4. ASSUME NEW a, NEW v, Asked(a, v) PROVE [Room!Next]_switch
    BY <2>4 DEF Asked, rtdb, memory, room, switch
  <2> QED  BY <2>1, <2>2, <2>3, <2>4 DEF Joint
<1> QED
  BY <1>1, <1>2, SpaceAlways, PTL
  DEF WorkingSpec, IsRemoteSwitch, Room!Spec, switch

(* The controller, the phone and the people around the gateway do nothing  *)
(* to it that its own specification does not have: all that is proved of   *)
(* the gateway alone holds of it in the working space.                     *)
THEOREM GatewayIsUndisturbed == WorkingSpec => Voice!Spec
<1>1. WorkingInit => Voice!Init
  BY DEF WorkingInit
<1>2. SpaceInv /\ [WorkingNext]_allVars => [Voice!Next]_(Voice!gvars)
  <2> SUFFICES ASSUME SpaceInv, [WorkingNext]_allVars
               PROVE  [Voice!Next]_(Voice!gvars)
    OBVIOUS
  <2> USE DEF Voice!gvars
  <2>1. CASE ControllerStep
    <3>1. UNCHANGED Voice!gateway
      BY <2>1 DEF ControllerStep, gatewayVars, Voice!gateway
    <3>2. \/ UNCHANGED control
          \/ \E a \in Appliance, v \in BOOLEAN :
                control' = [control EXCEPT ![a] = v]
      BY <2>1, AroundStep DEF ControllerStep, Around, SpaceInv
    <3> QED  BY <3>1, <3>2 DEF Voice!Next, Voice!OtherWrite
  <2>2. CASE GatewayStep
    BY <2>2 DEF GatewayStep, Voice!Next
  <2>3. ASSUME NEW a \in Appliance, NEW v \in BOOLEAN, AppRoute(a, v)
        PROVE  UNCHANGED Voice!gvars
    BY <2>3 DEF AppRoute, AppCommand, rtdb, gatewayVars, Voice!gateway
  <2>4. ASSUME NEW a \in Appliance, NEW v \in BOOLEAN, VoiceRoute(a, v)
        PROVE  Voice!Next
    BY <2>4 DEF VoiceRoute, Voice!Next, Voice!Request, Voice!Command
  <2>5. CASE UNCHANGED allVars
    BY <2>5 DEF allVars, vars, gatewayVars, Voice!gateway
  <2> QED  BY <2>1, <2>2, <2>3, <2>4, <2>5 DEF WorkingNext
<1> QED
  BY <1>1, <1>2, SpaceAlways, PTL DEF WorkingSpec, Voice!Spec
-----------------------------------------------------------------------------
(* The types of the gateway and of the audit.                              *)
Replies ==
    /\ sendQueue \in Seq(Voice!Reply)
    /\ answered \in Seq(Voice!Reply)
    /\ asked \in Seq(Voice!Request)
    /\ done \subseteq issued

Registers ==
    /\ at \in {"setup", "listen", "receive", "send"}
    /\ breaks \in 0 .. MaxBreaks
    /\ last \in [Route -> [Appliance -> BOOLEAN \cup {Absent}]]

LEMMA RepliesStep ==
  ASSUME SpaceInv, Replies, [WorkingNext]_allVars
  PROVE  Replies'
<1>i. TypeInv /\ OnTheWire
  BY DEF SpaceInv
<1>1. CASE ControllerStep
  <2>1. UNCHANGED issued
    BY <1>1, <1>i, AroundStep DEF ControllerStep, Around
  <2> QED  BY <1>1, <2>1 DEF ControllerStep, gatewayVars, Replies
<1>2. CASE GatewayStep
  <2>0. issued' = issued
    BY <1>2 DEF GatewayStep, ownVars, audit
  <2>1. CASE Voice!HandleRequest
    <3> DEFINE r == Head(receiveQueue)
    <3>1. receiveQueue # <<>> /\ UNCHANGED <<asked, answered>>
      BY <2>1 DEF Voice!HandleRequest, Voice!server
    <3>2. r \in issued /\ r \in Voice!Request
      BY <1>i, <3>1, FrontOfTheQueue DEF Voice!Request, Voice!Command
    <3>3. PICK o \in Voice!Outcome :
             /\ done' = IF o = "stored" THEN done \cup {r} ELSE done
             /\ sendQueue' = Append(sendQueue,
                              [request |-> r, success |-> Voice!Success(o)])
      BY <2>1 DEF Voice!HandleRequest, Voice!Push
    <3>4. [request |-> r, success |-> Voice!Success(o)] \in Voice!Reply
      BY <3>2 DEF Voice!Reply, Voice!Success
    <3>5. sendQueue' \in Seq(Voice!Reply)
      BY <3>3, <3>4, AppendProperties DEF Replies
    <3> QED  BY <2>0, <3>1, <3>2, <3>3, <3>5 DEF Replies
  <2>2. CASE Voice!SendReply
    <3>1. sendQueue # <<>> /\ UNCHANGED <<asked, done>>
      BY <2>2 DEF Voice!SendReply, Voice!MaySend, Voice!counters
    <3>2. Head(sendQueue) \in Voice!Reply /\ sendQueue' \in Seq(Voice!Reply)
      BY <2>2, <3>1, HeadAndTail DEF Replies, Voice!SendReply
    <3>3. answered' \in Seq(Voice!Reply)
      BY <2>2, <3>2, AppendProperties DEF Replies, Voice!SendReply
    <3> QED  BY <2>0, <3>1, <3>2, <3>3 DEF Replies
  <2>3. CASE Voice!SendReplyInVain
    <3>1. sendQueue' \in Seq(Voice!Reply)
      BY <2>3, HeadAndTail DEF Replies, Voice!SendReplyInVain, Voice!MaySend
    <3> QED  BY <2>0, <2>3, <3>1 DEF Replies, Voice!SendReplyInVain, Voice!server
  <2>4. CASE Voice!Restart
    BY <2>0, <2>4, EmptySeq DEF Replies, Voice!Restart, Voice!server
  <2>5. CASE \/ Voice!Setup \/ Voice!Listen \/ Voice!ReceiveQueueEmpty
             \/ Voice!SendQueueDone \/ Voice!Disconnect \/ Voice!Reconnect
             \/ Voice!DatabaseDown \/ Voice!DatabaseUp
    BY <2>0, <2>5
    DEF Replies, Voice!Setup, Voice!Listen, Voice!ReceiveQueueEmpty,
        Voice!SendQueueDone, Voice!Disconnect, Voice!Reconnect,
        Voice!DatabaseDown, Voice!DatabaseUp, Voice!server, Voice!esp,
        Voice!counters
  <2>6. ASSUME NEW p \in overdue, Voice!CarryOut(p) PROVE Replies'
    BY <2>0, <2>6, <1>i, OverduePut
    DEF Replies, Voice!CarryOut, Voice!server, Voice!esp
  <2> QED
    BY <1>2, <1>i, <2>1, <2>2, <2>3, <2>4, <2>5, <2>6, NothingIsRefused
    DEF GatewayStep, Voice!Gateway, Voice!Network
<1>3. ASSUME NEW a \in Appliance, NEW v \in BOOLEAN, AppRoute(a, v)
      PROVE  Replies'
  BY <1>3 DEF AppRoute, AppCommand, Issue, gatewayVars, Replies
<1>4. ASSUME NEW a \in Appliance, NEW v \in BOOLEAN, VoiceRoute(a, v)
      PROVE  Replies'
  <2>1. /\ asked' = Append(asked, <<a, v>>)
        /\ issued \subseteq issued'
        /\ UNCHANGED <<sendQueue, answered, done>>
    BY <1>4 DEF VoiceRoute, Issue, Voice!Ask, Voice!esp, Voice!counters
  <2>2. asked' \in Seq(Voice!Request)
    BY <2>1, AppendProperties DEF Replies, Voice!Request, Voice!Command
  <2> QED  BY <2>1, <2>2 DEF Replies
<1>5. CASE UNCHANGED allVars
  BY <1>5 DEF Replies, allVars, gatewayVars, vars
<1> QED  BY <1>1, <1>2, <1>3, <1>4, <1>5 DEF WorkingNext

LEMMA RegistersStep == Registers /\ [WorkingNext]_allVars => Registers'
<1> SUFFICES ASSUME Registers, [WorkingNext]_allVars PROVE Registers'
  OBVIOUS
<1> USE WorkingAssumption DEF Registers
<1>1. CASE ControllerStep
  BY <1>1 DEF ControllerStep, gatewayVars
<1>2. CASE GatewayStep
  <2>1. last' = last
    BY <1>2 DEF GatewayStep
  <2>2. at' \in {"setup", "listen", "receive", "send"}
    BY <1>2
    DEF GatewayStep, Voice!Gateway, Voice!Network, Voice!Setup, Voice!Listen,
        Voice!HandleRequest, Voice!RefuseRequest, Voice!ReceiveQueueEmpty,
        Voice!SendReply, Voice!SendQueueDone, Voice!Disconnect,
        Voice!Reconnect, Voice!DatabaseDown, Voice!DatabaseUp, Voice!Restart,
        Voice!SendReplyInVain, Voice!CarryOut, Voice!esp
  <2>3. breaks' \in 0 .. MaxBreaks
    BY <1>2
    DEF GatewayStep, Voice!Gateway, Voice!Network, Voice!Setup, Voice!Listen,
        Voice!HandleRequest, Voice!RefuseRequest, Voice!ReceiveQueueEmpty,
        Voice!SendReply, Voice!SendQueueDone, Voice!Disconnect,
        Voice!Reconnect, Voice!DatabaseDown, Voice!DatabaseUp, Voice!Restart,
        Voice!SendReplyInVain, Voice!CarryOut, Voice!Break, Voice!counters
  <2> QED  BY <2>1, <2>2, <2>3
<1>3. ASSUME NEW r \in Route, NEW a \in Appliance, NEW v \in BOOLEAN,
             Remember(r, a, v), UNCHANGED <<at, breaks>>
      PROVE  Registers'
  BY <1>3 DEF Remember
<1>4. ASSUME NEW a \in Appliance, NEW v \in BOOLEAN,
             AppRoute(a, v) \/ VoiceRoute(a, v)
      PROVE  Registers'
  BY <1>3, <1>4
  DEF AppRoute, VoiceRoute, Voice!Ask, Voice!esp, Voice!counters, gatewayVars,
      Route
<1>5. CASE UNCHANGED allVars
  BY <1>5 DEF allVars, gatewayVars
<1> QED  BY <1>1, <1>2, <1>4, <1>5 DEF WorkingNext

LinkTypes == connected \in BOOLEAN /\ reachable \in BOOLEAN

LEMMA LinkTypesStep == LinkTypes /\ [WorkingNext]_allVars => LinkTypes'
<1> SUFFICES ASSUME LinkTypes, [WorkingNext]_allVars PROVE LinkTypes'
  OBVIOUS
<1> USE DEF WorkingNext, ControllerStep, GatewayStep, AppRoute, VoiceRoute,
      allVars, gatewayVars, Voice!Gateway, Voice!Network, Voice!Setup,
      Voice!Listen, Voice!HandleRequest, Voice!RefuseRequest,
      Voice!ReceiveQueueEmpty, Voice!SendReply, Voice!SendQueueDone,
      Voice!Disconnect, Voice!Reconnect, Voice!DatabaseDown, Voice!DatabaseUp,
      Voice!Restart, Voice!SendReplyInVain, Voice!CarryOut, Voice!Ask,
      Voice!links
<1>1. connected' = connected \/ connected' = TRUE \/ connected' = FALSE
  BY Zenon
<1>2. reachable' = reachable \/ reachable' = TRUE \/ reachable' = FALSE
  BY Zenon
<1> QED  BY <1>1, <1>2, Zenon DEF LinkTypes

(* Every variable of both boards keeps its type.                           *)
THEOREM WorkingTypeCorrect == WorkingSpec => []WorkingTypeOK
<1> DEFINE Inv == SpaceInv /\ Replies /\ Registers /\ LinkTypes
<1>1. WorkingInit => Inv
  <2> SUFFICES ASSUME WorkingInit PROVE Inv
    OBVIOUS
  <2>1. Replies
    BY EmptySeq DEF WorkingInit, Voice!Init, Replies
  <2>2. Registers
    BY WorkingAssumption DEF WorkingInit, Voice!Init, Registers
  <2>3. LinkTypes
    BY Zenon DEF WorkingInit, Voice!Init, LinkTypes
  <2> QED  BY <2>1, <2>2, <2>3, SpaceInit
<1>2. Inv /\ [WorkingNext]_allVars => Inv'
  BY SpaceStep, RepliesStep, RegistersStep, LinkTypesStep
<1>3. Inv => WorkingTypeOK
  <2> SUFFICES ASSUME Inv PROVE WorkingTypeOK
    OBVIOUS
  <2>1. issued \subseteq Voice!Command /\ issued \subseteq Voice!Request /\ TypeOK
    BY IssuedAreSwitches DEF SpaceInv, TypeInv, Voice!Command, Voice!Request
  <2>2. wire \in Seq(Voice!Request) /\ receiveQueue \in Seq(Voice!Request)
    BY <2>1, SeqOfMore DEF SpaceInv, OnTheWire
  <2>3. overdue \subseteq Voice!Command /\ done \subseteq Voice!Command
    BY <2>1 DEF SpaceInv, OnTheWire, Replies
  <2>4. control \in [Appliance -> BOOLEAN \cup {Absent}]
    BY <2>1 DEF TypeOK
  <2>5. Voice!TypeOK
    BY <2>2, <2>3, <2>4 DEF Replies, Registers, LinkTypes, Voice!TypeOK
  <2> QED  BY <2>1, <2>5 DEF WorkingTypeOK, Registers
<1> HIDE DEF Inv
<1> QED  BY <1>1, <1>2, <1>3, PTL DEF WorkingSpec
-----------------------------------------------------------------------------
(* The commands that wait in a queue, and the last one for each appliance. *)
None(q, a) == \A i \in 1 .. Len(q) : q[i][1] # a

IsLatest(q, i) == \A j \in 1 .. Len(q) : i < j => q[j][1] # q[i][1]

Latest(q, f) ==
    \A i \in 1 .. Len(q) : IsLatest(q, i) => f[q[i][1]] = q[i][2]

\* A command that enters a queue is the last one for its appliance.
LEMMA LatestEnters ==
  ASSUME NEW q \in Seq(Switch), NEW f \in [Appliance -> BOOLEAN \cup {Absent}],
         Latest(q, f), NEW a \in Appliance, NEW v \in BOOLEAN
  PROVE  LET p == Append(q, <<a, v>>)
         IN  /\ Latest(p, [f EXCEPT ![a] = v])
             /\ ~None(p, a)
             /\ \A b \in Appliance : None(p, b) => None(q, b)
<1> DEFINE p == Append(q, <<a, v>>)
           n == Len(q)
<1>1. n \in Nat /\ Len(p) = n + 1 /\ p[n + 1] = <<a, v>>
  BY AppendProperties
<1>2. \A i \in 1 .. n : p[i] = q[i] /\ q[i] \in Switch
  BY ElementOfSeq, AppendProperties
<1> HIDE DEF p
<1>3. n + 1 \in 1 .. Len(p)
  BY <1>1
<1>4. ~None(p, a)
  BY <1>1, <1>3 DEF None
<1>5. \A b \in Appliance : None(p, b) => None(q, b)
  BY <1>1, <1>2 DEF None
<1>6. ASSUME NEW i \in 1 .. Len(p), IsLatest(p, i)
      PROVE  [f EXCEPT ![a] = v][p[i][1]] = p[i][2]
  <2>1. CASE i = n + 1
    BY <1>1, <2>1
  <2>2. CASE i # n + 1
    <3>1. i \in 1 .. n /\ p[i] = q[i] /\ i < n + 1
      BY <1>1, <1>2, <2>2
    <3>2. q[i][1] # a
      BY <1>1, <1>3, <1>6, <3>1 DEF IsLatest
    <3>3. IsLatest(q, i)
      BY <1>1, <1>2, <1>6, <3>1 DEF IsLatest
    <3>4. f[q[i][1]] = q[i][2] /\ q[i][1] \in Appliance
      BY <1>2, <3>1, <3>3 DEF Latest, Switch
    <3> QED  BY <3>1, <3>2, <3>4
  <2> QED  BY <2>1, <2>2
<1>7. Latest(p, [f EXCEPT ![a] = v])
  BY <1>6 DEF Latest
<1> QED  BY <1>4, <1>5, <1>7 DEF p

\* When a command leaves and none for its appliance is behind it, it was the
\* last one.
LEMMA LatestLeaves ==
  ASSUME NEW q \in Seq(Switch), NEW f, Latest(q, f), q # <<>>
  PROVE  LET c == Head(q)
         IN  /\ Latest(Tail(q), f)
             /\ None(Tail(q), c[1]) => f[c[1]] = c[2]
             /\ \A b \in Appliance \ {c[1]} : None(Tail(q), b) => None(q, b)
<1> DEFINE p == Tail(q)
           n == Len(q)
<1>1. /\ n \in Nat \ {0} /\ Len(p) = n - 1 /\ Head(q) = q[1]
      /\ \A i \in 1 .. n - 1 : p[i] = q[i + 1]
  BY EmptySeq, HeadTailProperties
<1> HIDE DEF p
<1>2. ASSUME NEW i \in 1 .. n, i # 1
      PROVE  i - 1 \in 1 .. Len(p) /\ p[i - 1] = q[i]
  <2>1. i - 1 \in 1 .. n - 1 /\ (i - 1) + 1 = i
    BY <1>1, <1>2
  <2> QED  BY <1>1, <2>1
<1>3. Latest(p, f)
  <2> SUFFICES ASSUME NEW i \in 1 .. Len(p), IsLatest(p, i)
               PROVE  f[p[i][1]] = p[i][2]
    BY DEF Latest
  <2>1. i + 1 \in 1 .. n /\ p[i] = q[i + 1]
    BY <1>1
  <2>2. ASSUME NEW j \in 1 .. n, i + 1 < j PROVE q[j][1] # q[i + 1][1]
    <3>1. j - 1 \in 1 .. Len(p) /\ p[j - 1] = q[j] /\ i < j - 1
      BY <1>1, <1>2, <2>2
    <3> QED  BY <2>1, <3>1 DEF IsLatest
  <2>3. IsLatest(q, i + 1)
    BY <2>2 DEF IsLatest
  <2> QED  BY <2>1, <2>3 DEF Latest
<1>4. ASSUME None(p, q[1][1]) PROVE f[q[1][1]] = q[1][2]
  <2>1. 1 \in 1 .. n
    BY <1>1
  <2>2. ASSUME NEW j \in 1 .. n, 1 < j PROVE q[j][1] # q[1][1]
    BY <1>2, <1>4, <2>2 DEF None
  <2>3. IsLatest(q, 1)
    BY <2>2 DEF IsLatest
  <2> QED  BY <2>1, <2>3 DEF Latest
<1>5. ASSUME NEW b, b # q[1][1], None(p, b) PROVE None(q, b)
  <2>1. ASSUME NEW i \in 1 .. n PROVE q[i][1] # b
    BY <1>2, <1>5 DEF None
  <2> QED  BY <2>1 DEF None
<1> QED  BY <1>1, <1>3, <1>4, <1>5 DEF p
-----------------------------------------------------------------------------
(* Nobody is cut off and no put is overdue.                                *)
Quiet == /\ online = TRUE /\ connected = TRUE /\ reachable = TRUE
         /\ overdue = {} /\ late.control = {}

VoiceQueue == receiveQueue \o wire

\* Nothing moves on either route.
Nothing == UNCHANGED <<control, last, inbox, VoiceQueue>>

\* The front command of a route is stored.
Stores(c) == control' = [control EXCEPT ![c[1]] = c[2]] /\ UNCHANGED last

AppStores ==
    /\ inbox # <<>> /\ inbox' = Tail(inbox) /\ UNCHANGED VoiceQueue
    /\ Stores(Head(inbox))

VoiceStores ==
    /\ VoiceQueue # <<>> /\ VoiceQueue' = Tail(VoiceQueue) /\ UNCHANGED inbox
    /\ Stores(Head(VoiceQueue))

\* A command is given on a route.
AppEnters(a, v) ==
    /\ inbox' = Append(inbox, <<a, v>>) /\ UNCHANGED <<control, VoiceQueue>>
    /\ Remember("app", a, v)

VoiceEnters(a, v) ==
    /\ VoiceQueue' = Append(VoiceQueue, <<a, v>>)
    /\ UNCHANGED <<control, inbox>>
    /\ Remember("voice", a, v)

Traffic ==
    \/ Nothing \/ AppStores \/ VoiceStores
    \/ \E a \in Appliance, v \in BOOLEAN : AppEnters(a, v) \/ VoiceEnters(a, v)

\* What failed stays failed.
LEMMA DisturbanceStays ==
  ASSUME TypeInv, Registers, [WorkingNext]_allVars, Undisturbed'
  PROVE  Undisturbed /\ UNCHANGED <<faults, breaks>>
<1>t. faults \in Nat /\ breaks \in Nat
  BY ControllerAssumption, WorkingAssumption
  DEF TypeInv, TypeOK, Registers
<1>1. faults' = faults \/ faults' = faults + 1
  <2>1. CASE ControllerStep
    <3>1. Around
      BY <2>1 DEF ControllerStep, Around
    <3> QED
      BY <3>1
      DEF Around, Sketch, Reset, LinkDown, LinkUp, CarryOut, Book,
          CarryOutControl, CarryOutStatus, CarryOutDoor,
          SetupWIFI, SetupDISPLAY, SetupMISC, BlynkBegin, SetupNTP, NoCard,
          RfidDOOR, RfidPermitted, RfidDenied, PostDoor, Unlock, Lock, DhtOLED,
          GetCheckIO, ReadTime, BlynkWrite, BlynkIdle, GetDatabaseControl,
          ControlAPP, ControlSkipped, DriveLamp, Report, SendIR, rest, audit
  <2>2. CASE GatewayStep
    BY <2>2 DEF GatewayStep, ownVars, audit
  <2>3. ASSUME NEW a \in Appliance, NEW v \in BOOLEAN,
               AppRoute(a, v) \/ VoiceRoute(a, v)
        PROVE  faults' = faults
    BY <2>3 DEF AppRoute, AppCommand, VoiceRoute
  <2>4. CASE UNCHANGED allVars
    BY <2>4 DEF allVars, vars
  <2> QED  BY <2>1, <2>2, <2>3, <2>4 DEF WorkingNext
<1>2. breaks' = breaks \/ breaks' = breaks + 1
  <2>1. CASE GatewayStep
    BY <2>1
    DEF GatewayStep, Voice!Gateway, Voice!Network, Voice!Setup, Voice!Listen,
        Voice!HandleRequest, Voice!RefuseRequest, Voice!ReceiveQueueEmpty,
        Voice!SendReply, Voice!SendQueueDone, Voice!Disconnect,
        Voice!Reconnect, Voice!DatabaseDown, Voice!DatabaseUp, Voice!Restart,
        Voice!SendReplyInVain, Voice!CarryOut, Voice!Break, Voice!counters
  <2> QED
    BY <2>1
    DEF WorkingNext, ControllerStep, AppRoute, VoiceRoute, Voice!Ask,
        Voice!counters, gatewayVars, allVars
<1> QED  BY <1>t, <1>1, <1>2 DEF Undisturbed

(* While nothing fails, a step is one of the five of Traffic.              *)
LEMMA ControllerTraffic ==
  ASSUME TypeInv, Quiet, ControllerStep, faults' = faults
  PROVE  (Nothing \/ AppStores) /\ Quiet'
<1>t. /\ late \in [control : SUBSET Switch, status : SUBSET Shown,
                   door : SUBSET Message]
      /\ faults \in Nat
  BY ControllerAssumption DEF TypeInv, TypeOK
<1>0. UNCHANGED <<last, receiveQueue, wire, overdue, connected, reachable>>
  BY DEF ControllerStep, gatewayVars
<1>v. UNCHANGED VoiceQueue
  BY <1>0 DEF VoiceQueue
<1> DEFINE Still == /\ UNCHANGED <<control, inbox>>
                    /\ online' = online /\ late'.control = late.control
<1>s. ASSUME Still PROVE Nothing /\ Quiet'
  BY <1>0, <1>v, <1>s DEF Nothing, Quiet
<1>1. CASE \/ SetupWIFI \/ SetupDISPLAY \/ SetupMISC \/ BlynkBegin \/ SetupNTP
           \/ NoCard \/ DhtOLED \/ ControlSkipped \/ Unlock \/ Lock
           \/ GetCheckIO \/ BlynkIdle \/ GetDatabaseControl \/ ControlAPP
           \/ DriveLamp \/ SendIR
  <2>1. UNCHANGED <<control, inbox, online, late>>
    BY <1>1
    DEF SetupWIFI, SetupDISPLAY, SetupMISC, BlynkBegin, SetupNTP, NoCard,
        DhtOLED, ControlSkipped, Unlock, Lock, GetCheckIO, ReadTime,
        BlynkIdle, GetDatabaseControl, ControlAPP, DriveLamp, SendIR, rest,
        rtdb, link
  <2> QED  BY <1>s, <2>1
<1>2. ASSUME NEW card, RfidDOOR(card) PROVE Still
  BY <1>2 DEF RfidDOOR, rtdb, link
<1>3. CASE RfidPermitted \/ RfidDenied \/ Report
  BY <1>s, <1>t, <1>3
  DEF RfidPermitted, RfidDenied, PostDoor, Report, Delayed
<1>4. CASE BlynkWrite
  <2>1. Outcome = {"stored"}
    BY DEF Quiet, Outcome
  <2>2. /\ inbox # <<>> /\ inbox' = Tail(inbox)
        /\ control' = [control EXCEPT ![Head(inbox)[1]] = Head(inbox)[2]]
        /\ late' = late /\ online' = online
    BY <1>4, <2>1 DEF BlynkWrite, PathOf, Delayed
  <2> QED  BY <1>0, <1>v, <2>2 DEF AppStores, Stores, Quiet
<1>5. CASE Reset \/ LinkDown
  BY <1>t, <1>5 DEF Reset, LinkDown
<1>6. CASE LinkUp
  BY <1>6 DEF LinkUp, Quiet
<1>7. CASE CarryOut
  <2>1. \/ \E p \in late.status : CarryOutStatus(p)
        \/ \E message \in late.door : CarryOutDoor(message)
    BY <1>7 DEF CarryOut, Quiet
  <2>2. Still
    BY <1>t, <2>1 DEF CarryOutStatus, CarryOutDoor, memory
  <2> QED  BY <1>s, <2>2
<1>8. ASSUME NEW path, NEW t, Book(path, t) PROVE Still
  BY <1>8 DEF Book, memory, link
<1> QED
  BY <1>s, <1>1, <1>2, <1>3, <1>4, <1>5, <1>6, <1>7, <1>8
  DEF ControllerStep, Sketch

LEMMA GatewayTraffic ==
  ASSUME SpaceInv, Registers, Quiet, GatewayStep, breaks' = breaks
  PROVE  (Nothing \/ VoiceStores) /\ Quiet'
<1>t. breaks \in Nat /\ TypeInv /\ OnTheWire
  BY WorkingAssumption DEF Registers, SpaceInv
<1>w. wire \in Seq(Switch) /\ receiveQueue \in Seq(Switch)
  <2>1. issued \subseteq Switch
    BY <1>t DEF TypeInv, TypeOK
  <2> QED  BY <1>t, <2>1, SeqOfMore DEF OnTheWire
<1>0. UNCHANGED <<inbox, last, online, late>>
  BY DEF GatewayStep, ownVars, memory, link
<1> DEFINE Still == /\ UNCHANGED <<control, VoiceQueue>>
                    /\ UNCHANGED <<connected, reachable, overdue>>
<1>s. ASSUME Still PROVE Nothing /\ Quiet'
  BY <1>0, <1>s DEF Nothing, Quiet
<1>1. CASE \/ Voice!Setup \/ Voice!ReceiveQueueEmpty \/ Voice!SendReply
           \/ Voice!SendQueueDone
  <2>1. UNCHANGED <<control, receiveQueue, wire, connected, reachable, overdue>>
    BY <1>1
    DEF Voice!Setup, Voice!ReceiveQueueEmpty, Voice!SendReply,
        Voice!SendQueueDone, Voice!database, Voice!esp, Voice!links
  <2>2. Still
    BY <2>1 DEF VoiceQueue
  <2> QED  BY <1>s, <2>2
<1>2. CASE Voice!Listen
  <2>1. UNCHANGED VoiceQueue
    BY <1>2, <1>w, ListenTypes DEF VoiceQueue
  <2>2. UNCHANGED <<control, connected, reachable, overdue>>
    BY <1>2 DEF Voice!Listen, Voice!database, Voice!links
  <2> QED  BY <1>s, <2>1, <2>2
<1>3. CASE Voice!HandleRequest
  <2>1. Voice!Outcome = {"stored"}
    BY DEF Quiet, Voice!Outcome
  <2> DEFINE r == Head(receiveQueue)
  <2>2. /\ receiveQueue # <<>> /\ receiveQueue' = Tail(receiveQueue)
        /\ control' = [control EXCEPT ![r[1]] = r[2]]
        /\ UNCHANGED <<wire, connected, reachable, overdue>>
    BY <1>3, <2>1
    DEF Voice!HandleRequest, Voice!PathOf, Voice!Popped, Voice!links
  <2>3. /\ VoiceQueue # <<>> /\ Head(VoiceQueue) = r
        /\ Tail(VoiceQueue) = Tail(receiveQueue) \o wire
    BY <1>w, <2>2, HeadOfFirst DEF VoiceQueue
  <2>4. VoiceQueue' = Tail(VoiceQueue)
    BY <2>2, <2>3 DEF VoiceQueue
  <2>5. Stores(Head(VoiceQueue))
    BY <1>0, <2>2, <2>3 DEF Stores
  <2> QED  BY <1>0, <2>2, <2>3, <2>4, <2>5 DEF VoiceStores, Quiet
<1>4. CASE Voice!Reconnect \/ Voice!DatabaseUp
  BY <1>4 DEF Voice!Reconnect, Voice!DatabaseUp, Quiet
<1>5. CASE \/ Voice!Disconnect \/ Voice!DatabaseDown \/ Voice!Restart
           \/ Voice!SendReplyInVain
  BY <1>t, <1>5
  DEF Voice!Disconnect, Voice!DatabaseDown, Voice!Restart,
      Voice!SendReplyInVain, Voice!Break
<1>6. ~ \E p \in overdue : Voice!CarryOut(p)
  BY DEF Quiet
<1> QED
  BY <1>1, <1>2, <1>3, <1>4, <1>5, <1>6, <1>t, NothingIsRefused
  DEF GatewayStep, Voice!Gateway, Voice!Network, Still

LEMMA TrafficStep ==
  ASSUME SpaceInv, Registers, Quiet, [WorkingNext]_allVars,
         UNCHANGED <<faults, breaks>>
  PROVE  Traffic /\ Quiet'
<1>i. TypeInv /\ OnTheWire
  BY DEF SpaceInv
<1>1. CASE ControllerStep
  BY <1>1, <1>i, ControllerTraffic DEF Traffic
<1>2. CASE GatewayStep
  BY <1>2, GatewayTraffic DEF Traffic
<1>3. ASSUME NEW a \in Appliance, NEW v \in BOOLEAN, AppRoute(a, v)
      PROVE  AppEnters(a, v) /\ Quiet'
  <2>1. /\ UNCHANGED <<control, online, late, receiveQueue, wire, connected,
                       reachable, overdue>>
        /\ inbox' = Append(inbox, <<a, v>>)
        /\ Remember("app", a, v)
    BY <1>3 DEF AppRoute, AppCommand, rtdb, link, gatewayVars
  <2> QED  BY <2>1 DEF AppEnters, Quiet, VoiceQueue
<1>4. ASSUME NEW a \in Appliance, NEW v \in BOOLEAN, VoiceRoute(a, v)
      PROVE  VoiceEnters(a, v) /\ Quiet'
  <2>1. /\ UNCHANGED <<control, inbox, online, late, receiveQueue, connected,
                       reachable, overdue>>
        /\ wire' = Append(wire, <<a, v>>)
        /\ Remember("voice", a, v)
    BY <1>4
    DEF VoiceRoute, Voice!Ask, Voice!database, Voice!esp, Voice!links, memory,
        link
  <2>2. wire \in Seq(Switch) /\ receiveQueue \in Seq(Switch)
    <3>1. issued \subseteq Switch
      BY <1>i DEF TypeInv, TypeOK
    <3> QED  BY <1>i, <3>1, SeqOfMore DEF OnTheWire
  <2>3. <<a, v>> \in Switch
    BY DEF Switch
  <2>4. receiveQueue \o Append(wire, <<a, v>>)
           = Append(receiveQueue \o wire, <<a, v>>)
    BY <2>2, <2>3, AppendToSecond
  <2> QED  BY <2>1, <2>4 DEF VoiceEnters, Quiet, VoiceQueue
<1>5. CASE UNCHANGED allVars
  <2>1. UNCHANGED <<control, last, inbox, online, late, receiveQueue, wire,
                    connected, reachable, overdue>>
    BY <1>5 DEF allVars, vars, gatewayVars
  <2> QED  BY <2>1 DEF Traffic, Nothing, VoiceQueue, Quiet
<1> QED  BY <1>1, <1>2, <1>3, <1>4, <1>5 DEF WorkingNext, Traffic
-----------------------------------------------------------------------------
\* The last command given on one of the routes is stored, if there was one.
Kept(a) == \/ last["app"][a] = Absent /\ last["voice"][a] = Absent
           \/ last["app"][a] # Absent /\ control[a] = last["app"][a]
           \/ last["voice"][a] # Absent /\ control[a] = last["voice"][a]

KeptIfNone(a) == None(inbox, a) /\ None(VoiceQueue, a) => Kept(a)

(* On each route the last command that waits for an appliance is the one   *)
(* remembered there, and where none waits, one of those remembered is      *)
(* stored.                                                                 *)
LatestInv ==
    Undisturbed =>
        /\ Quiet
        /\ Latest(inbox, last["app"])
        /\ Latest(VoiceQueue, last["voice"])
        /\ \A a \in Appliance : KeptIfNone(a)

LEMMA QueueTypes ==
  ASSUME SpaceInv, Registers
  PROVE  /\ inbox \in Seq(Switch) /\ VoiceQueue \in Seq(Switch)
         /\ last \in [Route -> [Appliance -> BOOLEAN \cup {Absent}]]
         /\ last["app"] \in [Appliance -> BOOLEAN \cup {Absent}]
         /\ last["voice"] \in [Appliance -> BOOLEAN \cup {Absent}]
         /\ control \in [Appliance -> BOOLEAN \cup {Absent}]
<1>1. inbox \in Seq(Switch) /\ issued \subseteq Switch
      /\ control \in [Appliance -> BOOLEAN \cup {Absent}]
  BY DEF SpaceInv, TypeInv, TypeOK
<1>2. wire \in Seq(Switch) /\ receiveQueue \in Seq(Switch)
  BY <1>1, SeqOfMore DEF SpaceInv, OnTheWire
<1>3. VoiceQueue \in Seq(Switch)
  BY <1>2, ConcatProperties DEF VoiceQueue
<1> QED  BY <1>1, <1>3 DEF Registers, Route

\* A stored command that was the last one of its route.
LEMMA StoredIsKept ==
  ASSUME SpaceInv, Registers, NEW q \in Seq(Switch), q # <<>>,
         NEW r \in Route, Latest(q, last[r]), Stores(Head(q)),
         NEW a \in Appliance, None(Tail(q), a), None(q, a) => Kept(a)
  PROVE  Kept(a)'
<1> DEFINE c == Head(q)
<1>1. c \in Switch
  BY HeadAndTail
<1>2. c[1] \in Appliance /\ c[2] \in BOOLEAN /\ c[2] # Absent
  BY <1>1, ControllerAssumption DEF Switch
<1>3. /\ last' = last /\ control' = [control EXCEPT ![c[1]] = c[2]]
      /\ control \in [Appliance -> BOOLEAN \cup {Absent}]
  BY QueueTypes DEF Stores
<1> HIDE DEF c
<1>4. CASE a = c[1]
  <2>1. last[r][a] = c[2]
    BY <1>4, LatestLeaves DEF c
  <2>2. control'[a] = c[2]
    BY <1>2, <1>3, <1>4
  <2> QED  BY <1>2, <1>3, <2>1, <2>2 DEF Kept, Route
<1>5. CASE a # c[1]
  <2>1. None(q, a)
    BY <1>5, LatestLeaves DEF c
  <2>2. control'[a] = control[a]
    BY <1>2, <1>3, <1>5
  <2> QED  BY <1>3, <2>1, <2>2 DEF Kept
<1> QED  BY <1>4, <1>5

\* No command for an appliance is on a route if none waits in its queue.
LEMMA NoneOnEach ==
  ASSUME SpaceInv, NEW a
  PROVE  /\ NoneOnRoute("app", a) <=> None(inbox, a)
         /\ NoneOnRoute("voice", a) <=> None(VoiceQueue, a)
         /\ NoneOnTheWay(a) <=> None(inbox, a) /\ None(VoiceQueue, a)
<1>1. issued \subseteq Switch /\ inbox \in Seq(Switch)
  BY DEF SpaceInv, TypeInv, TypeOK
<1>2. wire \in Seq(Switch) /\ receiveQueue \in Seq(Switch)
  BY <1>1, SeqOfMore DEF SpaceInv, OnTheWire
<1>3. VoiceQueue \in Seq(Switch)
  BY <1>2, ConcatProperties DEF VoiceQueue
<1>4. DOMAIN inbox = 1 .. Len(inbox) /\ DOMAIN VoiceQueue = 1 .. Len(VoiceQueue)
  BY <1>1, <1>3, LenProperties
<1>5. OnRoute("app") = inbox /\ OnRoute("voice") = VoiceQueue
  BY DEF OnRoute, VoiceQueue
<1>6. NoneOnRoute("app", a) <=> None(inbox, a)
  BY <1>4, <1>5 DEF NoneOnRoute, None
<1>7. NoneOnRoute("voice", a) <=> None(VoiceQueue, a)
  BY <1>4, <1>5 DEF NoneOnRoute, None
<1> QED  BY <1>6, <1>7 DEF NoneOnTheWay, Route

\* What is forgotten of a route has no command in its queue.
LEMMA LatestStays ==
  ASSUME NEW q \in Seq(Switch), NEW f, NEW g, Latest(q, f),
         \A b \in Appliance : ~None(q, b) => g[b] = f[b]
  PROVE  Latest(q, g)
<1> SUFFICES ASSUME NEW i \in 1 .. Len(q), IsLatest(q, i)
             PROVE  g[q[i][1]] = q[i][2]
  BY DEF Latest
<1>1. q[i] \in Switch
  BY ElementOfSeq
<1>2. q[i][1] \in Appliance /\ ~None(q, q[i][1])
  BY <1>1 DEF Switch, None
<1>3. f[q[i][1]] = q[i][2]
  BY DEF Latest
<1> QED  BY <1>2, <1>3

\* What a new command does to the last ones.
LEMMA RememberedAs ==
  ASSUME SpaceInv, Registers, NEW r \in Route, NEW a \in Appliance,
         NEW v \in BOOLEAN, Remember(r, a, v),
         NEW s \in Route, s # r, NEW q, NoneOnRoute(s, a) <=> None(q, a)
  PROVE  /\ last'[r] = [last[r] EXCEPT ![a] = v]
         /\ \A b \in Appliance \ {a} : last'[s][b] = last[s][b]
         /\ \A b \in Appliance : ~None(q, b) => last'[s][b] = last[s][b]
<1>1. /\ last[r] \in [Appliance -> BOOLEAN \cup {Absent}]
      /\ last[s] \in [Appliance -> BOOLEAN \cup {Absent}]
  BY DEF Registers
<1>2. /\ last'[r] = [last[r] EXCEPT ![a] = v]
      /\ last'[s] = [last[s] EXCEPT ![a] = IF NoneOnRoute(s, a) THEN Absent
                                           ELSE @]
  BY DEF Remember
<1> QED  BY <1>1, <1>2

LEMMA LatestStep ==
  ASSUME SpaceInv, Registers, LatestInv, [WorkingNext]_allVars
  PROVE  LatestInv'
<1> SUFFICES ASSUME Undisturbed' PROVE
        /\ Quiet'
        /\ Latest(inbox, last["app"])'
        /\ Latest(VoiceQueue, last["voice"])'
        /\ \A a \in Appliance : KeptIfNone(a)'
  BY DEF LatestInv
<1>1. Undisturbed /\ UNCHANGED <<faults, breaks>>
  BY DisturbanceStays DEF SpaceInv
<1>2. /\ Quiet
      /\ Latest(inbox, last["app"])
      /\ Latest(VoiceQueue, last["voice"])
      /\ \A a \in Appliance : KeptIfNone(a)
  BY <1>1 DEF LatestInv
<1>3. Traffic /\ Quiet'
  BY <1>1, <1>2, TrafficStep
<1>t. /\ inbox \in Seq(Switch) /\ VoiceQueue \in Seq(Switch)
      /\ last \in [Route -> [Appliance -> BOOLEAN \cup {Absent}]]
      /\ last["app"] \in [Appliance -> BOOLEAN \cup {Absent}]
      /\ last["voice"] \in [Appliance -> BOOLEAN \cup {Absent}]
  BY QueueTypes
<1>r. "app" \in Route /\ "voice" \in Route
  BY DEF Route
<1> DEFINE Goal == /\ Latest(inbox, last["app"])'
                   /\ Latest(VoiceQueue, last["voice"])'
                   /\ \A a \in Appliance : KeptIfNone(a)'
<1>4. CASE Nothing
  BY <1>2, <1>3, <1>4 DEF Nothing, Latest, IsLatest, KeptIfNone, None, Kept
<1>5. CASE AppStores
  <2>1. /\ inbox # <<>> /\ inbox' = Tail(inbox) /\ VoiceQueue' = VoiceQueue
        /\ last' = last /\ Stores(Head(inbox))
    BY <1>5 DEF AppStores, Stores
  <2>2. Latest(Tail(inbox), last["app"])
    BY <1>2, <1>t, <2>1, LatestLeaves
  <2>3. ASSUME NEW a \in Appliance PROVE KeptIfNone(a)'
    <3> SUFFICES ASSUME None(Tail(inbox), a), None(VoiceQueue, a) PROVE Kept(a)'
      BY <2>1 DEF KeptIfNone, None
    <3>1. None(inbox, a) => Kept(a)
      BY <1>2 DEF KeptIfNone
    <3> QED  BY <1>2, <1>t, <1>r, <2>1, <3>1, StoredIsKept
  <2> QED  BY <1>2, <1>3, <2>1, <2>2, <2>3 DEF Latest, IsLatest
<1>6. CASE VoiceStores
  <2>1. /\ VoiceQueue # <<>> /\ VoiceQueue' = Tail(VoiceQueue)
        /\ inbox' = inbox /\ last' = last /\ Stores(Head(VoiceQueue))
    BY <1>6 DEF VoiceStores, Stores
  <2>2. Latest(Tail(VoiceQueue), last["voice"])
    BY <1>2, <1>t, <2>1, LatestLeaves
  <2>3. ASSUME NEW a \in Appliance PROVE KeptIfNone(a)'
    <3> SUFFICES ASSUME None(Tail(VoiceQueue), a), None(inbox, a) PROVE Kept(a)'
      BY <2>1 DEF KeptIfNone, None
    <3>1. None(VoiceQueue, a) => Kept(a)
      BY <1>2 DEF KeptIfNone
    <3> QED  BY <1>2, <1>t, <1>r, <2>1, <3>1, StoredIsKept
  <2> QED  BY <1>2, <1>3, <2>1, <2>2, <2>3 DEF Latest, IsLatest
<1>7. ASSUME NEW a \in Appliance, NEW v \in BOOLEAN, AppEnters(a, v)
      PROVE  Goal
  <2> DEFINE p == Append(inbox, <<a, v>>)
             f == [last["app"] EXCEPT ![a] = v]
             g == last'["voice"]
  <2>1. /\ inbox' = p /\ VoiceQueue' = VoiceQueue /\ control' = control
        /\ Remember("app", a, v)
    BY <1>7 DEF AppEnters
  <2>2. /\ last'["app"] = f
        /\ \A b \in Appliance \ {a} : g[b] = last["voice"][b]
        /\ \A b \in Appliance : ~None(VoiceQueue, b) => g[b] = last["voice"][b]
    <3>1. NoneOnRoute("voice", a) <=> None(VoiceQueue, a)
      BY NoneOnEach
    <3>2. Remember("app", a, v) /\ "voice" # "app"
      BY <2>1
    <3> QED  BY <1>r, <3>1, <3>2, RememberedAs
  <2>3. /\ Latest(p, f) /\ ~None(p, a)
        /\ \A b \in Appliance : None(p, b) => None(inbox, b)
    BY <1>2, <1>t, LatestEnters
  <2>4. \A b \in Appliance \ {a} : f[b] = last["app"][b]
    BY <1>t
  <2> HIDE DEF p, f
  <2>5. ASSUME NEW b \in Appliance PROVE KeptIfNone(b)'
    <3> SUFFICES ASSUME None(p, b), None(VoiceQueue, b) PROVE Kept(b)'
      BY <2>1 DEF KeptIfNone, None
    <3>1. b # a /\ None(inbox, b)
      BY <2>3
    <3>2. Kept(b)
      BY <1>2, <3>1 DEF KeptIfNone
    <3> QED  BY <2>1, <2>2, <2>4, <3>1, <3>2 DEF Kept
  <2>6. Latest(VoiceQueue, g)
    <3> HIDE DEF g
    <3> QED  BY <1>2, <1>t, <2>2, LatestStays
  <2> QED  BY <2>1, <2>2, <2>3, <2>5, <2>6 DEF Latest, IsLatest
<1>8. ASSUME NEW a \in Appliance, NEW v \in BOOLEAN, VoiceEnters(a, v)
      PROVE  Goal
  <2> DEFINE p == Append(VoiceQueue, <<a, v>>)
             f == [last["voice"] EXCEPT ![a] = v]
             g == last'["app"]
  <2>1. /\ VoiceQueue' = p /\ inbox' = inbox /\ control' = control
        /\ Remember("voice", a, v)
    BY <1>8 DEF VoiceEnters
  <2>2. /\ last'["voice"] = f
        /\ \A b \in Appliance \ {a} : g[b] = last["app"][b]
        /\ \A b \in Appliance : ~None(inbox, b) => g[b] = last["app"][b]
    <3>1. NoneOnRoute("app", a) <=> None(inbox, a)
      BY NoneOnEach
    <3>2. Remember("voice", a, v) /\ "app" # "voice"
      BY <2>1
    <3> QED  BY <1>r, <3>1, <3>2, RememberedAs
  <2>3. /\ Latest(p, f) /\ ~None(p, a)
        /\ \A b \in Appliance : None(p, b) => None(VoiceQueue, b)
    BY <1>2, <1>t, LatestEnters
  <2>4. \A b \in Appliance \ {a} : f[b] = last["voice"][b]
    BY <1>t
  <2> HIDE DEF p, f
  <2>5. ASSUME NEW b \in Appliance PROVE KeptIfNone(b)'
    <3> SUFFICES ASSUME None(p, b), None(inbox, b) PROVE Kept(b)'
      BY <2>1 DEF KeptIfNone, None
    <3>1. b # a /\ None(VoiceQueue, b)
      BY <2>3
    <3>2. Kept(b)
      BY <1>2, <3>1 DEF KeptIfNone
    <3> QED  BY <2>1, <2>2, <2>4, <3>1, <3>2 DEF Kept
  <2>6. Latest(inbox, g)
    <3> HIDE DEF g
    <3> QED  BY <1>2, <1>t, <2>2, LatestStays
  <2> QED  BY <2>1, <2>2, <2>3, <2>5, <2>6 DEF Latest, IsLatest
<1> QED  BY <1>3, <1>4, <1>5, <1>6, <1>7, <1>8 DEF Traffic

LEMMA LatestInit == WorkingInit => LatestInv
<1> SUFFICES ASSUME WorkingInit PROVE LatestInv
  OBVIOUS
<1>1. inbox = <<>> /\ wire = <<>> /\ receiveQueue = <<>>
  BY DEF WorkingInit, Init, PowerOn, Voice!Init
<1>2. VoiceQueue = <<>>
  BY <1>1 DEF VoiceQueue
<1>3. Quiet
  BY DEF WorkingInit, Init, Voice!Init, Quiet
<1>4. \A a \in Appliance : Kept(a)
  BY DEF WorkingInit, Kept, Route
<1> QED
  BY <1>1, <1>2, <1>3, <1>4 DEF LatestInv, Latest, KeptIfNone

(* While nothing fails, /CONTROL holds the last command given, or one that *)
(* raced with it on the other route, as soon as no command for the         *)
(* appliance waits on either, for any number of commands and appliances:   *)
(* what was stored before cannot come back.                                *)
THEOREM TheLastCommandIsStored == WorkingSpec => []LastIsStored
<1> DEFINE Inv == SpaceInv /\ Registers /\ LatestInv
<1>1. WorkingInit => Registers
  BY WorkingAssumption DEF WorkingInit, Voice!Init, Registers
<1>2. WorkingInit => Inv
  BY <1>1, SpaceInit, LatestInit
<1>3. Inv /\ [WorkingNext]_allVars => Inv'
  BY SpaceStep, RegistersStep, LatestStep
<1>4. Inv => LastIsStored
  <2> SUFFICES ASSUME Inv, Undisturbed, NEW a \in Appliance, NoneOnTheWay(a)
               PROVE  \/ \A r \in Route : last[r][a] = Absent
                      \/ \E r \in Route : /\ last[r][a] # Absent
                                          /\ control[a] = last[r][a]
    BY DEF LastIsStored
  <2>1. Kept(a)
    BY NoneOnEach DEF LatestInv, KeptIfNone
  <2> QED  BY <2>1 DEF Kept, Route
<1> HIDE DEF Inv
<1> QED  BY <1>2, <1>3, <1>4, PTL DEF WorkingSpec
-----------------------------------------------------------------------------
\* While nothing fails, want follows control and actual follows want.
Follows(a) == /\ want'[a] = want[a] \/ want'[a] = control[a]
              /\ actual'[a] = actual[a] \/ actual'[a] = want[a]

LEMMA ControllerFollows ==
  ASSUME TypeInv, ControllerStep, faults' = faults, NEW a \in Appliance
  PROVE  Follows(a)
<1>t. /\ want \in [Appliance -> BOOLEAN] /\ actual \in [Appliance -> BOOLEAN]
      /\ faults \in Nat
  BY ControllerAssumption DEF TypeInv, TypeOK
<1>s. ASSUME UNCHANGED <<want, actual>> PROVE Follows(a)
  BY <1>s DEF Follows
<1>1. CASE \/ SetupWIFI \/ SetupDISPLAY \/ SetupMISC \/ BlynkBegin \/ SetupNTP
           \/ NoCard \/ DhtOLED \/ ControlSkipped \/ Unlock \/ Lock
           \/ GetCheckIO \/ BlynkWrite \/ BlynkIdle \/ ControlAPP
  BY <1>s, <1>1
  DEF SetupWIFI, SetupDISPLAY, SetupMISC, BlynkBegin, SetupNTP, NoCard,
      DhtOLED, ControlSkipped, Unlock, Lock, GetCheckIO, ReadTime,
      BlynkWrite, BlynkIdle, ControlAPP, rest, room
<1>2. CASE \/ RfidPermitted \/ RfidDenied \/ Report
           \/ \E card \in Strangers \cup {Key} : RfidDOOR(card)
  BY <1>s, <1>2 DEF RfidPermitted, RfidDenied, PostDoor, Report, RfidDOOR, room
<1>3. CASE GetDatabaseControl
  <2>1. /\ actual' = actual
        /\ want' = want \/ want' = [want EXCEPT ![k] = control[k]]
    BY <1>3 DEF GetDatabaseControl, ReadPath, room
  <2> QED  BY <1>t, <2>1 DEF Follows
<1>4. CASE DriveLamp \/ SendIR
  <2>1. /\ want' = want
        /\ \/ actual' = [actual EXCEPT ![k] = want[k]]
           \/ actual' = [actual EXCEPT ![IRApp] = want[IRApp]]
    BY <1>4 DEF DriveLamp, SendIR
  <2> QED  BY <1>t, <2>1 DEF Follows
<1>5. CASE Reset \/ LinkDown
  BY <1>t, <1>5 DEF Reset, LinkDown
<1>6. CASE LinkUp \/ CarryOut \/ \E path, t : Book(path, t)
  BY <1>s, <1>6
  DEF LinkUp, CarryOut, CarryOutControl, CarryOutStatus, CarryOutDoor, Book,
      memory, room
<1> QED
  BY <1>1, <1>2, <1>3, <1>4, <1>5, <1>6 DEF ControllerStep, Sketch

(* An appliance in the state that is stored for it stays there until the   *)
(* next command for it: no read, report or command for another appliance,  *)
(* on whichever board, moves it even for a moment.                         *)
THEOREM TheSettledStaySo == WorkingSpec => StaysSettled
<1> DEFINE Inv == SpaceInv /\ Registers /\ LatestInv
<1>1. WorkingInit => Registers
  BY WorkingAssumption DEF WorkingInit, Voice!Init, Registers
<1>2. WorkingInit => Inv
  BY <1>1, SpaceInit, LatestInit
<1>3. Inv /\ [WorkingNext]_allVars => Inv'
  BY SpaceStep, RegistersStep, LatestStep
<1>4. Inv /\ [WorkingNext]_allVars => SettledStays
  <2> SUFFICES ASSUME Inv, [WorkingNext]_allVars, Undisturbed',
                      NEW a \in Appliance, Settled(a), NoneOnTheWay(a)
               PROVE  Settled(a)'
    BY DEF SettledStays
  <2>1. /\ TypeInv /\ None(inbox, a) /\ None(VoiceQueue, a)
        /\ inbox \in Seq(Switch) /\ VoiceQueue \in Seq(Switch)
        /\ control \in [Appliance -> BOOLEAN \cup {Absent}]
    BY NoneOnEach, QueueTypes DEF SpaceInv
  <2>2. Undisturbed /\ UNCHANGED <<faults, breaks>>
    BY <2>1, DisturbanceStays
  <2>3. Traffic
    BY <2>2, TrafficStep DEF LatestInv
  <2>4. control'[a] = control[a]
    <3>1. ASSUME NEW q \in Seq(Switch), q # <<>>, None(q, a), Stores(Head(q))
          PROVE  control'[a] = control[a]
      <4>1. Len(q) \in Nat \ {0} /\ Head(q) = q[1]
        BY <3>1, EmptySeq
      <4>2. Head(q)[1] # a
        BY <3>1, <4>1 DEF None
      <4> QED  BY <2>1, <3>1, <4>2 DEF Stores
    <3> QED
      BY <2>1, <2>3, <3>1
      DEF Traffic, Nothing, AppStores, VoiceStores, AppEnters, VoiceEnters
  <2>5. Follows(a)
    <3>1. CASE ControllerStep
      BY <2>1, <2>2, <3>1, ControllerFollows
    <3>2. CASE ~ControllerStep
      BY <3>2
      DEF WorkingNext, GatewayStep, ownVars, memory, room, AppRoute, AppCommand,
          VoiceRoute, allVars, vars, Follows
    <3> QED  BY <3>1, <3>2
  <2> QED  BY <2>4, <2>5 DEF Settled, Follows
<1> HIDE DEF Inv
<1> QED  BY <1>2, <1>3, <1>4, PTL DEF WorkingSpec, StaysSettled
=============================================================================
