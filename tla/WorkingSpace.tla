---------------------------- MODULE WorkingSpace ----------------------------
(***************************************************************************)
(* The whole working space: the room controller and the voice gateway run  *)
(* side by side, know nothing of each other and meet in /CONTROL of the    *)
(* real-time database.  A user can reach an appliance on two routes, with  *)
(* the Blynk app through the controller and by voice through the gateway.  *)
(***************************************************************************)
EXTENDS RoomController

CONSTANT MaxRequests, MaxBreaks

ASSUME WorkingAssumption == MaxRequests \in Nat /\ MaxBreaks \in Nat

VARIABLES
    at, receiveQueue, sendQueue, connected, reachable, wire, overdue, asked,
    answered, done, breaks,
    last   \* audit: the last command of each route for each appliance, those
           \* that were stored before a later one was given left out

Voice == INSTANCE VoiceGateway

Route == {"app", "voice"}

gatewayVars == <<at, receiveQueue, sendQueue, connected, reachable, wire,
                 overdue, asked, answered, done, breaks>>
ownVars == <<status, doorStatus, booked, memory, room, link, audit>>
allVars == <<vars, gatewayVars, last>>

WorkingTypeOK ==
    /\ TypeOK
    /\ Voice!TypeOK
    /\ last \in [Route -> [Appliance -> BOOLEAN \cup {Absent}]]

WorkingInit ==
    /\ Init
    /\ Voice!Init
    /\ last = [r \in Route |-> [a \in Appliance |-> Absent]]

\* The commands that are on their way to the database on a route, in order.
OnRoute(r) == IF r = "app" THEN inbox ELSE receiveQueue \o wire

NoneOnRoute(r, a) == \A i \in DOMAIN OnRoute(r) : OnRoute(r)[i][1] # a

\* A command that comes when none waits on the other route is later than all
\* that was given there; those that do wait there race with it.
Remember(route, a, v) ==
    last' = [r \in Route |->
               [last[r] EXCEPT ![a] = IF r = route THEN v
                                      ELSE IF NoneOnRoute(r, a) THEN Absent
                                      ELSE @]]

ControllerStep ==
    /\ \/ Sketch \/ Reset \/ LinkDown \/ LinkUp \/ CarryOut
       \/ \E path \in {"CHECKOUT", "CHECKIN"}, t \in BookedTimes : Book(path, t)
    /\ UNCHANGED <<gatewayVars, last>>

GatewayStep ==
    /\ Voice!Gateway \/ Voice!Network
    /\ UNCHANGED <<ownVars, last>>

AppRoute(a, v) ==
    /\ AppCommand(a, v)
    /\ Remember("app", a, v)
    /\ UNCHANGED gatewayVars

VoiceRoute(a, v) ==
    /\ Voice!Ask(<<a, v>>)
    /\ Issue(a, v)
    /\ Remember("voice", a, v)
    /\ UNCHANGED <<status, doorStatus, booked, memory, room, link, visitor,
                   clean, faults>>

WorkingNext ==
    \/ ControllerStep
    \/ GatewayStep
    \/ \E a \in Appliance, v \in BOOLEAN : AppRoute(a, v) \/ VoiceRoute(a, v)

WorkingSpec == WorkingInit /\ [][WorkingNext]_allVars

(* Two processors that keep running, and no more: neither waits for the    *)
(* other.  The strong conditions are those of the two sketches.            *)
WorkingFairness ==
    /\ WF_allVars(Sketch /\ UNCHANGED <<gatewayVars, last>>)
    /\ SF_allVars(ControlAPP /\ UNCHANGED <<gatewayVars, last>>)
    /\ WF_allVars(Voice!Gateway /\ UNCHANGED <<ownVars, last>>)
    /\ SF_allVars(/\ Voice!Listen /\ wire' # wire
                  /\ UNCHANGED <<ownVars, last>>)

FairWorkingSpec == WorkingSpec /\ WorkingFairness
-----------------------------------------------------------------------------
(* The two routes do not lose the users' intent to each other: if no link  *)
(* fails and no board is reset, each appliance that was commanded ends up  *)
(* in the state that was asked for last, unless setup() of the controller  *)
(* stopped.  Only if commands of both routes were on their way together    *)
(* may the earlier one win, as the boards do not tell which is later.      *)
Undisturbed == faults = 0 /\ breaks = 0

LastCommandWins ==
    []Undisturbed =>
        \A a \in Appliance :
            <>[](\/ Hung
                 \/ \A r \in Route : last[r][a] = Absent
                 \/ \E r \in Route : actual[a] = last[r][a])

NoneOnTheWay(a) == \A r \in Route : NoneOnRoute(r, a)

(* The same for the database alone, and at once: whenever no command for   *)
(* an appliance is on its way, /CONTROL holds the last one given, or one   *)
(* that raced with it on the other route, although the two boards store in *)
(* any order what they have queued.                                        *)
LastIsStored ==
    Undisturbed =>
        \A a \in Appliance :
            NoneOnTheWay(a) =>
                \/ \A r \in Route : last[r][a] = Absent
                \/ \E r \in Route : last[r][a] # Absent /\ control[a] = last[r][a]

(* An appliance that has got there stays there: until the next command for *)
(* it nothing that the boards do moves it, not even for a moment.          *)
Settled(a) ==
    /\ control[a] \in BOOLEAN
    /\ want[a] = control[a]
    /\ actual[a] = control[a]

SettledStays ==
    \A a \in Appliance :
        Settled(a) /\ NoneOnTheWay(a) /\ Undisturbed' => Settled(a)'

StaysSettled == [][SettledStays]_allVars
=============================================================================
