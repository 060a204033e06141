---------------------------- MODULE RemoteSwitch ----------------------------
(***************************************************************************)
(* What the system promises its users: a set of switches that are commanded *)
(* from afar.  A command is stored, later latched by the room, later still *)
(* applied to the appliance; a power cut forgets what was latched and      *)
(* releases the appliances, except those that keep their state.            *)
(***************************************************************************)
CONSTANTS
    Appliance,
    Sticky,   \* appliances that keep their state over a power cut
    Absent    \* a switch nobody has commanded yet

VARIABLES
    control,  \* the command stored for each appliance
    want,     \* the command the room has latched
    actual    \* the state of the appliance

Init ==
    /\ control \in [Appliance -> BOOLEAN \cup {Absent}]
    /\ want = [a \in Appliance |-> FALSE]
    /\ actual = [a \in Appliance |-> FALSE]

Command(a, v) ==
    /\ control' = [control EXCEPT ![a] = v]
    /\ UNCHANGED <<want, actual>>

Latch(a) ==
    /\ control[a] \in BOOLEAN
    /\ want' = [want EXCEPT ![a] = control[a]]
    /\ UNCHANGED <<control, actual>>

Apply(a) ==
    /\ actual' = [actual EXCEPT ![a] = want[a]]
    /\ UNCHANGED <<control, want>>

PowerCut ==
    /\ want' = [a \in Appliance |-> FALSE]
    /\ actual' = [a \in Appliance |-> a \in Sticky /\ actual[a]]
    /\ UNCHANGED control

Next ==
    \/ \E a \in Appliance :
          \/ \E v \in BOOLEAN : Command(a, v)
          \/ Latch(a)
          \/ Apply(a)
    \/ PowerCut

Spec == Init /\ [][Next]_<<control, want, actual>>
=============================================================================
