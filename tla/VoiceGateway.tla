---------------------------- MODULE VoiceGateway ----------------------------
(***************************************************************************)
(* The ESP32 sketch FYP2_ESP32.ino as the voice assistant sees it: requests *)
(* of the SinricPro server arrive on a websocket, SinricPro.handle() calls *)
(* the power-state callback of the switch, the callback writes the command *)
(* to the database and the answer goes back through the send queue.        *)
(*                                                                         *)
(* energyMonitor() and Blynk.run() touch no state of this module.          *)
(***************************************************************************)
EXTENDS Naturals, Sequences

CONSTANTS
    Appliance,     \* the switches registered by setupSinricPro()
    MaxRequests,   \* bound: requests of the server in one behaviour
    MaxBreaks,     \* bound: failures and resets in one behaviour
    Absent         \* an empty database path

\* A request turns a switch on or off, or it is for a device or an action
\* that setupSinricPro() has registered nothing for.
Command == Appliance \X BOOLEAN
Unknown == <<Absent, Absent>>
Request == Command \cup {Unknown}
Reply   == [request : Request, success : BOOLEAN]

ASSUME GatewayAssumption ==
    /\ MaxRequests \in Nat
    /\ MaxBreaks \in Nat
    /\ Absent \notin BOOLEAN

VARIABLES
    control,        \* /CONTROL/<appliance> in the database
    \* The ESP32.
    at,             \* where the sketch is
    receiveQueue,   \* SinricPro.receiveQueue
    sendQueue,      \* SinricPro.sendQueue
    \* The network.
    connected,      \* the Wi-Fi and the websocket are up
    reachable,      \* the database answers, if the Wi-Fi is up
    wire,           \* requests sent by the server, not yet read
    overdue,        \* failed puts that the database may yet carry out
    \* The server, and what it was told.
    asked,          \* all requests sent, in order
    answered,       \* all replies received, in order
    \* Audit.
    done,           \* requests whose write the database has stored
    breaks          \* how many failures and resets happened

database == <<control, overdue>>
esp      == <<at, receiveQueue, sendQueue>>
server   == <<asked, answered>>
counters == <<done, breaks>>
links    == <<connected, reachable>>
gateway  == <<at, receiveQueue, sendQueue, connected, reachable, wire, overdue,
              asked, answered, done, breaks>>
gvars    == <<control, gateway>>

TypeOK ==
    /\ control \in [Appliance -> BOOLEAN \cup {Absent}]
    /\ at \in {"setup", "listen", "receive", "send"}
    /\ receiveQueue \in Seq(Request)
    /\ sendQueue \in Seq(Reply)
    /\ connected \in BOOLEAN
    /\ reachable \in BOOLEAN
    /\ wire \in Seq(Request)
    /\ overdue \subseteq Command
    /\ asked \in Seq(Request)
    /\ answered \in Seq(Reply)
    /\ done \subseteq Command
    /\ breaks \in 0 .. MaxBreaks

Init ==
    /\ control \in [Appliance -> BOOLEAN \cup {Absent}]
    /\ at = "setup"
    /\ receiveQueue = <<>>
    /\ sendQueue = <<>>
    /\ connected = TRUE
    /\ reachable = TRUE
    /\ wire = <<>>
    /\ overdue = {}
    /\ asked = <<>>
    /\ answered = <<>>
    /\ done = {}
    /\ breaks = 0
-----------------------------------------------------------------------------
\* setup() returns once the Wi-Fi is up.
Setup ==
    /\ at = "setup"
    /\ connected
    /\ at' = "listen"
    /\ UNCHANGED <<database, receiveQueue, sendQueue, links, wire, server,
                   counters>>

\* _websocketListener.handle() pushes what has arrived to the receive queue;
\* it is skipped while the Wi-Fi is down.
Listen ==
    /\ at = "listen"
    /\ IF connected
         THEN \E n \in 0 .. Len(wire) :
                /\ receiveQueue' = receiveQueue \o SubSeq(wire, 1, n)
                /\ wire' = SubSeq(wire, n + 1, Len(wire))
         ELSE UNCHANGED <<receiveQueue, wire>>
    /\ at' = "receive"
    /\ UNCHANGED <<database, sendQueue, links, server, counters>>

\* While the way to the database is bad a put of the callback is stored, or
\* lost, or it is carried out after the callback has returned.
Outcome == IF connected /\ reachable THEN {"stored"}
                                     ELSE {"stored", "lost", "late"}

\* The path written by the callback registered for a switch.
PathOfOther(a) == CHOOSE b \in Appliance : b # a   \* mutant: callbacks swapped
PathOf(a)      == a

\* onPowerState1, 2 and 3 return true whatever Firebase.setBool() returned.
Success(outcome) == TRUE

\* The reply is pushed to the send queue.
PushFront(q, r) == <<r>> \o q   \* mutant: the queue is a stack
\* mutant: the field for the success is never filled
PushBlank(q, r) == Append(q, [r EXCEPT !.success = Absent])
Push(q, r)      == Append(q, r)

NotPopped(q) == q   \* mutant: pop() is forgotten
Popped(q)    == Tail(q)

\* handleReceiveQueue() pops the front request and handleRequest() runs the
\* callback of its device.
HandleRequest ==
    /\ at = "receive"
    /\ receiveQueue # <<>>
    /\ Head(receiveQueue) # Unknown
    /\ LET r == Head(receiveQueue)
       IN  \E o \in Outcome :
             /\ control' = IF o = "stored"
                             THEN [control EXCEPT ![PathOf(r[1])] = r[2]]
                             ELSE control
             /\ done' = IF o = "stored" THEN done \cup {r} ELSE done
             /\ overdue' = IF o = "late"
                             THEN overdue \cup {<<PathOf(r[1]), r[2]>>}
                             ELSE overdue
             /\ sendQueue' = Push(sendQueue,
                                  [request |-> r, success |-> Success(o)])
    /\ receiveQueue' = Popped(receiveQueue)
    /\ UNCHANGED <<at, links, wire, server, breaks>>

\* No device has the deviceId, or its handler does not know the action: the
\* reply says so, and nothing is written.
RefuseRequest ==
    /\ at = "receive"
    /\ receiveQueue # <<>>
    /\ Head(receiveQueue) = Unknown
    /\ sendQueue' = Push(sendQueue, [request |-> Unknown, success |-> FALSE])
    /\ receiveQueue' = Popped(receiveQueue)
    /\ UNCHANGED <<database, at, links, wire, server, counters>>

ReceiveQueueEmpty ==
    /\ at = "receive"
    /\ receiveQueue = <<>>
    /\ at' = "send"
    /\ UNCHANGED <<database, receiveQueue, sendQueue, links, wire, server,
                   counters>>

\* handleSendQueue() returns early while the websocket is not connected; the
\* time it also waits for came with the first request.
MaySendAtOnce == ~connected /\ sendQueue # <<>>   \* mutant: test inverted
MaySend       == connected /\ sendQueue # <<>>

SendReply ==
    /\ at = "send"
    /\ MaySend
    /\ answered' = Append(answered, Head(sendQueue))
    /\ sendQueue' = Tail(sendQueue)
    /\ UNCHANGED <<database, at, receiveQueue, links, wire, asked, counters>>

Break == breaks < MaxBreaks /\ breaks' = breaks + 1

\* The link is dead but the websocket does not know it yet.
SendReplyInVain ==
    /\ at = "send"
    /\ MaySend
    /\ sendQueue' = Tail(sendQueue)
    /\ Break
    /\ connected' = FALSE
    /\ wire' = <<>>
    /\ UNCHANGED <<database, at, receiveQueue, reachable, server, done>>

SendQueueDone ==
    /\ at = "send"
    /\ ~MaySend
    /\ at' = "listen"
    /\ UNCHANGED <<database, receiveQueue, sendQueue, links, wire, server,
                   counters>>

Gateway ==
    \/ Setup \/ Listen \/ HandleRequest \/ RefuseRequest \/ ReceiveQueueEmpty
    \/ SendReply \/ SendQueueDone
-----------------------------------------------------------------------------
\* The voice assistant asks for a switch to be turned on or off.
Ask(r) ==
    /\ connected
    /\ Len(asked) < MaxRequests
    /\ asked' = Append(asked, r)
    /\ wire' = Append(wire, r)
    /\ UNCHANGED <<database, esp, links, answered, counters>>

\* Another client of the database writes.
OtherWrite(a, v) ==
    /\ control' = [control EXCEPT ![a] = v]
    /\ UNCHANGED gateway

\* What was still in the socket is gone with it; the queues are not.
Disconnect ==
    /\ connected
    /\ Break
    /\ connected' = FALSE
    /\ wire' = <<>>
    /\ UNCHANGED <<database, esp, reachable, server, done>>

\* The database carries out a put the sketch has given up on, at any time.
CarryOut(p) ==
    /\ overdue' = overdue \ {p}
    /\ control' = [control EXCEPT ![p[1]] = p[2]]
    /\ done' = done \cup {p}
    /\ UNCHANGED <<esp, links, wire, server, breaks>>

Reconnect ==
    /\ ~connected
    /\ connected' = TRUE
    /\ UNCHANGED <<database, esp, reachable, wire, server, counters>>

\* The database server fails by itself; the sketch does not look.
DatabaseDown ==
    /\ reachable
    /\ Break
    /\ reachable' = FALSE
    /\ UNCHANGED <<database, esp, connected, wire, server, done>>

DatabaseUp ==
    /\ ~reachable
    /\ reachable' = TRUE
    /\ UNCHANGED <<database, esp, connected, wire, server, counters>>

Restart ==
    /\ Break
    /\ at' = "setup"
    /\ receiveQueue' = <<>>
    /\ sendQueue' = <<>>
    /\ wire' = <<>>
    /\ UNCHANGED <<database, links, server, done>>

Network ==
    \/ Disconnect \/ Reconnect \/ DatabaseDown \/ DatabaseUp
    \/ Restart \/ SendReplyInVain
    \/ \E p \in overdue : CarryOut(p)

Next ==
    \/ Gateway
    \/ Network
    \/ \E r \in Request : Ask(r)
    \/ \E a \in Appliance, v \in BOOLEAN : OtherWrite(a, v)

Spec == Init /\ [][Next]_gvars

(* The processor keeps running.  The websocket loop reads what the socket  *)
(* holds when it is called, so that it does not skip a request for ever.   *)
Fairness ==
    /\ WF_gvars(Gateway)
    /\ SF_gvars(Listen /\ wire' # wire)

FairSpec == Spec /\ Fairness
-----------------------------------------------------------------------------
RequestsOf(q) == [i \in DOMAIN q |-> q[i].request]

(* Every request is answered once and in order: as long as nothing         *)
(* broke, the answers, the replies still queued, the requests not yet    *)
(* handled and those still on the wire make up what was asked.             *)
AnsweredInOrder ==
    breaks = 0 =>
        RequestsOf(answered) \o RequestsOf(sendQueue) \o receiveQueue \o wire
            = asked

(* No loss of the link or reset makes the gateway answer a request twice,  *)
(* answer one that was not asked, or overtake: the answers, followed by    *)
(* what is queued, are asked requests in the order they were asked.        *)
IsSubsequence(s, t) ==
    \E f \in [DOMAIN s -> DOMAIN t] :
        /\ \A i, j \in DOMAIN s : i < j => f[i] < f[j]
        /\ \A i \in DOMAIN s : s[i] = t[f[i]]

NeverTwice ==
    IsSubsequence(RequestsOf(answered) \o RequestsOf(sendQueue)
                      \o receiveQueue \o wire,
                  asked)

(* PowerStateController.h: the callback returns false when the request was *)
(* not handled properly.  A reply that reports success is for a command    *)
(* the database has stored.                                                *)
SuccessMeansStored ==
    \A i \in DOMAIN answered :
        answered[i].success => answered[i].request \in done

(* Once the websocket stays up, every request still on the wire or in a    *)
(* queue is answered, whether the database can be reached or not: the      *)
(* queues run empty.                                                       *)
EveryRequestAnswered ==
    <>[]connected => <>[](wire = <<>> /\ receiveQueue = <<>> /\ sendQueue = <<>>)
=============================================================================
