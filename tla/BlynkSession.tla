----------------------------- MODULE BlynkSession -----------------------------
(***************************************************************************)
(* BlynkProtocol.h as the room controller uses it: the session with the    *)
(* Blynk server, from Blynk.begin() through login, heartbeat, loss and     *)
(* reconnection.                                                           *)
(*                                                                         *)
(* The sketch calls Blynk.run() once or more in a pass of its loop; in     *)
(* between it may be away for as long as MaxPass.  run() first handles all *)
(* that was received (ProcessInput), then looks at the clock (the actions  *)
(* with Checking): every action is a stretch of run() in which no time has *)
(* to pass.  A sendCmd() may have to wait for a fifteenth of a second and  *)
(* calls run() meanwhile; that wait and the connection it may make belong  *)
(* to the pass in which they happen.  The clock starts over at W.          *)
(***************************************************************************)
EXTENDS Millis, Sequences, FiniteSets

CONSTANTS
    HeartBeat,   \* 1000 * BLYNK_HEARTBEAT (45000 in the sketch)
    Timeout,     \* BLYNK_TIMEOUT_MS (6000)
    Retry,       \* the pause before a new connection (5000)
    MaxPass,     \* the longest time between two looks at the clock in run(),
                 \* not counting the looks of a sendCmd() that waits
    MaxDelay,    \* how long the answer of a healthy server takes at most
    MaxFaults,   \* bound: outages and refusals in one behaviour
    MaxRx        \* bound: unread messages of the server

\* After so long a silence the session is given up.
Silence == HeartBeat + 3 * Timeout

ASSUME SessionAssumption ==
    /\ HeartBeat \in Nat \ {0}
    /\ Timeout \in Nat \ {0}
    /\ Retry \in Nat
    /\ MaxPass \in Nat \ {0}
    /\ MaxDelay \in Nat
    /\ MaxFaults \in Nat
    /\ MaxRx \in Nat
    /\ Silence + MaxPass + 1 < W
    /\ Retry < W

VARIABLES
    clock,     \* millis()
    state,     \* state: CONNECTING, CONNECTED or TOKEN_INVALID
    lastIn,    \* lastActivityIn
    lastOut,   \* lastActivityOut
    lastBeat,  \* lastHeartbeat and lastLogin, which share their memory
    booting,   \* Blynk.begin() has not returned yet
    started,   \* started of connect(), which begin() repeats
    sending,   \* the sendCmd() calls that wait until they may send
    dialing,   \* inside conn.connect()
    \* The connection.
    peer,      \* "none", "alive", or "shaky": may never be heard of again
    rx,        \* received and not read
    owed,      \* ages of the requests the server has not answered
    outage,    \* the server cannot be reached
    \* Audit.
    pass,      \* time since run() last looked at the clock, outside sendCmd()
    silent,    \* true time since a message was read in this session
    faults     \* how many outages and refusals happened

stamps == <<lastIn, lastOut, lastBeat>>
conn   == <<peer, rx, owed>>
caller == <<booting, started, sending>>
vars   == <<clock, state, lastIn, lastOut, lastBeat, booting, started, sending,
            dialing, peer, rx, owed, outage, pass, silent, faults>>

\* What the server sends: the answer to a request, its own ping, a command
\* for a pin, the address of another server, the news that the session is
\* not known (BLYNK_NOT_AUTHENTICATED), or a packet that is too big or of an
\* unknown type.
Unasked  == {"ping", "hardware", "redirect", "unknown", "invalid"}
Message  == Unasked \cup {"answer"}
Mistaken == {"redirect", "unknown", "invalid"}

\* Who may be inside sendCmd(): a Blynk.virtualWrite() of the sketch, and
\* above it in the stack the sendInfo() that follows a login.
Sender == {"write", "info"}

TypeOK ==
    /\ clock \in Time
    /\ state \in {"CONNECTING", "CONNECTED", "TOKEN_INVALID"}
    /\ lastIn \in Time
    /\ lastOut \in Time
    /\ lastBeat \in Time
    /\ booting \in BOOLEAN
    /\ started \in Time
    /\ sending \subseteq Sender
    /\ dialing \in BOOLEAN
    /\ peer \in {"none", "alive", "shaky"}
    /\ rx \in Seq(Message)
    /\ owed \subseteq 0 .. MaxDelay
    /\ outage \in BOOLEAN
    /\ pass \in 0 .. MaxPass
    /\ silent \in 0 .. Silence + MaxPass + 1
    /\ faults \in 0 .. MaxFaults

BeforeZero(t) == t - Retry   \* mutant: a signed difference
LongAgo(t)    == Before(t, Retry)

\* begin(): the session is as if it had been idle for a while, and connect()
\* is called for the first time.
Init ==
    /\ clock \in Time
    /\ state = "CONNECTING"
    /\ lastIn = LongAgo(clock)
    /\ lastOut = LongAgo(clock)
    /\ lastBeat = LongAgo(clock)
    /\ booting = TRUE
    /\ started = clock
    /\ sending = {}
    /\ dialing = FALSE
    /\ peer = "none"
    /\ rx = <<>>
    /\ owed = {}
    /\ outage = FALSE
    /\ pass = 0
    /\ silent = 0
    /\ faults = 0
-----------------------------------------------------------------------------
\* conn.disconnect(): what was received and not read is gone.
Disconnect == peer' = "none" /\ rx' = <<>> /\ owed' = {}

InternalReconnect == state' = "CONNECTING" /\ Disconnect

\* A write to a healthy connection succeeds, any other may fail, which ends
\* in internalReconnect().
WriteFails == peer = "shaky"

\* The loop of connect(), which begin() calls until it is connected.
ConnectAgain ==
    /\ booting
    /\ sending = {}
    /\ ~dialing
    /\ state # "CONNECTED"
    /\ Elapsed(clock, started) >= 3 * Timeout
    /\ Disconnect
    /\ state' = "CONNECTING"
    /\ started' = clock
    /\ UNCHANGED <<clock, stamps, booting, sending, dialing, outage, pass,
                   silent, faults>>

BootDone ==
    /\ booting
    /\ sending = {}
    /\ state = "CONNECTED"
    /\ booting' = FALSE
    /\ started' = 0
    /\ UNCHANGED <<clock, state, stamps, sending, dialing, conn, outage, pass,
                   silent, faults>>
-----------------------------------------------------------------------------
(* processInput(): one message.                                            *)

\* The login is granted, and sendInfo() waits until it may send, calling
\* run() while it waits; but the third run() in the stack returns at once, and
\* so a sendInfo() that is called above another one just writes.
LoggedIn ==
    /\ lastBeat' = clock
    /\ IF "info" \notin sending
         THEN /\ sending' = sending \cup {"info"}
              /\ state' = "CONNECTED"
              /\ rx' = Tail(rx)
              /\ UNCHANGED <<lastOut, peer, owed>>
         ELSE /\ UNCHANGED sending
              /\ \/ /\ state' = "CONNECTED"
                    /\ rx' = Tail(rx)
                    /\ lastOut' = clock
                    /\ UNCHANGED <<peer, owed>>
                 \/ WriteFails /\ InternalReconnect /\ UNCHANGED lastOut
    /\ UNCHANGED faults

\* The login is refused, which counts as a fault of the server.
Refused ==
    /\ faults < MaxFaults
    /\ faults' = faults + 1
    /\ state' \in {"CONNECTING", "TOKEN_INVALID"}
    /\ Disconnect
    /\ UNCHANGED <<lastBeat, lastOut, sending>>

ReadAnswer ==
    /\ Head(rx) = "answer"
    /\ IF state = "CONNECTING"
         THEN LoggedIn \/ Refused
         ELSE /\ rx' = Tail(rx)
              /\ UNCHANGED <<state, lastOut, lastBeat, sending, peer, owed, faults>>
    /\ lastIn' = clock

\* sendResponse() to a ping of the server.
ReadPing ==
    /\ Head(rx) = "ping"
    /\ \/ rx' = Tail(rx) /\ lastOut' = clock /\ UNCHANGED <<state, peer, owed>>
       \/ WriteFails /\ InternalReconnect /\ UNCHANGED lastOut
    /\ lastIn' = clock
    /\ UNCHANGED <<lastBeat, sending, faults>>

\* The handler of the pin is called, BLYNK_WRITE of the sketch.
ReadHardware ==
    /\ Head(rx) = "hardware"
    /\ rx' = Tail(rx)
    /\ lastIn' = clock
    /\ UNCHANGED <<state, lastOut, lastBeat, sending, peer, owed, faults>>

ReadRedirect ==
    /\ Head(rx) = "redirect"
    /\ InternalReconnect
    /\ lastIn' = LongAgo(clock)
    /\ lastOut' = LongAgo(clock)
    /\ lastBeat' = LongAgo(clock)
    /\ UNCHANGED <<sending, faults>>

\* processInput() returns false: run() disconnects and leaves state alone.
ReadUnknown ==
    /\ Head(rx) = "unknown"
    /\ Disconnect
    /\ lastIn' = clock
    /\ UNCHANGED <<state, lastOut, lastBeat, sending, faults>>

\* A packet that is too big is not even read.
ReadInvalid ==
    /\ Head(rx) = "invalid"
    /\ InternalReconnect
    /\ lastIn' \in {lastIn, clock}
    /\ UNCHANGED <<lastOut, lastBeat, sending, faults>>

ProcessInput ==
    /\ ~dialing
    /\ rx # <<>>
    /\ \/ ReadAnswer \/ ReadPing \/ ReadHardware
       \/ ReadRedirect \/ ReadUnknown \/ ReadInvalid
    /\ silent' = 0
    /\ UNCHANGED <<clock, booting, started, dialing, outage, pass>>
-----------------------------------------------------------------------------
(* The second half of run(): t is the clock.                               *)

Checking ==
    /\ ~dialing
    /\ rx = <<>>
    /\ booting /\ sending = {} =>
          state # "CONNECTED" /\ Elapsed(clock, started) < 3 * Timeout
    /\ pass' = IF sending = {} THEN 0 ELSE pass
    /\ UNCHANGED <<clock, caller, outage, faults>>

Connected == state = "CONNECTED" /\ peer # "none"

SilentToo(t) == Elapsed(t, lastOut) > Silence   \* mutant: the wrong stamp
TooSilent(t) == Elapsed(t, lastIn) > Silence

\* mutant: a board that keeps sending never asks for a sign of life
OnlyOut(t)  == Elapsed(t, lastOut) > HeartBeat
PingDue(t)  == \/ Elapsed(t, lastIn) > HeartBeat
               \/ Elapsed(t, lastOut) > HeartBeat

MayPing(t) == Elapsed(t, lastBeat) > Timeout

NoticeLoss ==
    /\ Checking
    /\ state = "CONNECTED"
    /\ peer = "none"
    /\ lastBeat' = clock
    /\ InternalReconnect
    /\ UNCHANGED <<lastIn, lastOut, dialing, silent>>

HeartbeatTimeout ==
    /\ Checking
    /\ Connected
    /\ TooSilent(clock)
    /\ InternalReconnect
    /\ UNCHANGED <<stamps, dialing, silent>>

Ping ==
    /\ Checking
    /\ Connected
    /\ ~TooSilent(clock)
    /\ PingDue(clock)
    /\ MayPing(clock)
    /\ \/ /\ lastOut' = clock
          /\ owed' = IF peer = "alive" THEN owed \cup {0} ELSE owed
          /\ UNCHANGED <<state, peer, rx>>
       \/ WriteFails /\ InternalReconnect /\ UNCHANGED lastOut
    /\ lastBeat' = clock
    /\ UNCHANGED <<lastIn, dialing, silent>>

Quiet ==
    /\ Checking
    /\ \/ Connected /\ ~TooSilent(clock) /\ ~(PingDue(clock) /\ MayPing(clock))
       \/ state = "TOKEN_INVALID"
    /\ UNCHANGED <<state, stamps, dialing, conn, silent>>

LoginForEver(t) == FALSE   \* mutant: the login never expires
LoginLate(t)    == Elapsed(t, lastBeat) > Timeout

LoginTimeout ==
    /\ Checking
    /\ state = "CONNECTING"
    /\ peer # "none"
    /\ LoginLate(clock)
    /\ Disconnect
    /\ UNCHANGED <<state, stamps, dialing, silent>>

\* On a failure lastLogin is the time before the attempt.
Dial ==
    /\ Checking
    /\ state = "CONNECTING"
    /\ peer = "none"
    /\ Elapsed(clock, lastBeat) > Retry
    /\ lastBeat' = clock
    /\ dialing' = TRUE
    /\ UNCHANGED <<state, lastIn, lastOut, conn, silent>>

Waiting ==
    /\ Checking
    /\ state = "CONNECTING"
    /\ IF peer = "none" THEN Elapsed(clock, lastBeat) <= Retry
                        ELSE ~LoginLate(clock)
    /\ UNCHANGED <<state, stamps, dialing, conn, silent>>

\* The connection is made and the login is sent.
DialLogin ==
    /\ dialing
    /\ ~outage
    /\ dialing' = FALSE
    /\ peer' = "alive"
    /\ owed' = {0}
    /\ lastOut' = clock
    /\ lastBeat' = clock
    /\ UNCHANGED <<clock, state, lastIn, caller, rx, outage, pass, silent,
                   faults>>

DialFails ==
    /\ dialing
    /\ outage
    /\ dialing' = FALSE
    /\ UNCHANGED <<clock, state, stamps, caller, conn, outage, pass, silent,
                   faults>>

\* The connection ends before the login is sent: lastLogin becomes the time
\* of an earlier message.
DialBreaks ==
    /\ dialing
    /\ faults < MaxFaults
    /\ faults' = faults + 1
    /\ dialing' = FALSE
    /\ InternalReconnect
    /\ lastBeat' = lastOut
    /\ UNCHANGED <<clock, lastIn, lastOut, caller, outage, pass, silent>>

Run ==
    \/ ConnectAgain \/ BootDone \/ ProcessInput
    \/ NoticeLoss \/ HeartbeatTimeout \/ Ping \/ Quiet
    \/ LoginTimeout \/ Dial \/ Waiting \/ DialLogin \/ DialFails
    \/ DialBreaks

\* Blynk.virtualWrite() of the sketch waits until it may send, and calls
\* run() while it waits ...
VirtualWrite ==
    /\ ~booting
    /\ sending = {}
    /\ ~dialing
    /\ Connected
    /\ sending' = {"write"}
    /\ UNCHANGED <<clock, state, stamps, booting, started, dialing, conn,
                   outage, pass, silent, faults>>

\* ... and then writes, to what may be no connection or a new one; so does
\* sendInfo(), which is the upper one of the two in the stack.
Sent ==
    /\ sending # {}
    /\ ~dialing
    /\ sending' = IF "info" \in sending THEN sending \ {"info"} ELSE {}
    /\ \/ /\ peer # "none"
          /\ lastOut' = clock
          /\ UNCHANGED <<state, conn>>
       \/ /\ peer = "none" \/ WriteFails
          /\ InternalReconnect
          /\ UNCHANGED lastOut
    /\ UNCHANGED <<clock, lastIn, lastBeat, booting, started, dialing, outage,
                   pass, silent, faults>>
-----------------------------------------------------------------------------
(* Time, the server and the network.                                       *)

\* A healthy server answers within MaxDelay, and run() is called within
\* MaxPass.
Tick ==
    /\ pass < MaxPass
    /\ MaxDelay \notin owed
    /\ clock' = Advance(clock)
    /\ pass' = pass + 1
    /\ owed' = {age + 1 : age \in owed}
    /\ silent' = IF state = "CONNECTED" /\ silent <= Silence + MaxPass
                   THEN silent + 1 ELSE silent
    /\ UNCHANGED <<state, stamps, caller, dialing, peer, rx, outage, faults>>

\* The oldest request is answered.
Answer ==
    /\ \E age \in owed :
          /\ \A other \in owed : other <= age
          /\ owed' = owed \ {age}
    /\ rx' = Append(rx, "answer")
    /\ UNCHANGED <<clock, state, stamps, caller, dialing, peer, outage, pass,
                   silent, faults>>

\* On a shaky connection an answer may still come, at any time, or never.
LateAnswer ==
    /\ peer = "shaky"
    /\ ~outage
    /\ Len(rx) < MaxRx
    /\ rx' = Append(rx, "answer")
    /\ UNCHANGED <<clock, state, stamps, caller, dialing, peer, owed, outage,
                   pass, silent, faults>>

\* The server sends to a board it has logged in.
Send(m) ==
    /\ peer # "none"
    /\ ~outage
    /\ state = "CONNECTED"
    /\ Len(rx) < MaxRx
    /\ IF m \in Mistaken
         THEN faults < MaxFaults /\ faults' = faults + 1
         ELSE UNCHANGED faults
    /\ rx' = Append(rx, m)
    /\ UNCHANGED <<clock, state, stamps, caller, dialing, peer, owed, outage,
                   pass, silent>>

\* The way to the server is cut; nobody tells the board.
Outage ==
    /\ ~outage
    /\ faults < MaxFaults
    /\ faults' = faults + 1
    /\ outage' = TRUE
    /\ peer' = IF peer = "none" THEN "none" ELSE "shaky"
    /\ owed' = {}
    /\ UNCHANGED <<clock, state, stamps, caller, dialing, rx, pass, silent>>

OutageEnds ==
    /\ outage
    /\ outage' = FALSE
    /\ UNCHANGED <<clock, state, stamps, caller, dialing, conn, pass, silent,
                   faults>>

\* The server closes the connection, and the board's Wi-Fi notices.
ServerCloses ==
    /\ peer # "none"
    /\ faults < MaxFaults
    /\ faults' = faults + 1
    /\ Disconnect
    /\ UNCHANGED <<clock, state, stamps, caller, dialing, outage, pass, silent>>

Surroundings ==
    \/ Tick \/ Answer \/ LateAnswer \/ Outage \/ OutageEnds \/ ServerCloses
    \/ \E m \in Unasked : Send(m)

Next == Run \/ VirtualWrite \/ Sent \/ Surroundings

Spec == Init /\ [][Next]_vars

(* The sketch keeps calling run(), the wait in sendCmd() has an end, time  *)
(* goes on, and what is written to a healthy server is answered.           *)
Fairness ==
    WF_vars(Run) /\ WF_vars(Sent) /\ WF_vars(Tick) /\ WF_vars(Answer)

FairSpec == Spec /\ Fairness
-----------------------------------------------------------------------------
(* The passes of the loop are short for the patience of the session: even  *)
(* if the clock has come round to the last heartbeat, so that the ping is  *)
(* put off by Timeout, it is answered before the session is given up.      *)
ShortPasses == 2 * MaxPass + MaxDelay <= 2 * Timeout

(* With short passes run() never gives up a session whose server is there  *)
(* and answers, however long the sketch, the traffic and the wrapping      *)
(* clock keep the heartbeat waiting.                                       *)
LiveKept ==
    ShortPasses /\ Connected /\ peer = "alive" /\ rx = <<>> =>
        ~TooSilent(clock)

(* A session whose server has gone silent is given up after Silence and    *)
(* one pass: a clock that has come round never makes the silence look      *)
(* short again.                                                            *)
DeadNoticed == state = "CONNECTED" => silent <= Silence + MaxPass

(* A login that a healthy server answers in time is never given up, though *)
(* lastLogin shares its memory with lastHeartbeat, which earlier sessions, *)
(* failed attempts and redirections leave behind.                          *)
LoginAwaited ==
    MaxDelay <= Timeout /\ state = "CONNECTING" /\ peer = "alive" /\ rx = <<>> =>
        ~LoginLate(clock)

(* No login is waited for longer than its time limit and one pass, healthy *)
(* or not, although lastLogin may be older than the connection and the     *)
(* clock comes round.                                                      *)
LoginEnds ==
    state = "CONNECTING" /\ peer # "none" =>
        Elapsed(clock, lastBeat) <= Timeout + MaxPass

(* Once the server can be reached for good the board has a session again   *)
(* and keeps it, unless the server has refused its token.                  *)
Reconnects ==
    <>[]~outage => <>[](state \in {"CONNECTED", "TOKEN_INVALID"})
=============================================================================
