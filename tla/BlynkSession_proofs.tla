-------------------------- MODULE BlynkSession_proofs --------------------------
(***************************************************************************)
(* Proofs that the heartbeat of BlynkSession tells live sessions from dead *)
(* ones for any heartbeat, timeout, pass of the loop and width of the      *)
(* clock.                                                                  *)
(***************************************************************************)
EXTENDS BlynkSession, TLAPS

\* Unsigned differences of one clock.
LEMMA ElapsedTypes ==
    ASSUME NEW a \in Time, NEW b \in Time
    PROVE  /\ Elapsed(a, b) \in 0 .. W - 1
           /\ Elapsed(a, a) = 0
           /\ Advance(a) \in Time
    BY ClockAssumption DEF Time, Elapsed, Advance

\* A tick of the clock makes every difference longer by one, unless it has
\* come round.
LEMMA ElapsedAdvance ==
    ASSUME NEW a \in Time, NEW b \in Time, Elapsed(a, b) + 1 < W
    PROVE  Elapsed(Advance(a), b) = Elapsed(a, b) + 1
    BY ClockAssumption DEF Time, Elapsed, Advance

LEMMA LongAgoType == ASSUME NEW t \in Time PROVE LongAgo(t) \in Time
    BY ClockAssumption, SessionAssumption DEF Time, LongAgo, Before

LEMMA SilenceType == Silence \in Nat
    BY SessionAssumption DEF Silence

LEMMA NothingRead == <<>> \in Seq(Message)
    OBVIOUS

\* While there is a session the audited silence is what the clock shows, and
\* it grows with the pass since run() last found it short enough.
Heard ==
    /\ state = "CONNECTED" =>
          /\ silent = Elapsed(clock, lastIn)
          /\ silent <= Silence + pass
    /\ dialing => state = "CONNECTING"

SessionInv == TypeOK /\ Heard

LEMMA SessionInit == Init => SessionInv
<1> SUFFICES ASSUME Init PROVE SessionInv
    OBVIOUS
<1> USE SessionAssumption, ClockAssumption
<1>1. LongAgo(clock) \in Time /\ clock \in Time
    BY LongAgoType DEF Init
<1>2. TypeOK
  <2>1. rx \in Seq(Message)
    BY NothingRead DEF Init
  <2>2. /\ booting \in BOOLEAN /\ sending \subseteq Sender
        /\ dialing \in BOOLEAN /\ outage \in BOOLEAN
    BY DEF Init
  <2>3. /\ lastIn \in Time /\ lastOut \in Time /\ lastBeat \in Time
        /\ started \in Time
    BY <1>1 DEF Init
  <2>4. /\ owed \subseteq 0 .. MaxDelay
        /\ pass \in 0 .. MaxPass
        /\ silent \in 0 .. Silence + MaxPass + 1
        /\ faults \in 0 .. MaxFaults
    BY SilenceType DEF Init
  <2> QED
    BY <1>1, <2>1, <2>2, <2>3, <2>4 DEF Init, TypeOK
<1> QED
    BY <1>2 DEF Init, SessionInv, Heard

\* What is received and not read is a queue of messages.
LEMMA ReceivedStep == rx \in Seq(Message) /\ [Next]_vars => rx' \in Seq(Message)
<1> SUFFICES ASSUME rx \in Seq(Message), [Next]_vars
             PROVE  rx' \in Seq(Message)
    OBVIOUS
<1>1. ASSUME rx' = rx \/ rx' = <<>> PROVE rx' \in Seq(Message)
    BY <1>1, NothingRead
<1>2. ASSUME rx # <<>>, rx' = Tail(rx) PROVE rx' \in Seq(Message)
    BY <1>2
<1>3. ASSUME NEW m \in Message, rx' = Append(rx, m)
      PROVE  rx' \in Seq(Message)
    BY <1>3
<1>4. CASE ConnectAgain \/ BootDone
    BY <1>4, <1>1, Zenon DEF ConnectAgain, BootDone, Disconnect, conn
<1>5. CASE ProcessInput
    BY <1>5, <1>1, <1>2, Zenon
    DEF ProcessInput, ReadAnswer, LoggedIn, Refused, ReadPing, ReadHardware,
        ReadRedirect, ReadUnknown, ReadInvalid, InternalReconnect, Disconnect
<1>6. CASE NoticeLoss \/ HeartbeatTimeout \/ Ping \/ Quiet \/ LoginTimeout
    BY <1>6, <1>1, Zenon
    DEF NoticeLoss, HeartbeatTimeout, Ping, Quiet, LoginTimeout,
        InternalReconnect, Disconnect, conn
<1>7. CASE \/ Dial \/ Waiting \/ DialLogin \/ DialFails \/ DialBreaks
           \/ VirtualWrite \/ Sent
    BY <1>7, <1>1, Zenon
    DEF Dial, Waiting, DialLogin, DialFails, DialBreaks, VirtualWrite, Sent,
        InternalReconnect, Disconnect, conn
<1>8. CASE Tick \/ Outage \/ OutageEnds \/ ServerCloses
    BY <1>8, <1>1, Zenon DEF Tick, Outage, OutageEnds, ServerCloses, Disconnect, conn
<1>9. CASE Answer \/ LateAnswer
    BY <1>9, <1>3 DEF Answer, LateAnswer, Message
<1>10. ASSUME NEW m \in Unasked, Send(m) PROVE rx' \in Seq(Message)
    BY <1>10, <1>3 DEF Send, Message
<1>11. CASE UNCHANGED vars
    BY <1>11, <1>1 DEF vars
<1> QED
    BY <1>4, <1>5, <1>6, <1>7, <1>8, <1>9, <1>10, <1>11
    DEF Next, Run, Surroundings

LEMMA SessionStep == SessionInv /\ [Next]_vars => SessionInv'
<1> DEFINE Scalars ==
              /\ clock \in Time /\ lastIn \in Time /\ lastOut \in Time
              /\ lastBeat \in Time /\ started \in Time
              /\ state \in {"CONNECTING", "CONNECTED", "TOKEN_INVALID"}
              /\ booting \in BOOLEAN /\ sending \subseteq Sender
              /\ dialing \in BOOLEAN /\ outage \in BOOLEAN
              /\ peer \in {"none", "alive", "shaky"}
              /\ owed \subseteq 0 .. MaxDelay
              /\ pass \in 0 .. MaxPass
              /\ silent \in 0 .. Silence + MaxPass + 1
              /\ faults \in 0 .. MaxFaults
<1> SUFFICES ASSUME Scalars, Heard, rx \in Seq(Message), [Next]_vars
             PROVE  (Scalars /\ Heard)'
    BY ReceivedStep DEF SessionInv, TypeOK
<1>l. /\ LongAgo(clock) \in Time
      /\ Elapsed(clock, clock) = 0
      /\ 0 \in Time
    BY LongAgoType, ElapsedTypes, ClockAssumption DEF Time
<1> USE SessionAssumption, SilenceType
        DEF Heard, stamps, conn, caller, Disconnect, InternalReconnect
<1>1. CASE ConnectAgain
    BY <1>1 DEF ConnectAgain
<1>2. CASE BootDone
    BY <1>2, <1>l DEF BootDone
<1>3. CASE ProcessInput
  <2>1. /\ rx # <<>> /\ ~dialing
        /\ silent' = 0
        /\ UNCHANGED <<clock, booting, started, dialing, outage, pass>>
    BY <1>3 DEF ProcessInput
  <2>2. /\ sending' \in {sending, sending \cup {"info"}}
        /\ lastIn' \in {lastIn, clock, LongAgo(clock)}
        /\ lastOut' \in {lastOut, clock, LongAgo(clock)}
        /\ lastBeat' \in {lastBeat, clock, LongAgo(clock)}
        /\ state' \in {state, "CONNECTING", "CONNECTED", "TOKEN_INVALID"}
        /\ peer' \in {peer, "none"}
        /\ owed' \in {owed, {}}
        /\ faults' = faults \/ (faults < MaxFaults /\ faults' = faults + 1)
        /\ state' = "CONNECTED" => lastIn' = clock
    BY <1>3
    DEF ProcessInput, ReadAnswer, LoggedIn, Refused, ReadPing, ReadHardware,
        ReadRedirect, ReadUnknown, ReadInvalid
  <2>3. sending' \subseteq Sender
    BY <2>2 DEF Sender
  <2> QED
    BY <2>1, <2>2, <2>3, <1>l
<1>4. CASE NoticeLoss \/ HeartbeatTimeout
    BY <1>4 DEF NoticeLoss, HeartbeatTimeout, Checking
<1>5. CASE Ping \/ Quiet
  <2>1. /\ UNCHANGED <<clock, lastIn, caller, dialing, outage, silent, faults>>
        /\ pass' \in {0, pass} /\ ~dialing
        /\ state' = "CONNECTED" => state = "CONNECTED" /\ ~TooSilent(clock)
    BY <1>5 DEF Ping, Quiet, Checking, Connected
  <2>2. /\ lastOut' \in {lastOut, clock}
        /\ lastBeat' \in {lastBeat, clock}
        /\ state' \in {state, "CONNECTING"}
        /\ peer' \in {peer, "none"}
        /\ owed' \subseteq owed \cup {0}
    BY <1>5 DEF Ping, Quiet, Checking
  <2>3. state' = "CONNECTED" => silent <= Silence
    BY <2>1, ElapsedTypes DEF TooSilent
  <2>4. owed' \subseteq 0 .. MaxDelay /\ pass' \in 0 .. MaxPass
    BY <2>1, <2>2
  <2>5. state' = "CONNECTED" => silent' <= Silence + pass'
    BY <2>1, <2>3, <2>4
  <2>6. Heard'
    <3>1. ~dialing'
      BY <2>1
    <3>2. state' = "CONNECTED" => silent' = Elapsed(clock', lastIn')
      BY <2>1
    <3> QED
      BY <2>5, <3>1, <3>2
  <2>7. Scalars'
    BY <2>1, <2>2, <2>4
  <2> QED
    BY <2>6, <2>7
<1>6. CASE LoginTimeout \/ Dial \/ Waiting
  <2>1. dialing' \in BOOLEAN /\ (dialing' => state' = "CONNECTING")
    BY <1>6, Zenon DEF LoginTimeout, Dial, Waiting, Checking
  <2>2. /\ state = "CONNECTING"
        /\ UNCHANGED <<clock, state, lastIn, lastOut, caller, outage, silent,
                       faults>>
        /\ lastBeat' \in {lastBeat, clock}
        /\ peer' \in {peer, "none"}
        /\ owed' \in {owed, {}}
        /\ pass' \in {0, pass}
    BY <1>6 DEF LoginTimeout, Dial, Waiting, Checking
  <2> QED
    BY <2>1, <2>2
<1>7. CASE DialLogin \/ DialFails \/ DialBreaks
  <2>1. dialing' = FALSE
    BY <1>7, Zenon DEF DialLogin, DialFails, DialBreaks
  <2>2. /\ UNCHANGED <<clock, lastIn, caller, outage, pass, silent>>
        /\ state' \in {state, "CONNECTING"}
        /\ lastOut' \in {lastOut, clock}
        /\ lastBeat' \in {lastBeat, lastOut, clock}
        /\ peer' \in {peer, "none", "alive"}
        /\ owed' \in {owed, {}, {0}}
        /\ faults' = faults \/ (faults < MaxFaults /\ faults' = faults + 1)
    BY <1>7 DEF DialLogin, DialFails, DialBreaks
  <2>3. owed' \subseteq 0 .. MaxDelay
    BY <2>2
  <2>4. dialing' \in BOOLEAN /\ ~dialing'
    BY <2>1
  <2> QED
    BY <2>2, <2>3, <2>4
<1>8. CASE VirtualWrite \/ Sent
  <2>1. sending' \subseteq Sender
    BY <1>8 DEF VirtualWrite, Sent, Sender
  <2>2. /\ UNCHANGED <<clock, lastIn, lastBeat, booting, started, dialing,
                       outage, pass, silent, faults>>
        /\ lastOut' \in {lastOut, clock}
        /\ state' \in {state, "CONNECTING"}
        /\ peer' \in {peer, "none"}
        /\ owed' \in {owed, {}}
    BY <1>8 DEF VirtualWrite, Sent
  <2> QED
    BY <2>1, <2>2
<1>9. CASE Tick
  <2>1. /\ clock' = Advance(clock)
        /\ pass < MaxPass /\ pass' = pass + 1
        /\ silent' = IF state = "CONNECTED" /\ silent <= Silence + MaxPass
                       THEN silent + 1 ELSE silent
        /\ UNCHANGED <<state, lastIn, lastOut, lastBeat, booting, started,
                       sending, dialing, peer, rx, outage, faults>>
    BY <1>9 DEF Tick
  <2>2. owed' \subseteq 0 .. MaxDelay
    <3>1. owed' = {age + 1 : age \in owed} /\ MaxDelay \notin owed
      BY <1>9 DEF Tick
    <3>2. \A age \in owed : age + 1 \in 0 .. MaxDelay
      BY <3>1
    <3> QED
      BY <3>1, <3>2
  <2>3. clock' \in Time
    BY <2>1, ElapsedTypes
  <2>4. silent' \in 0 .. Silence + MaxPass + 1
    BY <2>1
  <2>5. CASE state = "CONNECTED"
    <3>1. Elapsed(clock, lastIn) + 1 < W
      BY <2>1, <2>5, ClockAssumption
    <3>2. Elapsed(clock', lastIn) = Elapsed(clock, lastIn) + 1
      BY <2>1, <3>1, ElapsedAdvance
    <3>3. silent' = silent + 1
      BY <2>1, <2>5
    <3> QED
      BY <2>1, <2>2, <2>3, <2>4, <2>5, <3>2, <3>3
  <2>6. CASE state # "CONNECTED"
    BY <2>1, <2>2, <2>3, <2>4, <2>6
  <2> QED
    BY <2>5, <2>6
<1>10. CASE Answer \/ LateAnswer
  <2>1. /\ owed' \subseteq owed
        /\ UNCHANGED <<clock, state, stamps, caller, dialing, peer, outage,
                       pass, silent, faults>>
    BY <1>10 DEF Answer, LateAnswer
  <2> QED
    BY <2>1
<1>11. ASSUME NEW m \in Unasked, Send(m) PROVE (Scalars /\ Heard)'
    BY <1>11 DEF Send
<1>12. CASE Outage \/ OutageEnds
  <2>1. outage' \in BOOLEAN
    BY <1>12, Zenon DEF Outage, OutageEnds
  <2>2. /\ UNCHANGED <<clock, state, stamps, caller, dialing, pass, silent>>
        /\ peer' \in {peer, "none", "shaky"}
        /\ owed' \in {owed, {}}
        /\ faults' \in 0 .. MaxFaults
    BY <1>12 DEF Outage, OutageEnds
  <2> QED
    BY <2>1, <2>2
<1>13. CASE ServerCloses
    BY <1>13 DEF ServerCloses
<1>14. CASE UNCHANGED vars
    BY <1>14 DEF vars
<1> HIDE DEF Scalars, Heard
<1> QED
    BY <1>1, <1>2, <1>3, <1>4, <1>5, <1>6, <1>7, <1>8, <1>9, <1>10,
       <1>11, <1>12, <1>13, <1>14
    DEF Next, Run, Surroundings

LEMMA SessionAlways == Spec => []SessionInv
    BY SessionInit, SessionStep, PTL DEF Spec

(* Every variable keeps its type; in particular the time stamps stay       *)
(* within the width of the clock.                                          *)
THEOREM SessionTypeCorrect == Spec => []TypeOK
<1>1. SessionInv => TypeOK
    BY DEF SessionInv
<1> QED
    BY <1>1, SessionAlways, PTL

(* A silent session is given up after Silence and one pass of the loop.    *)
THEOREM DeadIsNoticed == Spec => []DeadNoticed
<1>1. SessionInv => DeadNoticed
    BY SessionAssumption DEF SessionInv, Heard, DeadNoticed, TypeOK, Silence
<1> QED
    BY <1>1, SessionAlways, PTL
-----------------------------------------------------------------------------
(* Why a live session is kept.  As long as it is silent for longer than    *)
(* the heartbeat and nothing waits to be read, either run() has not looked *)
(* yet, or a ping is under way, or the ping is put off because the last    *)
(* heartbeat seems recent, which cannot last longer than Timeout.          *)
Cared ==
    state = "CONNECTED" /\ peer = "alive" =>
        \/ rx # <<>>
        \/ silent <= HeartBeat + pass
        \/ \E age \in owed : silent <= HeartBeat + 2 * MaxPass + Timeout + age
        \/ /\ Elapsed(clock, lastBeat) <= Timeout + pass
           /\ silent <= HeartBeat + MaxPass + Elapsed(clock, lastBeat)

LEMMA CaredStep == SessionInv /\ Cared /\ [Next]_vars => Cared'
<1> SUFFICES ASSUME SessionInv, Cared, [Next]_vars PROVE Cared'
    OBVIOUS
<1>t. /\ clock \in Time /\ lastIn \in Time /\ lastBeat \in Time
      /\ owed \subseteq 0 .. MaxDelay
      /\ pass \in 0 .. MaxPass
      /\ silent \in 0 .. Silence + MaxPass + 1
    BY DEF SessionInv, TypeOK
<1>h. Heard /\ rx \in Seq(Message)
    BY DEF SessionInv, TypeOK
<1>b. /\ Elapsed(clock, lastBeat) \in 0 .. W - 1
      /\ Elapsed(clock, lastIn) \in 0 .. W - 1
    BY <1>t, ElapsedTypes
<1> USE SessionAssumption, SilenceType
        DEF Cared, stamps, conn, caller, Disconnect, InternalReconnect
<1>1. CASE ConnectAgain \/ BootDone
    BY <1>1 DEF ConnectAgain, BootDone
<1>2. CASE ProcessInput
    BY <1>2, <1>t DEF ProcessInput
<1>3. CASE NoticeLoss \/ HeartbeatTimeout
    BY <1>3 DEF NoticeLoss, HeartbeatTimeout
<1>4. CASE Ping
  <2> SUFFICES ASSUME state' = "CONNECTED", peer' = "alive" PROVE Cared'
    OBVIOUS
  <2>1. /\ rx = <<>> /\ state = "CONNECTED" /\ peer = "alive"
        /\ silent' = silent
        /\ owed' = owed \cup {0}
    BY <1>4 DEF Ping, Checking, Connected, WriteFails
  <2>2. \E age \in owed' : silent' <= HeartBeat + 2 * MaxPass + Timeout + age
    BY <2>1, <1>t, <1>b
  <2> QED
    BY <2>2
<1>5. CASE Quiet
  <2> SUFFICES ASSUME state = "CONNECTED", peer = "alive" PROVE Cared'
    BY <1>5 DEF Quiet
  <2>1. /\ rx = <<>> /\ pass' \in {0, pass}
        /\ UNCHANGED <<clock, state, lastBeat, peer, rx, owed, silent>>
        /\ Elapsed(clock, lastIn) <= HeartBeat \/
              Elapsed(clock, lastBeat) <= Timeout
    BY <1>5, <1>b, ClockAssumption
    DEF Quiet, Checking, PingDue, MayPing
  <2>2. silent = Elapsed(clock, lastIn)
    BY <1>h, <2>1 DEF Heard
  <2> QED
    BY <2>1, <2>2, <1>t, <1>b
<1>6. CASE LoginTimeout \/ Dial \/ Waiting
    BY <1>6 DEF LoginTimeout, Dial, Waiting
<1>7. CASE DialLogin \/ DialFails \/ DialBreaks
    BY <1>7, <1>h DEF DialLogin, DialFails, DialBreaks, Heard
<1>8. CASE VirtualWrite \/ Sent
    BY <1>8, <1>t, <1>h DEF VirtualWrite, Sent, WriteFails
<1>9. CASE Tick
  <2> SUFFICES ASSUME state = "CONNECTED", peer = "alive", rx = <<>>
               PROVE  Cared'
    BY <1>9 DEF Tick
  <2>1. /\ clock' = Advance(clock)
        /\ pass < MaxPass /\ pass' = pass + 1
        /\ silent' \in {silent, silent + 1}
        /\ owed' = {age + 1 : age \in owed}
        /\ UNCHANGED <<state, lastBeat, peer, rx>>
    BY <1>9, <1>t DEF Tick
  <2>2. CASE silent <= HeartBeat + pass
    BY <2>1, <2>2, <1>t
  <2>3. ASSUME NEW age \in owed,
               silent <= HeartBeat + 2 * MaxPass + Timeout + age
        PROVE  Cared'
    <3>1. age + 1 \in owed'
      BY <2>1
    <3>2. silent' <= HeartBeat + 2 * MaxPass + Timeout + (age + 1)
      BY <2>1, <2>3, <1>t
    <3> QED
      BY <3>1, <3>2
  <2>4. CASE /\ Elapsed(clock, lastBeat) <= Timeout + pass
             /\ silent <= HeartBeat + MaxPass + Elapsed(clock, lastBeat)
    <3>1. Elapsed(clock, lastBeat) + 1 < W
      BY <2>1, <2>4, <1>t, <1>b, ClockAssumption DEF Silence
    <3>2. Elapsed(clock', lastBeat) = Elapsed(clock, lastBeat) + 1
      BY <2>1, <3>1, <1>t, ElapsedAdvance
    <3> QED
      BY <2>1, <2>4, <3>2, <1>t, <1>b
  <2> QED
    BY <2>2, <2>3, <2>4
<1>10. CASE Answer \/ LateAnswer
    BY <1>10, <1>h DEF Answer, LateAnswer
<1>11. ASSUME NEW m \in Unasked, Send(m) PROVE Cared'
    BY <1>11, <1>h DEF Send
<1>12. CASE Outage \/ OutageEnds \/ ServerCloses
    BY <1>12 DEF Outage, OutageEnds, ServerCloses
<1>13. CASE UNCHANGED vars
    BY <1>13 DEF vars
<1> HIDE DEF Cared
<1> QED
    BY <1>1, <1>2, <1>3, <1>4, <1>5, <1>6, <1>7, <1>8, <1>9, <1>10, <1>11,
       <1>12, <1>13
    DEF Next, Run, Surroundings

(* With short passes a session whose server answers is never given up.     *)
THEOREM LiveIsKept == Spec => []LiveKept
<1>1. Init => Cared
    BY DEF Init, Cared
<1>2. SessionInv /\ Cared => LiveKept
  <2> SUFFICES ASSUME SessionInv, Cared, ShortPasses, Connected,
                      peer = "alive", rx = <<>>
               PROVE  ~TooSilent(clock)
    BY DEF LiveKept
  <2>1. /\ clock \in Time /\ lastIn \in Time /\ lastBeat \in Time
        /\ pass \in 0 .. MaxPass
        /\ owed \subseteq 0 .. MaxDelay
    BY DEF SessionInv, TypeOK
  <2>2. /\ Elapsed(clock, lastBeat) \in 0 .. W - 1
        /\ Elapsed(clock, lastIn) \in 0 .. W - 1
    BY <2>1, ElapsedTypes
  <2>3. silent = Elapsed(clock, lastIn)
    BY DEF SessionInv, Heard, Connected
  <2>4. \A age \in owed : age \in Nat /\ age <= MaxDelay
    BY <2>1, SessionAssumption
  <2>5. Elapsed(clock, lastIn) <= Silence
    BY <2>1, <2>2, <2>3, <2>4, SessionAssumption, ClockAssumption
    DEF Cared, Connected, ShortPasses, Silence
  <2> QED
    BY <2>2, <2>5, SilenceType, ClockAssumption DEF TooSilent
<1>3. Spec => [](SessionInv /\ Cared)
    BY <1>1, SessionInit, SessionStep, CaredStep, PTL DEF Spec
<1> QED
    BY <1>2, <1>3, PTL
-----------------------------------------------------------------------------
(* What a connection carries before the login is answered: nothing before  *)
(* it is made, then the login, not older than lastLogin, and its answer.   *)
NewConnection ==
    /\ peer = "none" => rx = <<>> /\ owed = {}
    /\ dialing => peer = "none"
    /\ state # "CONNECTED" => rx \in Seq({"answer"})
    /\ state = "CONNECTING" /\ peer = "alive" =>
          \/ rx # <<>>
          \/ \E age \in owed : Elapsed(clock, lastBeat) <= age

\* A tick of the clock makes no difference longer by more than one.
LEMMA ElapsedAtMost ==
    ASSUME NEW a \in Time, NEW b \in Time
    PROVE  Elapsed(Advance(a), b) <= Elapsed(a, b) + 1
    BY ClockAssumption DEF Time, Elapsed, Advance

LEMMA NewConnectionStep ==
    SessionInv /\ NewConnection /\ [Next]_vars => NewConnection'
<1> SUFFICES ASSUME SessionInv, NewConnection, [Next]_vars
             PROVE  NewConnection'
    OBVIOUS
<1>t. /\ clock \in Time /\ lastBeat \in Time
      /\ owed \subseteq 0 .. MaxDelay /\ MaxDelay \in Nat
      /\ dialing => state = "CONNECTING"
    BY SessionAssumption DEF SessionInv, TypeOK, Heard
<1>e. Elapsed(clock, lastBeat) \in 0 .. W - 1 /\ Elapsed(clock, clock) = 0
    BY <1>t, ElapsedTypes
<1>n. <<>> \in Seq({"answer"})
    OBVIOUS
<1>r. state # "CONNECTED" => rx \in Seq({"answer"})
    BY DEF NewConnection
<1> USE DEF stamps, conn, caller, Disconnect, InternalReconnect
<1>d. ASSUME Disconnect, dialing' = dialing \/ dialing' = FALSE
      PROVE  NewConnection'
    BY <1>d, <1>n DEF NewConnection
<1>k. ASSUME UNCHANGED <<clock, state, lastBeat, dialing, conn>>
      PROVE  NewConnection'
    BY <1>k DEF NewConnection
<1>1. CASE ConnectAgain \/ ServerCloses \/ NoticeLoss \/ HeartbeatTimeout
           \/ LoginTimeout \/ DialBreaks
    BY <1>1, <1>d
    DEF ConnectAgain, ServerCloses, NoticeLoss, HeartbeatTimeout,
        LoginTimeout, DialBreaks
<1>2. CASE \/ BootDone \/ VirtualWrite \/ Quiet \/ Waiting \/ OutageEnds
           \/ UNCHANGED vars
    BY <1>2, <1>k
    DEF BootDone, VirtualWrite, Quiet, Waiting, Checking, OutageEnds, vars
<1>3. CASE ProcessInput
  <2>1. rx # <<>> /\ peer # "none" /\ ~dialing /\ dialing' = dialing
    BY <1>3 DEF ProcessInput, NewConnection
  <2>2. CASE Disconnect
    BY <2>1, <2>2, <1>d
  <2>3. CASE ~Disconnect
    <3>1. /\ rx' = Tail(rx) /\ peer' = peer
          /\ state' = "CONNECTED" \/ state' = state
          /\ state = "CONNECTING" => state' = "CONNECTED"
                                     \/ Head(rx) \in {"ping", "hardware"}
      BY <1>3, <2>3
      DEF ProcessInput, ReadAnswer, LoggedIn, Refused, ReadPing,
          ReadHardware, ReadRedirect, ReadUnknown, ReadInvalid
    <3>2. state # "CONNECTED" =>
            Head(rx) = "answer" /\ Tail(rx) \in Seq({"answer"})
      BY <1>r, <2>1
    <3> QED
      BY <2>1, <3>1, <3>2 DEF NewConnection
  <2> QED
    BY <2>2, <2>3
<1>4. CASE Ping
  <2>1. state = "CONNECTED" /\ peer # "none" /\ dialing' = dialing
    BY <1>4 DEF Ping, Connected
  <2>2. CASE Disconnect
    BY <2>1, <2>2, <1>d
  <2>3. CASE ~Disconnect
    BY <1>4, <2>1, <2>3 DEF Ping, NewConnection
  <2> QED
    BY <2>2, <2>3
<1>5. CASE Dial
  <2>1. /\ peer = "none" /\ state = "CONNECTING"
        /\ UNCHANGED <<state, conn>>
    BY <1>5 DEF Dial
  <2> QED
    BY <2>1 DEF NewConnection
<1>6. CASE DialLogin
  <2>1. /\ rx' = rx /\ state' = state /\ peer' = "alive" /\ owed' = {0}
        /\ clock' = clock /\ lastBeat' = clock /\ dialing' = FALSE
    BY <1>6, Zenon DEF DialLogin
  <2>2. Elapsed(clock', lastBeat') <= 0
    BY <2>1, <1>e
  <2> QED
    BY <2>1, <2>2, <1>r DEF NewConnection
<1>7. CASE DialFails
  <2>1. dialing' = FALSE /\ UNCHANGED <<clock, state, lastBeat, conn>>
    BY <1>7, Zenon DEF DialFails
  <2> QED
    BY <2>1 DEF NewConnection
<1>8. CASE Sent
  <2>1. dialing' = dialing
    BY <1>8 DEF Sent
  <2>2. Disconnect \/ UNCHANGED <<clock, state, lastBeat, dialing, conn>>
    BY <1>8 DEF Sent
  <2> QED
    BY <2>1, <2>2, <1>d, <1>k
<1>9. CASE Tick
  <2>1. /\ clock' = Advance(clock) /\ owed' = {age + 1 : age \in owed}
        /\ UNCHANGED <<state, lastBeat, dialing, peer, rx>>
    BY <1>9 DEF Tick
  <2>2. owed = {} => owed' = {}
    BY <2>1
  <2>3. ASSUME NEW age \in owed, Elapsed(clock, lastBeat) <= age
        PROVE  \E older \in owed' : Elapsed(clock', lastBeat) <= older
    <3>1. Elapsed(clock', lastBeat) <= Elapsed(clock, lastBeat) + 1
      BY <2>1, <1>t, ElapsedAtMost
    <3>2. Advance(clock) \in Time
      BY <1>t, ElapsedTypes
    <3>3. Elapsed(clock', lastBeat) \in 0 .. W - 1
      BY <2>1, <3>2, <1>t, ElapsedTypes
    <3>4. Elapsed(clock', lastBeat) <= age + 1 /\ age + 1 \in owed'
      BY <1>t, <1>e, <2>1, <2>3, <3>1, <3>3, ClockAssumption
    <3> QED
      BY <3>4
  <2> QED
    BY <2>1, <2>2, <2>3 DEF NewConnection
<1>10. CASE Answer \/ LateAnswer
  <2>1. /\ rx' = Append(rx, "answer") /\ peer # "none"
        /\ UNCHANGED <<clock, state, lastBeat, dialing, peer>>
    BY <1>10 DEF Answer, LateAnswer, NewConnection
  <2>2. /\ rx \in Seq({"answer"}) => Append(rx, "answer") \in Seq({"answer"})
        /\ rx \in Seq(Message) => Append(rx, "answer") # <<>>
    OBVIOUS
  <2>3. rx \in Seq(Message)
    BY DEF SessionInv, TypeOK
  <2> QED
    BY <2>1, <2>2, <2>3 DEF NewConnection
<1>11. ASSUME NEW m \in Unasked, Send(m) PROVE NewConnection'
    BY <1>11 DEF Send, NewConnection
<1>12. CASE Outage
    BY <1>12 DEF Outage, NewConnection
<1> QED
    BY <1>1, <1>2, <1>3, <1>4, <1>5, <1>6, <1>7, <1>8, <1>9, <1>10,
       <1>11, <1>12
    DEF Next, Run, Surroundings

(* A login that a healthy server answers in time is never given up.        *)
THEOREM LoginIsAwaited == Spec => []LoginAwaited
<1>1. Init => NewConnection
    BY DEF Init, NewConnection
<1>2. SessionInv /\ NewConnection => LoginAwaited
  <2> SUFFICES ASSUME SessionInv, NewConnection, MaxDelay <= Timeout,
                      state = "CONNECTING", peer = "alive", rx = <<>>
               PROVE  ~LoginLate(clock)
    BY DEF LoginAwaited
  <2>1. clock \in Time /\ lastBeat \in Time /\ owed \subseteq 0 .. MaxDelay
    BY DEF SessionInv, TypeOK
  <2>2. Elapsed(clock, lastBeat) \in 0 .. W - 1
    BY <2>1, ElapsedTypes
  <2>3. PICK age \in owed : Elapsed(clock, lastBeat) <= age
    BY DEF NewConnection
  <2>4. Elapsed(clock, lastBeat) <= Timeout
    BY <2>1, <2>2, <2>3, SessionAssumption, ClockAssumption
  <2> QED
    BY <2>2, <2>4, SessionAssumption, ClockAssumption DEF LoginLate
<1>3. Spec => [](SessionInv /\ NewConnection)
    BY <1>1, SessionInit, SessionStep, NewConnectionStep, PTL DEF Spec
<1> QED
    BY <1>2, <1>3, PTL
-----------------------------------------------------------------------------
(* A connection on which no login has been granted is not older than the   *)
(* time limit and the pass since run() last looked.                        *)
LoginYoung ==
    state = "CONNECTING" /\ peer # "none" =>
        Elapsed(clock, lastBeat) <= Timeout + pass

LEMMA LoginYoungStep ==
    SessionInv /\ NewConnection /\ LoginYoung /\ [Next]_vars => LoginYoung'
<1> SUFFICES ASSUME SessionInv, NewConnection, LoginYoung, [Next]_vars,
                    state' = "CONNECTING", peer' # "none"
             PROVE  Elapsed(clock', lastBeat') <= Timeout + pass'
    BY DEF LoginYoung
<1>t. /\ clock \in Time /\ lastBeat \in Time
      /\ pass \in 0 .. MaxPass
    BY DEF SessionInv, TypeOK
<1>e. Elapsed(clock, lastBeat) \in 0 .. W - 1 /\ Elapsed(clock, clock) = 0
    BY <1>t, ElapsedTypes
<1>s. Timeout \in Nat /\ MaxPass \in Nat
    BY SessionAssumption
<1> USE DEF stamps, conn, caller, Disconnect, InternalReconnect
<1>k. ASSUME UNCHANGED <<clock, state, lastBeat, pass>>, peer # "none"
      PROVE  Elapsed(clock', lastBeat') <= Timeout + pass'
    BY <1>k DEF LoginYoung
<1>1. CASE \/ ConnectAgain \/ NoticeLoss \/ HeartbeatTimeout \/ LoginTimeout
           \/ DialBreaks \/ ServerCloses
    BY <1>1
    DEF ConnectAgain, NoticeLoss, HeartbeatTimeout, LoginTimeout, DialBreaks,
        ServerCloses
<1>2. CASE BootDone \/ VirtualWrite
    BY <1>2 DEF BootDone, VirtualWrite, Connected
<1>3. CASE ProcessInput
  <2>1. rx # <<>> /\ peer # "none"
    BY <1>3 DEF ProcessInput, NewConnection
  <2>2. /\ UNCHANGED <<clock, pass>>
        /\ state = "CONNECTING" => UNCHANGED lastBeat
        /\ state' = state
    BY <1>3, <2>1
    DEF ProcessInput, ReadAnswer, LoggedIn, Refused, ReadPing, ReadHardware,
        ReadRedirect, ReadUnknown, ReadInvalid
  <2> QED
    BY <2>1, <2>2, <1>k
<1>4. CASE Ping \/ Quiet
    BY <1>4 DEF Ping, Quiet, Connected
<1>5. CASE Dial
    BY <1>5 DEF Dial
<1>6. CASE Waiting
  <2>1. /\ UNCHANGED <<clock, lastBeat>> /\ ~LoginLate(clock)
        /\ pass' \in {0, pass}
    BY <1>6 DEF Waiting, Checking
  <2> QED
    BY <2>1, <1>t, <1>e, <1>s, ClockAssumption DEF LoginLate
<1>7. CASE DialLogin
  <2>1. /\ clock' = clock /\ lastBeat' = clock /\ pass' = pass
    BY <1>7 DEF DialLogin
  <2> QED
    BY <2>1, <1>t, <1>e, <1>s
<1>8. CASE DialFails
    BY <1>8 DEF DialFails, NewConnection
<1>9. CASE Sent
    BY <1>9, <1>k DEF Sent
<1>10. CASE Tick
  <2>1. /\ clock' = Advance(clock) /\ pass' = pass + 1
        /\ lastBeat' = lastBeat
        /\ Elapsed(clock, lastBeat) <= Timeout + pass
    BY <1>10 DEF Tick, LoginYoung
  <2>2. Advance(clock) \in Time
    BY <1>t, ElapsedTypes
  <2>3. /\ Elapsed(clock', lastBeat') <= Elapsed(clock, lastBeat) + 1
        /\ Elapsed(clock', lastBeat') \in 0 .. W - 1
    BY <2>1, <2>2, <1>t, ElapsedAtMost, ElapsedTypes
  <2> QED
    BY <2>1, <2>3, <1>t, <1>e, <1>s, ClockAssumption
<1>11. CASE Answer \/ LateAnswer
    BY <1>11, <1>k DEF Answer, LateAnswer
<1>12. ASSUME NEW m \in Unasked, Send(m)
       PROVE  Elapsed(clock', lastBeat') <= Timeout + pass'
    BY <1>12, <1>k DEF Send
<1>13. CASE Outage \/ OutageEnds
    BY <1>13, <1>k DEF Outage, OutageEnds
<1>14. CASE UNCHANGED vars
    BY <1>14, <1>k DEF vars
<1> QED
    BY <1>1, <1>2, <1>3, <1>4, <1>5, <1>6, <1>7, <1>8, <1>9, <1>10, <1>11,
       <1>12, <1>13, <1>14
    DEF Next, Run, Surroundings

(* No login is waited for longer than its time limit and one pass.         *)
THEOREM LoginIsGivenUp == Spec => []LoginEnds
<1>1. Init => NewConnection /\ LoginYoung
    BY DEF Init, NewConnection, LoginYoung
<1>2. SessionInv /\ LoginYoung => LoginEnds
  <2> SUFFICES ASSUME SessionInv, LoginYoung, state = "CONNECTING",
                      peer # "none"
               PROVE  Elapsed(clock, lastBeat) <= Timeout + MaxPass
    BY DEF LoginEnds
  <2>1. /\ clock \in Time /\ lastBeat \in Time /\ pass \in 0 .. MaxPass
    BY DEF SessionInv, TypeOK
  <2>2. Elapsed(clock, lastBeat) \in 0 .. W - 1
    BY <2>1, ElapsedTypes
  <2> QED
    BY <2>1, <2>2, SessionAssumption, ClockAssumption DEF LoginYoung
<1>3. Spec => [](SessionInv /\ NewConnection /\ LoginYoung)
    BY <1>1, SessionInit, SessionStep, NewConnectionStep, LoginYoungStep, PTL
    DEF Spec
<1> QED
    BY <1>2, <1>3, PTL
=============================================================================
