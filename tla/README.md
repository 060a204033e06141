# IoT Working Space: TLA+ specifications

This directory holds formal models of the IoT Working Space: a meeting room
whose lamps, air conditioner (by infrared) and door are run by an Arduino
MKR1000, and whose voice control and energy meter are run by an ESP32.  The two
boards never talk to each other; they meet in a Firebase real-time database.
The models are written in TLA+ and checked with TLC on small instances.  What
matters most about each part is proved with TLAPS for every value of the
parameters.

Paths below are relative to the root of the repository.  `MKR` stands for
`src/IoT_FYP2_MKR1000/IoT_FYP2_MKR1000.ino`, `ESP` for
`src/FYP/FYP2_ESP32/FYP2_ESP32.ino`.

## 1. The system

```
   phone (Blynk app)           voice assistant            card    reservation
          |                           |                    |      system
     Blynk server               SinricPro server           |         |
          | BLYNK_WRITE(V0..V2)       | websocket          |         |
          v                           v                    v         |
   +-------------+             +-------------+        +---------+    |
   |   MKR1000   |<- - - - - - |    ESP32    |        |  RFID   |    |
   |   MKR.ino   |  (database  |   ESP.ino   |        +---------+    |
   +-------------+   only)     +-------------+                       |
      |  |  |   \________________  |                                 |
   lamps IR servo      setBool,  \ | setBool                         |
                       getBool    vv                                 v
                 real-time database: /CONTROL/<appliance>, /CHECKOUT, /CHECKIN,
                 /MEETING ROOM 1/<appliance>, /IoT Working Space/DOOR, ...
```

### Components

| Component | State it keeps | Operations | Interacts by |
|---|---|---|---|
| Room controller, `MKR` | `dbLamp1/2`, `dbIRApp`, `checkOutHours/Mins`, the `Servo` object, the RTC | `setup()`: Wi-Fi, OLED, servo, Blynk, NTP; `loop()`: `rfidDOOR`, `lcdDate`, `dhtOLED`, `getCheckIO`, `Blynk.run`, `getDatabaseControl`, `controlAPP` -> `controlvLAMP` | gets and puts to the database, Blynk callbacks, pins |
| Voice gateway, `ESP` | the SinricPro queues, the energy counters | `setup()`; `loop()`: `Blynk.run`, `SinricPro.handle`, `energyMonitor` | callbacks `onPowerState1..3`, puts to the database |
| SinricPro library | `receiveQueue`, `sendQueue`, the websocket | `handleReceiveQueue`, `handleRequest`, `handleSendQueue` | messages with the server, callbacks into the sketch |
| Firebase client of the MKR1000 | one `FirebaseData`: connection, `_dataType`, `_payload`, `_httpCode` | `getBool`, `setBool`, ... -> `sendRequest`, `connect`, `handleResponse` | HTTP over one keep-alive TLS connection |
| Blynk library | session state, `lastActivityIn/Out`, `lastHeartbeat`, `lastLogin` | `begin`, `run`, `virtualWrite` | messages with the server, callbacks |
| RFID library | `uid`, the bits known of a level; the deadline of a command | `PICC_IsNewCardPresent`, `PICC_ReadCardSerial`, `PCD_CommunicateWithPICC` | exchanges with the cards, registers of the chip |
| Servo library | pulse width, active flag, index of the interrupt | `attach`, `write`, `detach`, `Servo_Handler` | a timer and its interrupt |
| Climate report, in `MKR`, and the DHT library | last reading and its time | `dhtOLED()`, `read()` | the sensor; puts to the database, Blynk, OLED |
| Energy monitor, in `ESP` | `previousMillis1`, `Vrms`, `Irms`, `aPower`, `kWh` | `energyMonitor()` every second | Blynk widgets |
| Displays, ZMPT101B, EmonLib, Wi-Fi libraries | devices | drivers | pins, buses |
| Earlier versions and bench sketches | | | superseded |

### What is hard about it

* **Interleaving.** Each read and each write of the database is an HTTP call of
  some hundred milliseconds, and others write the same paths meanwhile.  The
  controller reads three commands one by one and applies them seconds later.
* **Stale values.** A read that fails leaves the global variable alone (after a
  reset: `false`, after hours off line: hours old) and the value is applied.
* **Resets in the middle.** A reset in the two seconds in which the door is open
  leaves it open until the servo is driven again, behind a wait for the Wi-Fi
  that has no limit.
* **Results that nobody looks at.** `setBool`, `setString` and `sendTXT` report
  failures, the sketches ignore them all; a put that failed may still be carried
  out later, after newer ones.
* **One connection for all calls.** What remains of one reply is read as the
  next one.
* **A protocol in the sketch.** The servo must be detached when infrared codes
  are sent, attached when the door is opened, and never left at an open angle:
  three functions that do not know of each other take care of it.
* **Time.** `controlAPP()` acts only when hour *and* minute differ from the
  check-out time, `setupNTP()` counts its tries.  The Blynk session, the climate
  sensor, the energy meter and the wait for the reader chip compare times of a
  counter that starts over after 49.7 days.
* **An interrupt.**  The pulses of the servo are made by a timer while the
  sketch attaches, writes and detaches; `detach()` leaves the state of the
  interrupt handler as it happens to be, `attach()` does not look at it.
* **Cards that come and go.**  A selection takes several exchanges; between any
  two of them a card may be taken away and another one put down.  Parts of the
  answers carry no check, and the bytes of the UID are written before it is
  known whether the selection succeeds.

The list of hazards with their lines is in `PROJECT.json`.

### What makes each component correct

* Room controller: the door opens only for the permitted card, and shuts again;
  infrared and servo do not run together; nothing is switched on that nobody
  asked for; the report agrees with the room; the room ends up as the database
  asks, and is reported so; the gate of `controlAPP()` uses the check-out time; boot stops only when
  the time server cannot be reached.
* Voice gateway: each request is answered, once and in order; success is told
  only of a command that was stored.
* Firebase client: a call returns what the database held for it, or fails; it
  returns; no call sees what an earlier one left behind.
* Both boards together: of the commands given on the two routes the last one
  wins, or one that was on its way together with it.
* Blynk session: a live session is not closed, a dead one is found out in time,
  a lost one comes back.
* Card reader: the UID the door is opened for is that of one card that has just
  acknowledged it; the selection ends; every card gets its turn; a chip that
  does not answer does not hold up the program.
* Servo: a pulse has the width that was written and comes once in a period.
* Climate report: the sensor is given its rest, what is given out is fresh, a
  failed reading goes away again.
* Energy monitor: one measurement a second over the wrap of the counter, the
  rest of the loop in between; what is shown was computed from what is shown.

## 2. The modules

| Module | What it is |
|---|---|
| `RemoteSwitch` | abstract specification: switches that are commanded from afar (command, latch, apply, power cut) |
| `RoomController` | the MKR1000 sketch with the database, the users, resets and link failures around it; implements `RemoteSwitch` |
| `VoiceGateway` | the ESP32 sketch and the queues of SinricPro, between the server and the database |
| `WorkingSpace` | both boards, composed over the database (`EXTENDS RoomController`, `INSTANCE VoiceGateway`) |
| `RtdbCall` | abstract specification: a call to the database that is answered or fails |
| `FirebaseClient` | `FirebaseData`, its connection and the server; implements `RtdbCall` when replies arrive whole |
| `BlynkSession` | the session of the Blynk library: login, heartbeat, loss, reconnection |
| `CardReader` | `rfidDOOR()` and the selection of a card in the RFID library |
| `ReaderWait` | the wait of the RFID library for its chip |
| `ServoTimer` | the Servo library and its timer interrupt |
| `ClimateReport` | `dhtOLED()` and the DHT library |
| `EnergyMonitor` | `loop()` and `energyMonitor()` of the ESP32 sketch |
| `Millis` | the clock that starts over, and unsigned differences of its values |
| `RoomController_proofs`, `VoiceGateway_proofs`, `WorkingSpace_proofs`, `FirebaseClient_proofs`, `BlynkSession_proofs`, `CardReader_proofs` | theorems about these modules, proved with TLAPS |
| `Devices_proofs` | theorems about `ServoTimer`, `ClimateReport`, `ReaderWait` and `EnergyMonitor`, in the one instance that `MCDevices` makes of them |
| `QueueTheorems` | lemmas about queues that several proofs need |
| `MC*` | the constants of the small instances; `MCDevices` puts the four parts that keep time by themselves into one instance |

`RoomController`, `VoiceGateway` and the database between them are composed in
`WorkingSpace`, because they write the same paths.  The other modules are the
insides of what the room controller or the gateway treats as one step or one
choice:

| Seen from the sketch | Inside |
|---|---|
| the step `DhtOLED` of `RoomController` | `ClimateReport` |
| the card that `RfidDOOR` finds or does not find | `CardReader`, `ReaderWait` |
| what `LinkDown` does to `inbox` | `BlynkSession` |
| a get or a put that is answered, fails or comes late | `FirebaseClient` |
| the angle the servo was last told | `ServoTimer` |
| the energy monitor in the loop of the gateway | `EnergyMonitor` |

### How `RoomController` corresponds to the sketch

The sketch is one sequential program; `pc` names the function (or the call
within it) that comes next.  A step is what the program does between two points
at which somebody else could have changed something it reads: a database call, a
delay, the end of a function.  Statements on displays, LEDs, the buzzer and the
serial port are left out.

| State | In the code |
|---|---|
| `control[a]` | `/CONTROL/LAMP1`, `LAMP2`, `IR APP` |
| `status[a]`, `doorStatus` | `/MEETING ROOM 1/...`, `/IoT Working Space/DOOR` |
| `want[a]` | `dbLamp1`, `dbLamp2`, `dbIRApp` |
| `checkOut`, `tries`, `gotEpoch` | `checkOutHours/Mins`, `numberOfTries`, `epoch != 0` |
| `servo` | whether `myservo` is attached and the last angle written |
| `inbox` | writes of the Blynk app received and not yet handed to `BLYNK_WRITE` |
| `actual`, `door` | the relays, what the infrared codes switch, the arm on the door |
| `online`, `late` | whether the network answers; puts that failed and that the server may yet carry out |
| `issued`, `visitor`, `clean`, `commands`, `faults` | audit variables: no action of the sketch reads them |

Each function of the sketch is one action or a chain of them; `map` in
`PROJECT.json` gives the lines of every definition.  Points worth knowing:

* `controlAPP()` and the `detach()` with which `controlvLAMP()` begins are one
  step, since nothing can come between them.  The clock is a choice among
  `RtcTimes` at every pass; that is weaker than a clock that runs.
* Lamps are driven and then reported, the infrared appliance is reported and then
  driven, as in the code.
* A get gives `TRUE` only with an answer of the right type; otherwise the
  variable stays.  A put, while the link is bad, is stored, lost, or queued in
  `late` and carried out by `CarryOut` at any time, in any order.
* A reset empties the memory, lets the relays fall off and leaves the arm of the
  servo and the infrared appliance (`Sticky` in `RemoteSwitch`) as they are.
* `Servo()` gives a fresh object the default pulse of 1500 us, which is within
  three degrees of the 90 the sketch writes; the model calls both `shut`.
* Replies are taken to arrive whole, so that a get returns what the path held.
  `FirebaseClient` shows under what condition the library guarantees this, and
  that it does not otherwise (`split_replies`).

### How `VoiceGateway` corresponds to the sketch

`SinricPro.handle()` is three stages, `at` says which comes next: `listen` (the
websocket library moves messages to `receiveQueue`), `receive`
(`handleReceiveQueue` pops a request, runs the callback of its device and pushes
the reply; a request for a device or an action that nothing is registered for is
refused, `RefuseRequest`), `send` (`handleSendQueue`).  `wire` is what the server has sent and
the socket has not delivered.  A break of the connection empties `wire` and
leaves the queues; a reset empties both.  Two things can fail: `connected` is the
Wi-Fi with the websocket, `reachable` the database behind it; a put needs both.  A reply can also be written to a
connection that is already dead (`SendReplyInVain`).  Signatures and their time
stamps, the UDP listener and events of the device are left out.

### How `FirebaseClient` corresponds to the library

`at` is where `sendRequest()` is: `sending`, `waiting` (for the first byte, with
the time limit of line 611), `reading` (the loop that ends when `available()` is
zero, line 631).  That loop has a time limit of its own, line 742, after
which the connection is closed (`ReadTimeout`).  A reply is a header and a body,
delivered together or, if `Split`, apart.  `MidRead` lets the connection end between the test of line 623
and the loop.  Values are booleans, as in the calls the sketch makes on
`/CONTROL`; the whole buffer of a line is one segment.

### How `BlynkSession` corresponds to the library

An action is a stretch of `run()` in which no time has to pass: one message of
`processInput()`, or one outcome of the second half of `run()`, which looks at
the clock (the actions with `Checking`).  A message may be one that ends the
connection: a packet that is too big or of an unknown type (`ReadInvalid`).
Between two looks at the clock the sketch may be away for `MaxPass`.  `peer` is the other side of the connection:
`alive` answers within `MaxDelay`, `shaky` is a connection after an outage that
nobody has told the board about; writes to it may fail or vanish, and answers
may still come or not.  `dialing` is the time within `conn.connect()`, `sending`
says who is within a `sendCmd()`, which calls `run()` while it waits and then
writes to whatever connection there is: a write of the sketch (`write`), and,
above it in the stack, the `sendInfo()` that follows a login (`info`).  That wait
is at most a fifteenth of a second and belongs to the pass in which it happens:
`pass` does not start over while somebody waits.  `lastHeartbeat` and `lastLogin` share their
memory in the code (a union) and are the one variable `lastBeat`; where a login
breaks off it becomes the time of an older message (`DialBreaks`), as in the
code.

### How `CardReader` corresponds to the library

A step is one exchange with the cards: `Request` (`PICC_IsNewCardPresent`),
`Anticollision` and `Select` (the two kinds of rounds of `PICC_Select`), and the
comparison of the UID in `RfidDOOR`.  `buffer` holds the bits of a level and
`known` how many of them the reader has decided on; `uid` and `size` outlive the
call, as the member `uid` does.  The cards follow the standard: IDLE, READY on a
level, ACTIVE; they are external.  A card that conforms sends the cascade tag
0x88 exactly when its UID goes on, so that the test of the tag
(`MFRC522.cpp:819`) and that of the cascade bit of the acknowledgement (line 837)
agree; a card on which they differ is outside the model.  `Fault` is an exchange that goes wrong: lost
on the way or on the way back, garbled where nothing is checked, or selected
with the acknowledgement lost after the bytes have been copied.  Lengths, error
codes and the arithmetic of bytes and bits are abstracted to the bits known.

`ReaderWait` is the polling loop in the middle of `PCD_CommunicateWithPICC()`:
`Deadline` is computed before, `Poll` looks at the interrupt bits, `Check` at the
clock.

### How `ServoTimer` corresponds to the library

There is one servo, as in the sketch, so that every second interrupt ends a pulse
and every other one ends a refresh period.  `attach()` and `detach()` are two
steps each, with the interrupt between them; the registers of TC4 are `count`,
`cc`, `match` and `irq`, with sums that keep the width of the register.

### How `ClimateReport` and `EnergyMonitor` correspond to the sketches

`dhtOLED()` is three steps: the read of the temperature, that of the humidity,
and the publication; each read asks the sensor unless it did within
`MIN_INTERVAL`, by `Elapsed`, the unsigned difference.  A value is a number or
"not a number".  `energyMonitor()` is the measurement and one step for each of
its four `Blynk.virtualWrite()`, between which the session may go or come.

## 3. The runs

| Run | Question | Result |
|---|---|---|
| `room_safety` | Do the safety properties and the refinement of `RemoteSwitch` hold at every point of the loop, with two faults and a late put? | holds, 3.2 million states |
| `room_liveness` | Does the room converge, and the door shut, once the link stays up? | holds, 690,000 states |
| `check_out_time` | Does `getCheckIO()` store the check-out time? | violated (finding) |
| `ntp_tries` | Does the boot stop only when no try brought the time? | violated (finding) |
| `voice` | Are requests answered in order, at most once, and do the queues run empty? | holds, 160,000 states |
| `voice_success` | Is success told only of stored commands? | violated (finding) |
| `space` | With both boards, is the last command stored as soon as none is on its way, or one that raced with it, and does the room end up in it? | holds, 930,000 states |
| `whole_replies` | Is the client an atomic call when replies arrive whole, and does it return? | holds, 49,000 states |
| `split_replies` | Does a get return a value of its own path when they do not? | violated (finding) |
| `blynk` | Is a live session kept, a dead one noticed, a lost one replaced? | holds, 880,000 states |
| `card` | Is a UID that was read true, does the selection end, is every card read? | holds, 220,000 states |
| `devices` | Do the parts that keep time by themselves keep it, over the end of the clock? | holds, 320,000 states |

### Properties

Room controller, voice gateway, working space:

* `DoorSafe`: the door is open only in the two seconds of `rfidPermitted()` for
  the permitted card, or after a reset in those seconds until `setupMISC()`.
* `IRWithoutServo`: `controlvLAMP()` runs with the servo detached.
* `NothingUnasked`: an appliance is on only if a user asked for *it* to be on.
* `ReportAgrees`: between two passes of `controlvLAMP()`, the report is the room,
  unless a report was lost, overtaken by an overdue one, or the board was reset.
* `IsRemoteSwitch`: every step is a command, a latch, an application, a power cut
  or nothing, as seen from the switches.
* `Converges`: once the link stays up, every appliance ends in the state the
  database holds for it, and the report under `/MEETING ROOM 1` says so for good,
  although the result of no report is looked at: one that is lost is written
  again by the next pass.  `DoorShutsAgain`: a door left open by a reset is shut
  again.  Both except a boot that hung.
* `AnsweredInOrder`: as long as nothing has broken, the answers, the queues and
  the wire make up what was asked, in its order.  `NeverTwice`: whatever breaks,
  no request is answered twice, none is invented and none overtakes another.
  `SuccessMeansStored`: a reply of success is for a command that was stored.
* `LastIsStored`: with no fault, whenever no command for an appliance waits in the
  inbox of Blynk, on the wire or in a queue of the gateway, `/CONTROL` holds the
  last command given, or one that raced with it.  Two commands race if the later
  one is given while the earlier one still waits on the other route; what was
  stored before then can never come back, although the two boards store in any
  order what they have queued (`last` is the audit variable that remembers, for
  each route, the last command that may still win).  `StaysSettled`, which is
  proved but not part of a run: an appliance that is in the state stored for it
  is not moved before the next command for it arrives.
* `LastCommandWins`: with no fault, each appliance ends in the state asked for
  last, or in that of a command that raced with it.  Which of two racing commands
  wins is not determined by the code: a tap that waits in the buffer of Blynk
  overwrites a voice command that is given while it waits.
* `EveryRequestAnswered`: once the websocket stays up the queues run empty,
  whether the database can be reached or not.

Database client:

* `NoStrayReply`: no call begins with anything of an earlier reply on its way.
* `GetReturnsAsked`: a get that reports success gives a value its path had during
  the call.
* `IsRtdbCall`, `EveryCallReturns`.

Blynk session:

* `LiveKept`: if passes are short (`ShortPasses`), the heartbeat never finds a
  session too silent whose server answers.  The condition
  `2 * MaxPass + MaxDelay <= 2 * Timeout` is what is left of the three timeouts
  when the clock has come round to the last heartbeat and puts off the ping for
  one of them.  Passes of the real room controller that read the database over a
  bad link can be longer, and then live sessions are closed.
* `DeadNoticed`: the silence of a session, measured in true time, never exceeds
  the heartbeat, three timeouts and one pass, wherever the clock is.
* `LoginAwaited`, which is proved but not part of a run: a login that a healthy
  server answers within the time limit is not given up, whatever earlier sessions
  and attempts left behind in the memory that holds the time of the login.
* `LoginEnds`, likewise: no login, to a healthy server or to one that is gone, is
  waited for longer than the time limit and one pass.
* `Reconnects`: once the server can be reached for good the board has a session
  and keeps it, unless its token was refused.

Card reader:

* `ReadIsTrue`: a UID that was read is, as a whole, that of a card that has just
  acknowledged; `OneChosen`: all other cards on the reader are idle then;
  `VerdictRight`: the door is opened if and only if that card is the key.
* `LoopEnds`: a level takes at most as many rounds as it has bits.
* `BothAreRead`: one or two cards that stay are each read again and again.  It
  rests on the card that was read falling back to IDLE at the next request,
  since the sketch never halts a card.
* `HeldUpShortly` (`ReaderWait`): a chip that does not answer holds the program up
  for the time limit and one pass, also when the deadline lies beyond the end of
  the counter.  Left out is a pass that jumps from before the deadline over the
  end of the counter.
* `GivenItsTime`, a property of the steps: a chip is given up only after its time
  limit, with one exception, which the property names: the deadline has started
  over and the counter has not, in the last `Wait` ticks of the counter.

Servo, climate report, energy monitor:

* `PulseRight`, `RefreshKept`: pulses that no `attach()` or `detach()` falls into
  have their width and their distance; `KeepsPulsing`: whatever an earlier
  `detach()` left behind, an attached servo is pulsed for ever.
* `SensorRests`, `Fresh`, `Recovers`: the sensor is asked at most once in
  `MIN_INTERVAL`, what is given out is younger than that, and "not a number"
  leaves the app once the sensor works again.
* `OnTime`, `RestOfTheLoop`: a measurement is due once in a second, also when the
  clock starts over, and never twice within one; `WidgetsAgree`: after a
  measurement with an unbroken session the power shown is that of the voltage
  and the current shown.

### Bounds, and why they are enough

Most safety properties are proved for every value of the constants (section 4);
for them a run is a test of the model, not the argument.  The bounds matter for
the liveness properties.

* Appliances: one lamp and the infrared appliance.  Lamps differ from one another
  only in pin and path; two appliances show a mix-up, and one of each kind shows
  both orders of switching and reporting.
* Commands: one in `room_*` (on top of an arbitrary database at the start), two
  on either route in `space`, where they race.  Faults: two in `room_*`, a reset
  and a link failure being the shortest way to leave the door open behind a
  missing Wi-Fi.  One late put in `room_safety`; none in `room_liveness`, where
  the number of late puts is finite anyway and only the state space grows.
* `space` has no faults: both its properties assume that there are none, and
  `room_safety` and `voice` have those of one board each.
* Clock of the room: two moments, chosen so that the gate is open at one and
  closed at another.  Tries: two instead of six where the number does not matter.
* `voice`: three requests of three kinds (one switch on, off, and one that nobody
  knows) and two breaks, enough for an answer in each queue and one on the wire
  and for a break before and after it is sent.  That two switches are not mixed
  up is for `space`.
* `FirebaseClient`: two paths, three segments on the way: the late half of one
  reply and the two halves of the next.
* `blynk`: the clock starts over after ten ticks, so that it comes round several
  times while a session lasts and all stamps get older than a turn of it.  The
  limits are a heartbeat of one tick, a timeout of two, and a delay of two, with
  which `ShortPasses` holds with equality.  Two faults: a session is lost and the
  next login is, too.
* `card`: levels of three bits, two of them; four cards, of which two share their
  first level and one carries the UID of the key on its second level.  Each card
  may come and go at any time, which the bounds leave unlimited; one exchange
  goes wrong.
* `devices`: the four parts share no variable, so that neither can disturb
  another and each is explored by itself; a clock of 16 ticks with intervals of
  four and five comes round while they are used.  The counter of the servo has 16
  values and a period of 12, so that it runs over as the real one does (65,536
  and 60,000 ticks) when nothing stops it.

### Fairness

* The processor of a board keeps running: weak fairness of the steps of the
  sketch, nothing for users, cards, links and faults.
* `controlAPP()`: a pass takes seconds and the clock moves on, so that it is not
  in a forbidden minute at every pass; strong fairness of the open gate.  Without
  it the clock, which is a free choice, could show the check-out hour for ever.
* The websocket loop reads what its socket holds: strong fairness of a `Listen`
  that takes something, since it alternates with the other stages.
* Time goes on: weak fairness of the tick in `blynk` and of the timer of the
  servo, strong in `ClimateReport`, where a step of the loop resets the bound on
  the pause and may thereby disable the tick for a moment: each pass of the
  loop takes time.
* A healthy Blynk server answers (`Answer`), and the interrupt of the servo is
  served.
* A `sendCmd()` of Blynk that waits for its turn gets it (`Sent`): the wait has a
  limit of a fifteenth of a second.
* Liveness is claimed under `<>[]online`, `<>[]connected`, `<>[]~outage` or
  `<>[](works /\ reachable)`: the code waits for what is missing without a limit
  and nothing makes it come back.

## 4. The proofs

Theorems for any value of the constants that the named assumption admits (any
number of lamps, requests, cards, bits, faults; any clock and any time limits).

| Theorem | States | Rests on |
|---|---|---|
| `RoomController_proofs` | | `ControllerAssumption` |
| `TypeCorrect` | `[]TypeOK` | |
| `DoorIsSafe` | `[]DoorSafe` | |
| `ServoIsDetached` | `[]IRWithoutServo` | |
| `NothingIsUnasked` | `[]NothingUnasked` | |
| `ReportIsTrue` | `[]ReportAgrees` | |
| `ControllerIsRemoteSwitch` | `IsRemoteSwitch`, the refinement | |
| `VoiceGateway_proofs` | | `GatewayAssumption` |
| `GatewayTypeCorrect` | `[]TypeOK` | |
| `RequestsAnsweredInOrder` | `[]AnsweredInOrder` | |
| `NeverAnsweredTwice` | `[]NeverTwice` | |
| `SuccessIsTrueUntilABreak` | `[](breaks = 0 => SuccessMeansStored)` | |
| `WorkingSpace_proofs` | | `ControllerAssumption`, `WorkingAssumption` |
| `WorkingTypeCorrect` | `[]WorkingTypeOK` | |
| `NothingIsUnaskedOnEitherRoute` | `[]NothingUnasked` | |
| `ControllerKeepsItsPromises` | `[]DoorSafe`, `[]IRWithoutServo`, `[]ReportAgrees` | |
| `WorkingSpaceIsRemoteSwitch` | `IsRemoteSwitch`, the refinement | |
| `GatewayIsUndisturbed` | `Voice!Spec` | |
| `TheLastCommandIsStored` | `[]LastIsStored` | |
| `TheSettledStaySo` | `StaysSettled` | |
| `FirebaseClient_proofs` | | `ClientAssumption` |
| `ClientTypeCorrect` | `[]TypeOK` | |
| `NothingIsLeft` | `[]NoStrayReply` | `Split = FALSE`, `MidRead = FALSE` |
| `ClientIsRtdbCall` | `IsRtdbCall`, the refinement | the same |
| `GetsAreTrue` | `GetReturnsAsked` | the same |
| `BlynkSession_proofs` | | `SessionAssumption`, `ClockAssumption` |
| `SessionTypeCorrect` | `[]TypeOK` | |
| `DeadIsNoticed` | `[]DeadNoticed` | |
| `LiveIsKept` | `[]LiveKept` | |
| `LoginIsAwaited` | `[]LoginAwaited` | |
| `LoginIsGivenUp` | `[]LoginEnds` | |
| `CardReader_proofs` | | `CardAssumption` |
| `ReaderTypeCorrect` | `[]TypeOK` | |
| `UidIsNotMixed` | `[]ReadIsTrue` | |
| `OnlyOneChosen` | `[]OneChosen` | |
| `AnticollisionEnds` | `[]LoopEnds` | |
| `DoorIsForTheKey` | `VerdictRight` | |
| `Devices_proofs`, of `ServoTimer` | | `TimerAssumption` |
| `TimerTypeCorrect` | `[]ServoTypeOK` | |
| `PulsesAreRight` | `PulseRight` | |
| `RefreshIsKept` | `RefreshKept` | |
| of `ClimateReport` | | `ClimateAssumption`, `ClockAssumption` |
| `ClimateTypeCorrect` | `[]ClimateTypeOK` | |
| `SensorGetsItsRest` | `SensorRests` | |
| `ReadingsAreFresh` | `Fresh` | |
| of `EnergyMonitor` | | `EnergyAssumption`, `ClockAssumption` |
| `EnergyTypeCorrect` | `[]EnergyTypeOK` | |
| `MeasuredOnTime` | `[]OnTime` | |
| `LoopHasItsTime` | `RestOfTheLoop` | |
| `WidgetsShowOneMeasurement` | `[]WidgetsAgree` | |
| of `ReaderWait` | | `WaitAssumption`, `ClockAssumption` |
| `WaitTypeCorrect` | `[]WaitTypeOK` | |
| `SketchIsHeldUpShortly` | `[]HeldUpShortly` | |
| `ChipIsGivenItsTime` | `GivenItsTime` | |
| of `MCDevices` | | all of these |
| `DevicesTypeCorrect` | `[]TypeOK` | |

The assumptions are about the bounds being numbers, and these: `Key` is not a
stranger and no two cards have the same UID; the longest time that is measured
is below one turn of the clock; a pulse fits into its period and the period into
the counter of the timer.  The constants of the code satisfy them by orders of
magnitude.  `Split = FALSE` and `MidRead = FALSE` are hypotheses of three
theorems about the database client and not assumptions of the module: the code
does not guarantee them, and `split_replies` shows what happens without the
first.

The inductive invariants, and why the properties need them:

* `RoomController`.  `TypeInv` adds to `TypeOK` how far `setupNTP()` has counted at
  each point of the boot, without which `tries` could pass `MaxTries`.  `DoorInv`
  adds the angle the servo was last told (shut, whenever the loop could attach it
  again) and that servo and visitor stay what they are between `attach()` and the
  closing `write()`.  `CommandInv` follows a command backwards along its way:
  what is on was latched, what was latched was in the database, what is or may
  yet get there was asked for, and so was what waits in the inbox.  `ReportInv`
  says how far a pass of `controlvLAMP()` has come.  The refinement needs
  `TypeInv` alone.
* `VoiceGateway`.  The *path* of the requests is what was answered, then the send
  queue, the receive queue and the wire, one after the other.  Every step leaves
  the path alone, appends a new request to it, or, in a break, cuts a part of it
  out.  So it stays increasing, and without breaks it is all that was asked.
  `NothingLost`: until the first break the link is up and the database can be
  reached, every put is stored, and
  every reply, sent or not, is for a command that was.
* `WorkingSpace`.  For the controller a step is one of its own or one of two more
  (`Joint`): the gateway stores a command that was given before, or one is given
  that nobody has stored yet.  The invariants of the controller survive both,
  provided that what travels by voice was asked for (`OnTheWire`).  For the
  gateway every step of the controller is that of another client of the database.
  `LatestInv` is what `LastIsStored` needs: while nothing has failed, no put is
  overdue on either board (`Quiet`), the last command on a route that is not yet
  stored is the last one there for its appliance (`Latest`), and where neither
  route holds one for an appliance, the database holds one that `last` remembers.
  It is kept by `Traffic`, the things that can happen to the commands: one is
  given on a route, the first one of a route is stored, or nothing but a move
  along the route.  A new command makes `last` forget the other route only where
  no command waits (`LatestStays`).
* `FirebaseClient`.  The one request of a call, or the one reply to it, is in one
  place (`Pipe`): nothing is under way between the calls.  This is what a reply
  in two pieces breaks.  `Truthful`: what is on its way back to a get is a value
  that its path had since the call began.
* `BlynkSession`.  `Heard`: while there is a session, true silence is what the
  clock shows, and it grows only with the pass since `run()` last found it short
  enough.  For `LiveKept`, `Cared`: a request that the server owes an answer is old
  enough to explain the silence, or a ping is not yet due or put off for no more
  than a timeout.  For `LoginAwaited`, `NewConnection`: while a login waits on a
  healthy connection without an answer, one that the server still owes is as old
  as the time the board measures.  For `LoginEnds`, `LoginYoung`: that time grows
  only with the pass since `run()` last found it within the limit.
* `CardReader`.  `Selecting`: a card that is not idle is on the level at hand and
  agrees with the levels read so far; that a level was acknowledged is what
  carries this to the next one.  Each round makes more bits known
  (`tries <= known`).
* `ReaderWait`.  The clock is the begin of the command plus the time spent.
* `ServoTimer`.  While the servo stays attached the counter counts from the rise
  of the pin, up to the end of the pulse (`InPulse`), then to that of the period
  (`InPeriod`).
* `ClimateReport`, `EnergyMonitor`.  The difference the program computes is the
  true time since the event, or, before the first one, long enough.

Every invariant, every refinement and every safety property of the steps that a
passing run checks is stated by one of these theorems.  What stays with TLC:

* The liveness properties (`Converges`, `DoorShutsAgain`, `EveryRequestAnswered`,
  `LastCommandWins`, `EveryCallReturns`, `Reconnects`, `BothAreRead`,
  `KeepsPulsing`, `Recovers`): the prover has no rule for fairness or `ENABLED`.
* Theorems about a module that is instantiated cannot be cited: that requests are
  answered in order beside the controller, too, follows from
  `GatewayIsUndisturbed` and `RequestsAnsweredInOrder`, but only on paper.

`MCDevices` chooses one of the four devices and lets it alone run, since they
share no variable.  The lemma `EachKeepsItsSpec` of `Devices_proofs` says no more
than that a behaviour of the instance is one of each of the four (which, but for
the chosen one, stand still); it carries their theorems over to the instance.

## 5. Findings

* `getCheckIO()`, "Get Check Out Time From Database", reads `/CHECKIN` into the
  same two variables after `/CHECKOUT` (`MKR:357-366`): the gate of
  `controlAPP()` compares with the check-in time, or, when one of the four reads
  fails, with the hour of one booking and the minute of the other.
* `setupNTP()` stops for ever with "NTP unreachable!!" when the sixth try is the
  one that succeeds (`MKR:87`).
* The voice assistant is told of success whatever became of the put
  (`ESP:140`, `152`, `164`), against the contract of the callback.
* The client takes what is in the buffer for the whole reply and a missing status
  line for success (`Firebase.cpp:631`, `885`): the late body of one reply becomes
  the value of another path.  With `MidRead = TRUE` a connection that ends at the
  wrong moment has the same effect.

Met on the way, and shown by what the properties had to leave out:

* `detach()` in the middle of a pulse leaves the pin HIGH until the servo is
  attached again (`samd/Servo.cpp:237-240`), although `Servo.h:45` says that it
  stops the pulses.  `PulseRight` speaks of pulses without a `detach()`.
* The deadline of the reader is compared with `<` across the end of the counter
  (`MFRC522.cpp:497-499`, `513`): in the last 36 ms of 49.7 days a command is
  given up after one look.  `GivenItsTime` shows that this is the only case.
* A tap in the Blynk app that still waits in the buffer when a voice command is
  given may be stored after it and win.  `LastCommandWins` admits it.
* Of three cards on the reader the third may never be read: nobody halts a card,
  and the first two take turns.  `BothAreRead` speaks of two.
* A reading that failed is published as "not a number" (`MKR:312-313`);
  `Recovers` shows that it does not stay.
* A pass of the room controller that lasts too long costs a live Blynk session;
  `LiveKept` names the limit.

## 6. Not modelled

* The display and Wi-Fi libraries: output only, or seen from outside as a link
  that is up or down and a buffer that may be lost.
* EmonLib and ZMPT101B: signal processing in floating point; their results are
  free choices in `EnergyMonitor`.
* `lcdDate()` and the buzzer, which change nothing that anybody reads;
  `offApp()`, which is never called.
* Of SinricPro: signatures and their time stamps (a request that fails the test
  is taken not to have been sent), the UDP listener, and events of the device,
  which the sketch does not send.
* Of Blynk: `disconnect()`, which no sketch calls, and calls of `run()` within
  `run()` from a handler.
* Parts of the libraries that the sketches do not use: of the database client
  streams, queries, pushes and files; of the RFID library authentication, reading
  and writing of cards and the self test.
* Replies of the database other than 200 (a refused token, a redirect): the
  servers are taken to accept the boards' credentials.
* The database client of the ESP32 (`Firebase_ESP32_Client`): the gateway writes
  with it and ignores its result, so that it is a put that is stored, lost or
  late.
* Earlier versions of the sketches and the bench sketches, which are superseded.

Most of the repository is `src/libraries`, a snapshot of an Arduino library
folder with about a million lines, of boards, radios, network stacks and
converters neither sketch includes.  The models cover the two sketches and
the parts of the libraries on which their behaviour rests; in lines that is a
small share of the whole.

## 7. Possible extensions

* `BlynkSession` inside `RoomController`: the callbacks of `BLYNK_WRITE` and the
  loss of the inbox with the session.  The state space of the two together is
  beyond a run of some minutes; a proof would have to carry it.
* The UDP listener of SinricPro, with each reply routed to the interface its
  request came from.
* An abstract specification of the gateway, a queue that may lose requests, and
  a proof that the gateway implements it, along `Path`.
* `GateOpen` as a function of the day, compared over all 1440 minutes with the
  reference "not at the check-out time", from which it is known to differ.

## 8. Running

```
tlc -workers 2 -config RoomSafety.cfg MCRoomController
tlc -workers 2 -config Blynk.cfg BlynkSession
tlc -workers 2 -config Devices.cfg MCDevices
tlapm RoomController_proofs.tla
```

The module and the configuration of every run are in `PROJECT.json`.
