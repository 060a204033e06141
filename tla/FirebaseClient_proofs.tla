------------------------- MODULE FirebaseClient_proofs -------------------------
(***************************************************************************)
(* Proofs that the database client, as long as every reply is delivered in *)
(* one piece and no connection ends while a reply is read, is the call to  *)
(* the database that RtdbCall describes, for any paths and any number of   *)
(* calls, and that its gets are true.  TLC shows what happens without the  *)
(* two conditions; the types, at the end, do not need them.                *)
(***************************************************************************)
EXTENDS FirebaseClient, QueueTheorems, TLAPS

Whole(v) == [head |-> TRUE, body |-> v]

LEMMA WholeIsASegment ==
    ASSUME NEW v \in Value
    PROVE  Whole(v) \in Segment /\ Whole(v).body = v /\ Whole(v).head
    BY DEF Whole, Segment

\* Sequences of one element and of none.
LEMMA Single ==
    ASSUME NEW x
    PROVE  /\ <<x>> # <<>>
           /\ Head(<<x>>) = x
           /\ Tail(<<x>>) = <<>>
           /\ Append(<<>>, x) = <<x>>
           /\ <<>> \o <<x>> = <<x>>
    OBVIOUS

LEMMA SingleSeq ==
    ASSUME NEW S, NEW x \in S
    PROVE  <<>> \in Seq(S) /\ <<x>> \in Seq(S)
    OBVIOUS

LEMMA PutsOfSingle ==
    /\ Puts(<<>>) = {}
    /\ \A c \in Call : Puts(<<c>>) \in {{}, {c}}
    BY DEF Puts

Empty == up = <<>> /\ down = <<>> /\ buffer = <<>>

\* The types of everything but the sequences.
Scalars ==
    /\ db \in [Path -> Value]
    /\ at \in {"idle", "sending", "waiting", "reading"}
    /\ call \in Call \cup {None}
    /\ httpCode \in {0, 200}
    /\ respBuf \in Value \cup {None}
    /\ dataType \in {"null", "boolean"}
    /\ payload \in Value \cup {None}
    /\ result \in [ok : BOOLEAN, value : Value \cup {None}]
    /\ open \in BOOLEAN
    /\ late \subseteq Call
    /\ held \subseteq Value

\* The one request of the call, or the one reply to it, is in one place.
Asked    == up = <<call>> /\ down = <<>> /\ buffer = <<>>
Coming   == up = <<>> /\ buffer = <<>> /\ \E v \in Value : down = <<Whole(v)>>
Received == up = <<>> /\ down = <<>> /\ \E v \in Value : buffer = <<Whole(v)>>

Pipe ==
    /\ call = None <=> at = "idle"
    /\ ~open => Empty
    /\ at \in {"idle", "sending"} => Empty
    /\ at = "waiting" => Empty \/ Asked \/ Coming \/ Received
    /\ at = "reading" =>
          Received \/ (Empty /\ httpCode = 200 /\ respBuf \in Value)

ClientInv == Scalars /\ Pipe

LEMMA NotACall == ClientInv /\ at # "idle" => call \in Call /\ call # None
    BY ClientAssumption DEF ClientInv, Scalars, Pipe

LEMMA ClientInit == Init => ClientInv
<1> SUFFICES ASSUME Init PROVE ClientInv
    OBVIOUS
<1>1. Scalars
    BY DEF Init, Scalars
<1>2. Pipe
    BY DEF Init, Pipe, Empty
<1> QED
    BY <1>1, <1>2 DEF ClientInv

\* What the end of a connection leaves.
LEMMA SeverStep ==
    ASSUME ClientInv, Sever
    PROVE  /\ Empty' /\ open' = FALSE
           /\ late' \in {late, late \cup {call}}
           /\ late' \subseteq Call
           /\ at \in {"idle", "sending"} => late' = late
<1>1. Empty' /\ open' = FALSE /\ late' = late \cup Puts(up)
    BY DEF Sever, Empty
<1>2. CASE up = <<>>
    BY <1>1, <1>2, PutsOfSingle DEF ClientInv, Scalars
<1>3. CASE up # <<>>
  <2>1. at = "waiting" /\ up = <<call>>
    BY <1>3 DEF ClientInv, Scalars, Pipe, Empty, Asked, Coming, Received
  <2>2. call \in Call
    BY <2>1, NotACall
  <2>3. Puts(up) \in {{}, {call}}
    BY <2>1, <2>2, PutsOfSingle
  <2> QED
    BY <1>1, <2>1, <2>2, <2>3 DEF ClientInv, Scalars
<1> QED
    BY <1>2, <1>3

LEMMA GiveUpStep ==
    ASSUME ClientInv, GiveUp, db' = db, httpCode' = httpCode,
           respBuf' = respBuf, dataType' = dataType, payload' = payload,
           held' = held
    PROVE  ClientInv'
<1>1. Empty' /\ open' = FALSE /\ late' \subseteq Call
    BY SeverStep DEF GiveUp, CloseTCP
<1>2. at' = "idle" /\ call' = None /\ result' = [ok |-> FALSE, value |-> None]
    BY DEF GiveUp
<1> QED
    BY <1>1, <1>2 DEF ClientInv, Scalars, Pipe

LEMMA AfterType ==
    ASSUME db \in [Path -> Value], NEW c \in Call
    PROVE  After(c) \in [Path -> Value] /\ c.path \in Path
    BY DEF After, Call

LEMMA NoteType ==
    ASSUME db' \in [Path -> Value], held \subseteq Value, NEW p \in Path, Note(p)
    PROVE  held' \subseteq Value
    BY DEF Note

\* A step of another client, or of the server for a call given up.
LEMMA WriteStep ==
    ASSUME ClientInv, db' \in [Path -> Value], late' \subseteq Call,
           held' \subseteq Value, UNCHANGED fbdo,
           UNCHANGED <<open, up, down, buffer>>
    PROVE  ClientInv'
    BY DEF ClientInv, Scalars, Pipe, fbdo, Empty, Asked, Coming, Received

\* The reply that Finish takes.
LEMMA FinishOutcome ==
    ASSUME ClientInv, Finish
    PROVE  /\ payload' = respBuf /\ respBuf \in Value
           /\ dataType' = "boolean"
           /\ result' = [ok |-> TRUE, value |-> respBuf]
<1>1. at = "reading" /\ buffer = <<>>
    BY DEF Finish
<1>2. httpCode = 200 /\ respBuf \in BOOLEAN /\ respBuf # None
    BY <1>1, Single, ClientAssumption DEF ClientInv, Pipe, Received, Value
<1>3. payload' = respBuf
    BY <1>2 DEF Finish
<1>4. dataType' = "boolean"
    BY <1>2 DEF Finish, TypeOf
<1>5. result' = [ok |-> call.op = "put" \/ dataType' = "boolean",
                 value |-> IF dataType' = "boolean"
                             THEN payload' # None /\ payload' ELSE None]
    BY Zenon DEF Finish, Outcome
<1>6. result' = [ok |-> TRUE, value |-> respBuf]
  <2>1. (call.op = "put" \/ dataType' = "boolean") = TRUE
    BY <1>4, Zenon
  <2>2. (payload' # None /\ payload') = respBuf
    BY <1>2, <1>3, Zenon
  <2> QED
    BY <1>4, <1>5, <2>1, <2>2, Zenon
<1> QED
    BY <1>2, <1>3, <1>4, <1>6 DEF Value

LEMMA ClientStep ==
    ASSUME Split = FALSE, MidRead = FALSE
    PROVE  ClientInv /\ [Next]_vars => ClientInv'
<1> SUFFICES ASSUME ClientInv, [Next]_vars PROVE ClientInv'
    OBVIOUS
<1>1. ASSUME NEW c \in Call, Begin(c) PROVE ClientInv'
  <2>1. db[c.path] \in Value
    BY AfterType DEF ClientInv, Scalars
  <2>2. c # None
    BY ClientAssumption
  <2> QED
    BY <1>1, <2>1, <2>2
    DEF Begin, network, ClientInv, Scalars, Pipe, Empty
<1>2. CASE NoWiFi
    BY <1>2 DEF NoWiFi, network, ClientInv, Scalars, Pipe, Empty
<1>3. CASE Send
  <2>1. call \in Call /\ call # None
    BY <1>3, NotACall DEF Send
  <2>2. up' = <<call>> /\ down' = <<>> /\ buffer' = <<>>
    BY <1>3, Single DEF Send, ClientInv, Pipe, Empty
  <2>3. Asked' /\ at' = "waiting" /\ open' /\ open' \in BOOLEAN
    BY <1>3, <2>2, Zenon DEF Send, Asked
  <2>4. Scalars'
    BY <1>3, <2>3 DEF Send, ClientInv, Scalars
  <2> QED
    BY <1>3, <2>1, <2>3, <2>4 DEF Send, ClientInv, Pipe
<1>4. CASE CannotConnect
    BY <1>4, GiveUpStep DEF CannotConnect
<1>5. CASE FirstByte
  <2>1. Received
    BY <1>5 DEF FirstByte, ClientInv, Pipe, Empty, Asked, Coming
  <2>2. Received' /\ at' = "reading" /\ call' = call /\ open' = open /\ open
    BY <1>5, <2>1 DEF FirstByte, network, Received
  <2> QED
    BY <1>5, <2>2 DEF FirstByte, network, ClientInv, Scalars, Pipe
<1>6. CASE NoAnswer \/ ReadTimeout
    BY <1>6, GiveUpStep DEF NoAnswer, ReadTimeout
<1>7. CASE ReadSegment
  <2>1. PICK v \in Value : buffer = <<Whole(v)>>
    BY <1>7 DEF ReadSegment, ClientInv, Pipe, Empty, Received
  <2>2. httpCode' = 200 /\ respBuf' = v /\ buffer' = <<>>
    BY <1>7, <2>1, Single, WholeIsASegment DEF ReadSegment
  <2>3. up' = <<>> /\ down' = <<>>
    BY <1>7, Single DEF ReadSegment, ClientInv, Pipe, Empty, Received
  <2> QED
    BY <1>7, <2>2, <2>3 DEF ReadSegment, ClientInv, Scalars, Pipe, Empty
<1>8. CASE Finish
  <2>1. Empty
    BY <1>8, Single DEF Finish, ClientInv, Pipe, Received
  <2>2. /\ payload' \in Value /\ dataType' = "boolean"
        /\ result' \in [ok : BOOLEAN, value : Value \cup {None}]
    <3>1. \A v \in Value :
              [ok |-> TRUE, value |-> v] \in [ok : BOOLEAN, value : Value \cup {None}]
      OBVIOUS
    <3> QED
      BY <1>8, <3>1, FinishOutcome, Zenon
  <2> QED
    BY <1>8, <2>1, <2>2
    DEF Finish, network, ClientInv, Scalars, Pipe, Empty
<1>9. CASE Serve
  <2>1. Asked /\ at = "waiting" /\ open
    BY <1>9 DEF Serve, ClientInv, Scalars, Pipe, Empty, Coming, Received
  <2>2. call \in Call /\ Head(up) = call /\ Tail(up) = <<>>
    BY <2>1, NotACall, Single DEF Asked
  <2>3. db' = After(call) /\ Note(call.path) /\ down' = down \o Reply(db'[call.path])
    BY <1>9, <2>2 DEF Serve
  <2>4. db' \in [Path -> Value] /\ call.path \in Path /\ held' \subseteq Value
    BY <2>2, <2>3, AfterType, NoteType DEF ClientInv, Scalars
  <2>5. down' = <<Whole(db'[call.path])>> /\ up' = <<>> /\ buffer' = <<>>
    BY <1>9, <2>1, <2>2, <2>3, Single DEF Serve, Reply, Whole, Asked
  <2>6. Coming'
    BY <2>4, <2>5 DEF Coming
  <2> QED
    BY <1>9, <2>1, <2>4, <2>6 DEF Serve, fbdo, ClientInv, Scalars, Pipe
<1>10. CASE Arrive
  <2>1. Coming /\ at = "waiting" /\ open
    BY <1>10 DEF Arrive, ClientInv, Scalars, Pipe, Empty, Asked, Received
  <2>2. Received'
    BY <1>10, <2>1, Single DEF Arrive, Coming, Received
  <2> QED
    BY <1>10, <2>1, <2>2 DEF Arrive, fbdo, ClientInv, Scalars, Pipe
<1>11. CASE Drop
  <2>1. Empty' /\ open' = FALSE /\ late' \subseteq Call /\ at # "reading"
    BY <1>11, SeverStep DEF Drop
  <2> QED
    BY <1>11, <2>1 DEF Drop, fbdo, ClientInv, Scalars, Pipe
<1>12. ASSUME NEW c \in Call, CarryOutLate(c) PROVE ClientInv'
  <2>1. db' \in [Path -> Value] /\ held' \subseteq Value
    BY <1>12, AfterType, NoteType DEF CarryOutLate, ClientInv, Scalars
  <2> QED
    BY <1>12, <2>1, WriteStep DEF CarryOutLate, ClientInv, Scalars
<1>13. ASSUME NEW p \in Path, NEW v \in Value, OtherWrite(p, v)
       PROVE  ClientInv'
  <2>1. db' \in [Path -> Value] /\ held' \subseteq Value
    BY <1>13, NoteType DEF OtherWrite, ClientInv, Scalars
  <2> QED
    BY <1>13, <2>1, WriteStep DEF OtherWrite, network, ClientInv, Scalars
<1>14. CASE UNCHANGED vars
    BY <1>14
    DEF vars, ClientInv, Scalars, Pipe, Empty, Asked, Coming, Received
<1> QED
    BY <1>1, <1>2, <1>3, <1>4, <1>5, <1>6, <1>7, <1>8, <1>9, <1>10, <1>11,
       <1>12, <1>13, <1>14
    DEF Next, Client

(* Nothing of one call is left for the next one.                           *)
THEOREM NothingIsLeft ==
    ASSUME Split = FALSE, MidRead = FALSE
    PROVE  Spec => []NoStrayReply
<1>1. ClientInv => NoStrayReply
    BY DEF ClientInv, Pipe, Empty, NoStrayReply
<1> QED
    BY <1>1, ClientInit, ClientStep, PTL DEF Spec

\* The reply of the call, wherever it is.
LEMMA AnswerIs ==
    /\ at \in {"idle", "sending"} => Answer = None
    /\ at = "waiting" /\ (Empty \/ Asked) => Answer = None
    /\ \A v \in Value :
          at = "waiting" /\ down = <<Whole(v)>> => Answer = v
    /\ \A v \in Value :
          at = "waiting" /\ down = <<>> /\ buffer = <<Whole(v)>> => Answer = v
    /\ \A v \in Value : at = "reading" /\ buffer = <<Whole(v)>> => Answer = v
    /\ at = "reading" /\ buffer = <<>> => Answer = respBuf
<1>1. at \in {"idle", "sending"} => Answer = None
    BY DEF Answer
<1>2. at = "waiting" /\ (Empty \/ Asked) => Answer = None
    BY DEF Answer, Empty, Asked
<1>3. \A v \in Value : at = "waiting" /\ down = <<Whole(v)>> => Answer = v
    BY Single, WholeIsASegment DEF Answer
<1>4. \A v \in Value :
          at = "waiting" /\ down = <<>> /\ buffer = <<Whole(v)>> => Answer = v
    BY Single, WholeIsASegment DEF Answer
<1>5. \A v \in Value : at = "reading" /\ buffer = <<Whole(v)>> => Answer = v
    BY Single, WholeIsASegment DEF Answer
<1>6. at = "reading" /\ buffer = <<>> => Answer = respBuf
    BY DEF Answer
<1> QED
    BY <1>1, <1>2, <1>3, <1>4, <1>5, <1>6

LEMMA NotNone == \A v \in Value : v # None
    BY ClientAssumption DEF Value

\* The reply stays the same on its way.
LEMMA AnswerTravels ==
    ASSUME ClientInv, FirstByte \/ ReadSegment \/ Arrive
    PROVE  Answer' = Answer
<1>1. CASE FirstByte
  <2>1. Received /\ at = "waiting"
    BY <1>1 DEF FirstByte, ClientInv, Pipe, Empty, Asked, Coming
  <2>2. PICK v \in Value : down = <<>> /\ buffer = <<Whole(v)>>
    BY <2>1 DEF Received
  <2>3. Answer = v
    BY <2>1, <2>2, AnswerIs
  <2>4. at' = "reading" /\ buffer' = buffer /\ down' = down
    BY <1>1 DEF FirstByte, network
  <2>5. Answer' = Head(buffer').body
    BY <2>2, <2>4, Single DEF Answer
  <2>6. Answer' = v
    BY <2>2, <2>4, <2>5, Single, WholeIsASegment
  <2> QED
    BY <2>3, <2>6
<1>2. CASE ReadSegment
  <2>1. PICK v \in Value : buffer = <<Whole(v)>>
    BY <1>2 DEF ReadSegment, ClientInv, Pipe, Empty, Received
  <2>2. Answer = v
    BY <1>2, <2>1, AnswerIs DEF ReadSegment
  <2>3. buffer' = <<>> /\ at' = "reading" /\ respBuf' = v
    BY <1>2, <2>1, Single, WholeIsASegment DEF ReadSegment
  <2>4. Answer' = v
    BY <2>3 DEF Answer
  <2> QED
    BY <2>2, <2>4
<1>3. CASE Arrive
  <2>1. Coming /\ at = "waiting"
    BY <1>3 DEF Arrive, ClientInv, Scalars, Pipe, Empty, Asked, Received
  <2>2. PICK v \in Value : down = <<Whole(v)>> /\ buffer = <<>>
    BY <2>1 DEF Coming
  <2>3. Answer = v
    BY <2>1, <2>2, AnswerIs
  <2>4. at' = "waiting" /\ down' = <<>> /\ buffer' = <<Whole(v)>>
    BY <1>3, <2>1, <2>2, Single DEF Arrive, fbdo
  <2>5. Answer' = Head(buffer').body
    BY <2>4, Single DEF Answer
  <2>6. Answer' = v
    BY <2>4, <2>5, Single, WholeIsASegment
  <2> QED
    BY <2>3, <2>6
<1> QED
    BY <1>1, <1>2, <1>3

\* The server answers with what it has then.
LEMMA AnswerOfServe ==
    ASSUME Split = FALSE, ClientInv, Serve
    PROVE  /\ call \in Call /\ call # None /\ Head(up) = call
           /\ Answer = None /\ Answer' = db'[call.path]
           /\ db' = After(call) /\ Note(call.path)
<1>1. Asked /\ at = "waiting"
    BY DEF Serve, ClientInv, Scalars, Pipe, Empty, Coming, Received
<1>2. call \in Call /\ call # None /\ Head(up) = call
    BY <1>1, NotACall, Single DEF Asked
<1>3. Answer = None
    BY <1>1, AnswerIs
<1>4. db' = After(call) /\ down' = <<Whole(db'[call.path])>> /\ at' = at
    BY <1>1, <1>2, Single DEF Serve, Reply, Whole, Asked, fbdo
<1>5. Answer' = Head(down').body
    BY <1>1, <1>4, Single DEF Answer
<1>6. Answer' = db'[call.path]
    BY <1>4, <1>5, Single DEF Whole
<1> QED
    BY <1>2, <1>3, <1>4, <1>6 DEF Serve

rtdb == <<db, call, Answer, result, late>>

LEMMA StepRefines ==
    ASSUME Split = FALSE, MidRead = FALSE, ClientInv, ClientInv', [Next]_vars
    PROVE  [Rtdb!Next]_rtdb
<1>1. ASSUME NEW c \in Call, Begin(c) PROVE Rtdb!Next
  <2>1. call = None /\ Answer = None /\ Answer' = None
    BY <1>1, AnswerIs DEF Begin, ClientInv, Pipe, Answer
  <2>2. Rtdb!Begin(c)
    BY <1>1, <2>1 DEF Begin, network, Rtdb!Begin
  <2> QED
    BY <2>2 DEF Rtdb!Next, Rtdb!Call, Call
<1>2. CASE NoWiFi
  <2>1. call # None /\ Answer' = None
    BY <1>2, NotACall DEF NoWiFi, Answer
  <2>2. Rtdb!Fail
    BY <1>2, <2>1 DEF NoWiFi, network, Rtdb!Fail
  <2> QED
    BY <2>2 DEF Rtdb!Next
<1>3. CASE Send
  <2>1. Answer = None
    BY <1>3, AnswerIs DEF Send
  <2>2. down' = <<>> /\ buffer' = <<>> /\ at' = "waiting"
    BY <1>3 DEF Send, ClientInv, Pipe, Empty
  <2>3. Answer' = None
    BY <2>2 DEF Answer
  <2> QED
    BY <1>3, <2>1, <2>3 DEF Send, rtdb
<1>4. CASE CannotConnect \/ NoAnswer \/ ReadTimeout
  <2>1. GiveUp /\ call # None /\ db' = db
    BY <1>4, NotACall DEF CannotConnect, NoAnswer, TimedOut, ReadTimeout
  <2>2. late' \in {late, late \cup {call}}
    BY <2>1, SeverStep DEF GiveUp, CloseTCP
  <2>3. Answer' = None
    BY <2>1 DEF GiveUp, Answer
  <2>4. Rtdb!Fail
    BY <2>1, <2>2, <2>3 DEF GiveUp, Rtdb!Fail
  <2> QED
    BY <2>4 DEF Rtdb!Next
<1>5. CASE FirstByte \/ ReadSegment \/ Arrive
    BY <1>5, AnswerTravels DEF FirstByte, ReadSegment, Arrive, fbdo, network, rtdb
<1>7. CASE Finish
  <2>1. respBuf \in Value /\ result' = [ok |-> TRUE, value |-> respBuf]
    BY <1>7, FinishOutcome
  <2>2. Answer = respBuf /\ respBuf # None
    BY <1>7, <2>1, AnswerIs, NotNone DEF Finish
  <2>3. Answer' = None
    BY <1>7 DEF Finish, Answer
  <2>4. Rtdb!Return
    BY <1>7, <2>1, <2>2, <2>3 DEF Finish, network, Rtdb!Return
  <2> QED
    BY <2>4 DEF Rtdb!Next
<1>8. CASE Serve
  <2>1. Rtdb!Serve
    BY <1>8, AnswerOfServe DEF Serve, fbdo, Rtdb!Serve, Rtdb!After, After
  <2> QED
    BY <2>1 DEF Rtdb!Next
<1>10. CASE Drop
  <2>1. /\ Sever /\ UNCHANGED <<db, fbdo>> /\ at # "reading"
    BY <1>10 DEF Drop
  <2>2. Empty' /\ late' \in {late, late \cup {call}}
        /\ (at \in {"idle", "sending"} => late' = late)
    BY <2>1, SeverStep
  <2>3. Answer' = None
    BY <2>1, <2>2 DEF Answer, Empty, fbdo
  <2>4. CASE at \in {"idle", "sending"}
    BY <2>1, <2>2, <2>3, <2>4, AnswerIs DEF fbdo, rtdb
  <2>5. CASE at = "waiting"
    <3>1. call # None
      BY <2>5, NotACall
    <3>2. Rtdb!Lose
      BY <2>1, <2>2, <2>3, <3>1 DEF fbdo, Rtdb!Lose
    <3> QED
      BY <3>2 DEF Rtdb!Next
  <2> QED
    BY <2>1, <2>4, <2>5 DEF ClientInv, Scalars
<1>11. ASSUME NEW c \in Call, CarryOutLate(c) PROVE Rtdb!Next
  <2>1. Answer' = Answer
    BY <1>11 DEF CarryOutLate, fbdo, Answer
  <2>2. Rtdb!CarryOutLate(c)
    BY <1>11, <2>1
    DEF CarryOutLate, fbdo, Rtdb!CarryOutLate, Rtdb!After, After
  <2> QED
    BY <2>2 DEF Rtdb!Next, Rtdb!Call, Call
<1>12. ASSUME NEW p \in Path, NEW v \in Value, OtherWrite(p, v)
       PROVE  Rtdb!Next
  <2>1. Answer' = Answer
    BY <1>12 DEF OtherWrite, fbdo, network, Answer
  <2>2. Rtdb!OtherWrite(p, v)
    BY <1>12, <2>1 DEF OtherWrite, fbdo, network, Rtdb!OtherWrite
  <2> QED
    BY <2>2 DEF Rtdb!Next
<1>13. CASE UNCHANGED vars
    BY <1>13 DEF vars, rtdb, Answer
<1> QED
    BY <1>1, <1>2, <1>3, <1>4, <1>5, <1>7, <1>8, <1>10, <1>11, <1>12, <1>13
    DEF Next, Client

(* The client is a call to the database as RtdbCall describes it: it gives *)
(* what the database held for the call at one moment of it, or fails.      *)
THEOREM ClientIsRtdbCall ==
    ASSUME Split = FALSE, MidRead = FALSE
    PROVE  Spec => IsRtdbCall
<1>1. Init => Rtdb!Init
    BY AnswerIs DEF Init, Rtdb!Init
<1>2. ClientInv /\ ClientInv' /\ [Next]_vars => [Rtdb!Next]_rtdb
    BY StepRefines
<1> QED
    BY <1>1, <1>2, ClientInit, ClientStep, PTL
    DEF Spec, IsRtdbCall, Rtdb!Spec, rtdb

\* The reply is a value that its path had during the call.
Truthful == Answer # None => Answer \in held

LEMMA TruthfulStep ==
    ASSUME Split = FALSE, MidRead = FALSE, ClientInv, ClientInv', Truthful,
           [Next]_vars
    PROVE  Truthful'
<1>1. CASE FirstByte \/ ReadSegment \/ Arrive
    BY <1>1, AnswerTravels DEF FirstByte, ReadSegment, Arrive, Truthful
<1>2. CASE Serve
    BY <1>2, AnswerOfServe DEF Serve, fbdo, Note, Truthful
<1>3. ASSUME at' \in {"idle", "sending"} PROVE Answer' = None
    BY <1>3 DEF Answer
<1>4. CASE \/ NoWiFi \/ CannotConnect \/ NoAnswer \/ ReadTimeout \/ Finish
           \/ \E c \in Call : Begin(c)
    BY <1>3, <1>4
    DEF NoWiFi, CannotConnect, NoAnswer, ReadTimeout, Finish, Begin, GiveUp,
        Truthful
<1>5. CASE Send
  <2>1. down' = <<>> /\ buffer' = <<>> /\ at' = "waiting"
    BY <1>5 DEF Send, ClientInv, Pipe, Empty
  <2> QED
    BY <2>1 DEF Answer, Truthful
<1>6. CASE Drop
  <2>1. Empty' /\ at' = at /\ at # "reading"
    BY <1>6, SeverStep DEF Drop, fbdo
  <2> QED
    BY <2>1 DEF Answer, Empty, Truthful
<1>7. CASE \/ \E c \in Call : CarryOutLate(c)
           \/ \E p \in Path, v \in Value : OtherWrite(p, v)
  <2>1. Answer' = Answer /\ held \subseteq held'
    BY <1>7 DEF CarryOutLate, OtherWrite, Note, fbdo, network, Answer
  <2> QED
    BY <2>1 DEF Truthful
<1>8. CASE UNCHANGED vars
    BY <1>8 DEF vars, Answer, Truthful
<1> QED
    BY <1>1, <1>2, <1>4, <1>5, <1>6, <1>7, <1>8 DEF Next, Client

(* If replies arrive whole, a get that reports success gives a value that  *)
(* its path had during the call, whatever other clients write meanwhile    *)
(* and whichever earlier calls were given up.                              *)
THEOREM GetsAreTrue ==
    ASSUME Split = FALSE, MidRead = FALSE
    PROVE  Spec => GetReturnsAsked
<1> DEFINE Inv == ClientInv /\ Truthful
           True == at = "reading" /\ at' = "idle" /\ call.op = "get"
                     /\ result'.ok => result'.value \in held
<1>1. Init => Inv
    BY ClientInit, AnswerIs DEF Init, Truthful
<1>2. Inv /\ [Next]_vars => Inv'
    BY ClientStep, TruthfulStep
<1>3. Inv /\ [Next]_vars => [True]_vars
  <2> SUFFICES ASSUME Inv, [Next]_vars, at = "reading", at' = "idle",
                      result'.ok
               PROVE  result'.value \in held
    OBVIOUS
  <2>1. Finish
    BY DEF Next, Client, Begin, CarryOutLate, NoWiFi, Send, CannotConnect,
           FirstByte, NoAnswer, TimedOut, ReadSegment, ReadTimeout, GiveUp,
           Serve, Arrive, Drop,
           OtherWrite, vars, fbdo
  <2>2. respBuf \in Value /\ result'.value = respBuf
    BY <2>1, FinishOutcome
  <2>3. Answer = respBuf /\ respBuf # None
    BY <2>1, <2>2, AnswerIs, NotNone DEF Finish
  <2> QED
    BY <2>2, <2>3 DEF Truthful
<1> HIDE DEF Inv
<1> QED
    BY <1>1, <1>2, <1>3, PTL DEF Spec, GetReturnsAsked

-----------------------------------------------------------------------------
(* The types do not rest on how the replies arrive.                        *)
TypeInv == TypeOK /\ (call = None <=> at = "idle")

LEMMA ReplyType ==
    ASSUME NEW v \in Value
    PROVE  Reply(v) \in Seq(Segment)
<1>1. /\ [head |-> TRUE, body |-> None] \in Segment
      /\ [head |-> FALSE, body |-> v] \in Segment
      /\ [head |-> TRUE, body |-> v] \in Segment
    BY DEF Segment
<1> QED
    BY <1>1 DEF Reply

LEMMA PutsType == ASSUME NEW q \in Seq(Call) PROVE Puts(q) \subseteq Call
    BY DEF Puts

LEMMA OutcomeType ==
    ASSUME NEW type \in {"null", "boolean"}, NEW data \in Value \cup {None}
    PROVE  Outcome(type, data) \in [ok : BOOLEAN, value : Value \cup {None}]
<1>1. (call.op = "put" \/ type = "boolean") \in BOOLEAN
    OBVIOUS
<1>2. (data # None /\ data) \in BOOLEAN
    OBVIOUS
<1>3. (IF type = "boolean" THEN data # None /\ data ELSE None)
          \in Value \cup {None}
    BY <1>2, Zenon DEF Value
<1> QED
    BY <1>1, <1>3, Zenon DEF Outcome

\* The connection and what is on it.
Wires ==
    /\ up \in Seq(Call)
    /\ down \in Seq(Segment)
    /\ buffer \in Seq(Segment)
    /\ late \subseteq Call

LEMMA SeverType == Wires /\ Sever => Wires' /\ open' = FALSE
    BY PutsType, EmptySeq DEF Wires, Sever

LEMMA WiresStep ==
    ASSUME TypeInv, [Next]_vars
    PROVE  Wires' /\ open' \in BOOLEAN
<1>w. Wires /\ open \in BOOLEAN /\ db \in [Path -> Value]
    BY DEF TypeInv, TypeOK, Wires
<1> DEFINE Goal == Wires' /\ open' \in BOOLEAN
<1>u. ASSUME UNCHANGED <<open, up, down, buffer>>, late' \subseteq late
      PROVE  Goal
    BY <1>w, <1>u DEF Wires
<1>s. ASSUME Sever PROVE Goal
    BY <1>w, <1>s, SeverType
<1>1. CASE CannotConnect \/ NoAnswer \/ ReadTimeout \/ Drop
    BY <1>1, <1>s DEF CannotConnect, NoAnswer, ReadTimeout, Drop, GiveUp, CloseTCP
<1>2. CASE NoWiFi \/ FirstByte \/ Finish \/ UNCHANGED vars
           \/ (\E c \in Call : Begin(c) \/ CarryOutLate(c))
           \/ (\E p \in Path, v \in Value : OtherWrite(p, v))
    BY <1>2, <1>u
    DEF NoWiFi, FirstByte, Finish, vars, Begin, CarryOutLate, OtherWrite, network
<1>3. CASE Send
  <2>1. call \in Call
    BY <1>3 DEF Send, TypeInv, TypeOK
  <2>2. /\ up' = Append(up, call) /\ buffer' = <<>> /\ down' = down
        /\ late' = late /\ open' = TRUE
    BY <1>3, Zenon DEF Send
  <2>3. Append(up, call) \in Seq(Call) /\ <<>> \in Seq(Segment)
    BY <1>w, <2>1, AppendProperties, EmptySeq DEF Wires
  <2> QED
    BY <1>w, <2>2, <2>3 DEF Wires
<1>4. CASE ReadSegment
  <2>1. /\ buffer # <<>> /\ buffer' = Tail(buffer)
        /\ UNCHANGED <<open, up, down, late>>
    BY <1>4 DEF ReadSegment
  <2>2. buffer' \in Seq(Segment)
    BY <1>w, <2>1, HeadAndTail DEF Wires
  <2> QED
    BY <1>w, <2>1, <2>2 DEF Wires
<1>5. CASE Serve
  <2> DEFINE c == Head(up)
  <2>1. /\ up # <<>> /\ up' = Tail(up)
        /\ db' = After(c) /\ down' = down \o Reply(db'[c.path])
        /\ UNCHANGED <<open, buffer, late>>
    BY <1>5 DEF Serve
  <2>2. c \in Call /\ up' \in Seq(Call)
    BY <1>w, <2>1, HeadAndTail DEF Wires
  <2>3. db'[c.path] \in Value
    BY <1>w, <2>1, <2>2, AfterType
  <2>4. down' \in Seq(Segment)
    BY <1>w, <2>1, <2>3, ReplyType, ConcatProperties DEF Wires
  <2> QED
    BY <1>w, <2>1, <2>2, <2>4 DEF Wires
<1>6. CASE Arrive
  <2>1. /\ down # <<>> /\ down' = Tail(down)
        /\ buffer' = Append(buffer, Head(down))
        /\ UNCHANGED <<open, up, late>>
    BY <1>6 DEF Arrive
  <2>2. Head(down) \in Segment /\ down' \in Seq(Segment)
    BY <1>w, <2>1, HeadAndTail DEF Wires
  <2>3. buffer' \in Seq(Segment)
    BY <1>w, <2>1, <2>2, AppendProperties DEF Wires
  <2> QED
    BY <1>w, <2>1, <2>2, <2>3 DEF Wires
<1> QED
    BY <1>1, <1>2, <1>3, <1>4, <1>5, <1>6 DEF Next, Client

LEMMA DatabaseStep ==
    ASSUME TypeInv, [Next]_vars
    PROVE  db' \in [Path -> Value] /\ held' \subseteq Value
<1>t. db \in [Path -> Value] /\ held \subseteq Value /\ up \in Seq(Call)
    BY DEF TypeInv, TypeOK
<1>1. ASSUME NEW c \in Call, db' = After(c), Note(c.path)
      PROVE  db' \in [Path -> Value] /\ held' \subseteq Value
    BY <1>t, <1>1, AfterType, NoteType
<1>2. CASE Serve
  <2>1. Head(up) \in Call
    BY <1>t, <1>2, HeadAndTail DEF Serve
  <2> QED
    BY <1>1, <1>2, <2>1 DEF Serve
<1>3. ASSUME NEW c \in Call, CarryOutLate(c) PROVE db' = After(c) /\ Note(c.path)
    BY <1>3 DEF CarryOutLate
<1>4. ASSUME NEW p \in Path, NEW v \in Value, OtherWrite(p, v)
      PROVE  db' \in [Path -> Value] /\ held' \subseteq Value
    BY <1>t, <1>4, NoteType DEF OtherWrite
<1>5. ASSUME NEW c \in Call, Begin(c)
      PROVE  db' = db /\ held' \subseteq Value
    BY <1>t, <1>5, AfterType DEF Begin
<1>6. CASE Client \/ Arrive \/ Drop \/ UNCHANGED vars
    BY <1>t, <1>6
    DEF Client, NoWiFi, Send, CannotConnect, FirstByte, NoAnswer, ReadSegment,
        ReadTimeout, Finish, Arrive, Drop, vars
<1> QED
    BY <1>t, <1>1, <1>2, <1>3, <1>4, <1>5, <1>6 DEF Next

\* The FirebaseData object.
Object ==
    /\ at \in {"idle", "sending", "waiting", "reading"}
    /\ call \in Call \cup {None}
    /\ call = None <=> at = "idle"
    /\ httpCode \in {0, 200}
    /\ respBuf \in Value \cup {None}
    /\ dataType \in {"null", "boolean"}
    /\ payload \in Value \cup {None}
    /\ result \in [ok : BOOLEAN, value : Value \cup {None}]

LEMMA ObjectStep == TypeInv /\ [Next]_vars => Object'
<1> SUFFICES ASSUME TypeInv, [Next]_vars PROVE Object'
    OBVIOUS
<1>o. Object
    BY DEF TypeInv, TypeOK, Object
<1>f. [ok |-> FALSE, value |-> None] \in [ok : BOOLEAN, value : Value \cup {None}]
    OBVIOUS
<1>1. ASSUME NEW c \in Call, Begin(c) PROVE Object'
  <2>1. c # None
    BY ClientAssumption
  <2> QED
    BY <1>o, <1>1, <2>1 DEF Begin, Object
<1>2. CASE NoWiFi \/ CannotConnect \/ NoAnswer \/ ReadTimeout
  <2>1. /\ at' = "idle" /\ call' = None
        /\ result' = [ok |-> FALSE, value |-> None]
        /\ UNCHANGED <<httpCode, respBuf, dataType, payload>>
    BY <1>2 DEF NoWiFi, CannotConnect, NoAnswer, ReadTimeout, GiveUp
  <2>2. result' \in [ok : BOOLEAN, value : Value \cup {None}]
    BY <1>f, <2>1, Zenon
  <2> QED
    BY <1>o, <2>1, <2>2 DEF Object
<1>3. CASE Send \/ FirstByte
    BY <1>o, <1>3 DEF Send, FirstByte, Object
<1>4. CASE ReadSegment
  <2>1. Head(buffer).body \in Value \cup {None}
    <3>1. buffer \in Seq(Segment) /\ buffer # <<>>
      BY <1>4 DEF ReadSegment, TypeInv, TypeOK
    <3>2. Head(buffer) \in Segment
      BY <3>1, HeadAndTail
    <3> QED
      BY <3>2 DEF Segment
  <2>2. respBuf' = Head(buffer).body /\ httpCode' \in {0, 200}
    BY <1>o, <1>4 DEF ReadSegment, Object
  <2> QED
    BY <1>o, <1>4, <2>1, <2>2 DEF ReadSegment, Object
<1>5. CASE Finish
  <2>1. payload' \in Value \cup {None} /\ dataType' \in {"null", "boolean"}
    BY <1>o, <1>5 DEF Finish, Object, TypeOf
  <2>2. result' \in [ok : BOOLEAN, value : Value \cup {None}]
    BY <1>5, <2>1, OutcomeType DEF Finish
  <2> QED
    BY <1>o, <1>5, <2>1, <2>2 DEF Finish, Object
<1>6. CASE \/ Serve \/ Arrive \/ Drop \/ UNCHANGED vars
           \/ \E c \in Call : CarryOutLate(c)
           \/ \E p \in Path, v \in Value : OtherWrite(p, v)
  <2>1. UNCHANGED fbdo
    BY <1>6 DEF Serve, Arrive, Drop, CarryOutLate, OtherWrite, vars, fbdo
  <2> QED
    BY <1>o, <2>1 DEF fbdo, Object
<1> QED
    BY <1>1, <1>2, <1>3, <1>4, <1>5, <1>6 DEF Next, Client

(* Every variable keeps its type, however the replies arrive and wherever  *)
(* the connection ends.                                                    *)
THEOREM ClientTypeCorrect == Spec => []TypeOK
<1>1. Init => TypeInv
  <2> SUFFICES ASSUME Init PROVE TypeInv
    OBVIOUS
  <2>1. result \in [ok : BOOLEAN, value : Value \cup {None}]
    BY DEF Init
  <2>2. open \in BOOLEAN
    BY Zenon DEF Init
  <2>3. up \in Seq(Call) /\ down \in Seq(Segment) /\ buffer \in Seq(Segment)
    BY EmptySeq DEF Init
  <2> QED
    BY <2>1, <2>2, <2>3 DEF Init, TypeInv, TypeOK
<1>2. TypeInv /\ [Next]_vars => TypeInv'
    BY WiresStep, DatabaseStep, ObjectStep DEF TypeInv, TypeOK, Wires, Object
<1>3. TypeInv => TypeOK
    BY DEF TypeInv
<1> QED
    BY <1>1, <1>2, <1>3, PTL DEF Spec
=============================================================================
