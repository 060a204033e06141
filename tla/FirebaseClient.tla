--------------------------- MODULE FirebaseClient ---------------------------
(***************************************************************************)
(* One FirebaseData object of the MKR1000 sketch: the request, the reply   *)
(* and the keep-alive connection they share.  The library reads a reply    *)
(* for as long as the receive buffer has something in it and then takes    *)
(* what it has for the whole; it never compares it with Content-Length.    *)
(*                                                                         *)
(* A reply is a header and a body.  Split says whether the network may     *)
(* deliver the two apart, as two TLS records, or only together; MidRead    *)
(* whether the connection may end between the test that found a first      *)
(* byte and the end of the reading loop.  Errors of the server, redirects  *)
(* and streams are not modelled.                                           *)
(***************************************************************************)
EXTENDS Naturals, Sequences

CONSTANTS
    Path,
    Split,        \* the header and the body of a reply may arrive apart
    MidRead,      \* the connection may end while a reply is read
    MaxSegments,  \* bound: segments of replies under way to the client
    None

Value == BOOLEAN
Call  == [op : {"get", "put"}, path : Path, value : Value]

ASSUME ClientAssumption ==
    /\ Split \in BOOLEAN
    /\ MidRead \in BOOLEAN
    /\ MaxSegments \in Nat
    /\ None \notin Call \cup BOOLEAN

(* What one read of the socket delivers: the header, the body, or both.    *)
Segment == [head : BOOLEAN, body : Value \cup {None}]

VARIABLES
    db,        \* the database
    \* The FirebaseData object.
    at,        \* where sendRequest() is
    call,      \* its arguments, or None
    httpCode,  \* _httpCode: 200 once the status line was seen, else 0
    respBuf,   \* respBuf of handleResponse()
    dataType,  \* _dataType
    payload,   \* _payload, None when empty
    result,    \* [ok, value]: what the last call gave to the sketch
    \* The connection.
    open,      \* connected()
    up,        \* requests on their way to the server
    down,      \* segments on their way to the client
    buffer,    \* segments received: available()
    late,      \* puts sent on a connection that was closed since
    \* Audit.
    held       \* values the path of the call had since the call began

fbdo    == <<at, call, httpCode, respBuf, dataType, payload, result>>
network == <<open, up, down, buffer, late>>
vars    == <<db, at, call, httpCode, respBuf, dataType, payload, result, open,
             up, down, buffer, late, held>>

TypeOK ==
    /\ db \in [Path -> Value]
    /\ at \in {"idle", "sending", "waiting", "reading"}
    /\ call \in Call \cup {None}
    /\ httpCode \in {0, 200}
    /\ respBuf \in Value \cup {None}
    /\ dataType \in {"null", "boolean"}
    /\ payload \in Value \cup {None}
    /\ result \in [ok : BOOLEAN, value : Value \cup {None}]
    /\ open \in BOOLEAN
    /\ up \in Seq(Call)
    /\ down \in Seq(Segment)
    /\ buffer \in Seq(Segment)
    /\ late \subseteq Call
    /\ held \subseteq Value

Init ==
    /\ db \in [Path -> Value]
    /\ at = "idle"
    /\ call = None
    /\ httpCode = 0
    /\ respBuf = None
    /\ dataType = "null"
    /\ payload = None
    /\ result = [ok |-> FALSE, value |-> None]
    /\ open = FALSE
    /\ up = <<>>
    /\ down = <<>>
    /\ buffer = <<>>
    /\ late = {}
    /\ held = {}
-----------------------------------------------------------------------------
\* A connection that ends leaves its puts to the server, which may have
\* received them, and takes everything else with it.
Puts(q) == {c \in {q[i] : i \in DOMAIN q} : c.op = "put"}

Sever ==
    /\ open' = FALSE
    /\ late' = late \cup Puts(up)
    /\ up' = <<>>
    /\ down' = <<>>
    /\ buffer' = <<>>

KeepTCP  == UNCHANGED network   \* mutant: the connection is kept
CloseTCP == Sever

\* sendRequest() gives up: flag is false and the connection is closed.
GiveUp ==
    /\ CloseTCP
    /\ at' = "idle"
    /\ call' = None
    /\ result' = [ok |-> FALSE, value |-> None]

\* The sketch calls getBool() or setBool().
Begin(c) ==
    /\ at = "idle"
    /\ at' = "sending"
    /\ call' = c
    /\ held' = {db[c.path]}
    /\ UNCHANGED <<db, httpCode, respBuf, dataType, payload, result, network>>

\* The Wi-Fi is down: sendRequest() returns before it touches anything.
NoWiFi ==
    /\ at = "sending"
    /\ at' = "idle"
    /\ call' = None
    /\ result' = [ok |-> FALSE, value |-> None]
    /\ UNCHANGED <<db, httpCode, respBuf, dataType, payload, network, held>>

\* Firebase_TCP_Client::connect() reads away what is in the buffer, or opens
\* a connection; then the request is sent and handleResponse() starts.
Send ==
    /\ at = "sending"
    /\ open' = TRUE
    /\ up' = Append(up, call)
    /\ buffer' = <<>>
    /\ at' = "waiting"
    /\ payload' = None
    /\ httpCode' = 0
    /\ UNCHANGED <<db, call, respBuf, dataType, result, down, late, held>>

CannotConnect ==
    /\ at = "sending"
    /\ GiveUp
    /\ UNCHANGED <<db, httpCode, respBuf, dataType, payload, held>>

\* The first byte is there.
FirstByte ==
    /\ at = "waiting"
    /\ open
    /\ buffer # <<>>
    /\ at' = "reading"
    /\ respBuf' = None
    /\ UNCHANGED <<db, call, httpCode, dataType, payload, result, network, held>>

\* client_timeout has passed, or the connection is gone.
WaitForEver == FALSE   \* mutant: the wait has no time limit
TimedOut    == at = "waiting"

NoAnswer ==
    /\ TimedOut
    /\ GiveUp
    /\ UNCHANGED <<db, httpCode, respBuf, dataType, payload, held>>

\* A segment is read.  The status line sets the code even behind the rest of
\* a body; the end of the header clears respBuf; a body is left in it.
ReadSegment ==
    /\ at = "reading"
    /\ buffer # <<>>
    /\ LET s == Head(buffer)
       IN  /\ httpCode' = IF s.head THEN 200 ELSE httpCode
           /\ respBuf' = s.body
    /\ buffer' = Tail(buffer)
    /\ UNCHANGED <<db, at, call, dataType, payload, result, open, up, down,
                   late, held>>

\* client_timeout passes in the middle of a reply: the error that the code
\* is given is cleared by the next Send, and the text read so far is lost.
ReadTimeout ==
    /\ at = "reading"
    /\ buffer # <<>>
    /\ GiveUp
    /\ UNCHANGED <<db, httpCode, respBuf, dataType, payload, held>>

\* setDataType() of an empty payload is null.
\* mutant: what is not empty is a string
TypeOfText(data) == IF data = None THEN "null" ELSE "string"
TypeOf(data)     == IF data = None THEN "null" ELSE "boolean"

\* What getBool() and boolData() make of it.
\* mutant: the test of the type is inverted
OutcomeOfAny(type, data) ==
    [ok |-> call.op = "put" \/ type # "boolean",
     value |-> IF type = "boolean" THEN data # None /\ data ELSE None]

Outcome(type, data) ==
    [ok |-> call.op = "put" \/ type = "boolean",
     value |-> IF type = "boolean" THEN data # None /\ data ELSE None]

\* available() is zero: the reply is taken to be complete.  Without a status
\* line the code stays 0, which counts as success and leaves dataType alone.
Finish ==
    /\ at = "reading"
    /\ buffer = <<>>
    /\ payload' = IF httpCode = 200 THEN respBuf ELSE payload
    /\ dataType' = IF httpCode = 200 THEN TypeOf(respBuf) ELSE dataType
    /\ result' = Outcome(dataType', payload')
    /\ at' = "idle"
    /\ call' = None
    /\ UNCHANGED <<db, httpCode, respBuf, network, held>>

Client ==
    \/ NoWiFi \/ Send \/ CannotConnect \/ FirstByte \/ NoAnswer \/ ReadSegment
    \/ ReadTimeout \/ Finish
-----------------------------------------------------------------------------
(* The server and the network.                                             *)

After(c) == IF c.op = "put" THEN [db EXCEPT ![c.path] = c.value] ELSE db

Note(p) ==
    held' = IF call # None /\ call.path = p THEN held \cup {db'[p]} ELSE held

\* The server answers in order, with the value read or with the value put.
Reply(v) ==
    IF Split
      THEN <<[head |-> TRUE, body |-> None], [head |-> FALSE, body |-> v]>>
      ELSE <<[head |-> TRUE, body |-> v]>>

Serve ==
    /\ up # <<>>
    /\ Len(down) + Len(buffer) < MaxSegments
    /\ LET c == Head(up)
       IN  /\ db' = After(c)
           /\ Note(c.path)
           /\ down' = down \o Reply(db'[c.path])
    /\ up' = Tail(up)
    /\ UNCHANGED <<fbdo, open, buffer, late>>

Arrive ==
    /\ down # <<>>
    /\ buffer' = Append(buffer, Head(down))
    /\ down' = Tail(down)
    /\ UNCHANGED <<db, fbdo, open, up, late, held>>

\* The server or the Wi-Fi closes the connection; the socket layer frees
\* what it had buffered.
Drop ==
    /\ open
    /\ MidRead \/ at # "reading"
    /\ Sever
    /\ UNCHANGED <<db, fbdo, held>>

CarryOutLate(c) ==
    /\ c \in late
    /\ late' = late \ {c}
    /\ db' = After(c)
    /\ Note(c.path)
    /\ UNCHANGED <<fbdo, open, up, down, buffer>>

OtherWrite(p, v) ==
    /\ db' = [db EXCEPT ![p] = v]
    /\ Note(p)
    /\ UNCHANGED <<fbdo, network>>

Next ==
    \/ \E c \in Call : Begin(c) \/ CarryOutLate(c)
    \/ Client
    \/ Serve \/ Arrive \/ Drop
    \/ \E p \in Path, v \in Value : OtherWrite(p, v)

Spec == Init /\ [][Next]_vars

\* A call in progress goes on: nothing else runs on the board.
FairSpec == Spec /\ WF_vars(Client)
-----------------------------------------------------------------------------
(* Between two calls nothing of an earlier one is left on an open          *)
(* connection, neither a request nor any part of a reply: this is what     *)
(* lets the client take whatever comes next for its own reply.             *)
NoStrayReply ==
    at \in {"idle", "sending"} /\ open => up = <<>> /\ down = <<>> /\ buffer = <<>>

(* README.md: the success of a get is determined from the payload the      *)
(* server returned for it.  A get that reports success gives a value that  *)
(* its path had during the call.                                           *)
GetReturnsAsked == [][at = "reading" /\ at' = "idle" /\ call.op = "get"
                        /\ result'.ok => result'.value \in held]_vars

(* Every call returns, whatever the network does.                          *)
EveryCallReturns == at # "idle" ~> at = "idle"

(* The reply of the call in progress, wherever it is.                      *)
Answer ==
    CASE at = "waiting" /\ down # <<>>                  -> Head(down).body
      [] at = "waiting" /\ down = <<>> /\ buffer # <<>> -> Head(buffer).body
      [] at = "reading" /\ buffer # <<>>                -> Head(buffer).body
      [] at = "reading" /\ buffer = <<>>                -> respBuf
      [] OTHER                                          -> None

Rtdb == INSTANCE RtdbCall WITH reply <- Answer

(* The client with its connection is a call to the database: it is         *)
(* answered with what the database held for it, or it fails.               *)
IsRtdbCall == Rtdb!Spec
=============================================================================
