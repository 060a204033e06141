------------------------- MODULE VoiceGateway_proofs -------------------------
(***************************************************************************)
(* The queues of the voice gateway, proved for any set of switches, any    *)
(* number of requests and any number of resets and link failures: what was *)
(* answered, what is queued and what is on the wire make up a path that    *)
(* every request travels; a step moves a request along it, adds one at its *)
(* end, or cuts a piece out of it.                                         *)
(***************************************************************************)
EXTENDS VoiceGateway, QueueTheorems, TLAPS

Path == RequestsOf(answered) \o RequestsOf(sendQueue) \o receiveQueue \o wire
-----------------------------------------------------------------------------
(* The requests of a sequence of replies.                                  *)
LEMMA RequestsProperties ==
  ASSUME NEW q \in Seq(Reply)
  PROVE  /\ RequestsOf(q) \in Seq(Request)
         /\ Len(RequestsOf(q)) = Len(q)
         /\ \A i \in 1 .. Len(q) : RequestsOf(q)[i] = q[i].request
<1>1. Len(q) \in Nat /\ DOMAIN q = 1 .. Len(q)
  BY LenProperties
<1>2. \A i \in 1 .. Len(q) : q[i] \in Reply
  BY ElementOfSeq
<1>3. RequestsOf(q) = [i \in 1 .. Len(q) |-> q[i].request]
  BY <1>1 DEF RequestsOf
<1>4. \A i \in 1 .. Len(q) : q[i].request \in Request
  BY <1>2 DEF Reply
<1>5. RequestsOf(q) \in [1 .. Len(q) -> Request]
  BY <1>3, <1>4
<1>6. RequestsOf(q) \in Seq(Request)
  BY <1>1, <1>5, SeqDef
<1>7. DOMAIN RequestsOf(q) = 1 .. Len(RequestsOf(q))
  BY <1>6, LenProperties
<1>8. Len(RequestsOf(q)) = Len(q)
  <2>1. 1 .. Len(RequestsOf(q)) = 1 .. Len(q)
    BY <1>3, <1>7
  <2>2. Len(RequestsOf(q)) \in Nat
    BY <1>6, LenProperties
  <2> QED  BY <1>1, <2>1, <2>2
<1> QED  BY <1>3, <1>6, <1>8

LEMMA NoRequests == RequestsOf(<<>>) = <<>>
BY DEF RequestsOf

LEMMA RequestsAppend ==
  ASSUME NEW q \in Seq(Reply), NEW r \in Reply
  PROVE  RequestsOf(Append(q, r)) = RequestsOf(q) \o <<r.request>>
<1> DEFINE s == RequestsOf(Append(q, r))
           t == Append(RequestsOf(q), r.request)
<1>1. r.request \in Request
  BY DEF Reply
<1>2. /\ Append(q, r) \in Seq(Reply)
      /\ Len(q) \in Nat
      /\ Len(Append(q, r)) = Len(q) + 1
      /\ \A i \in 1 .. Len(q) : Append(q, r)[i] = q[i]
      /\ Append(q, r)[Len(q) + 1] = r
  BY AppendProperties, LenProperties
<1>3. /\ s \in Seq(Request)
      /\ Len(s) = Len(q) + 1
      /\ \A i \in 1 .. Len(q) + 1 : s[i] = Append(q, r)[i].request
  BY <1>2, RequestsProperties
<1>4. /\ RequestsOf(q) \in Seq(Request)
      /\ Len(RequestsOf(q)) = Len(q)
      /\ \A i \in 1 .. Len(q) : RequestsOf(q)[i] = q[i].request
  BY RequestsProperties
<1>5. /\ t \in Seq(Request)
      /\ Len(t) = Len(q) + 1
      /\ \A i \in 1 .. Len(q) : t[i] = RequestsOf(q)[i]
      /\ t[Len(q) + 1] = r.request
  BY <1>1, <1>4, AppendProperties
<1>6. \A i \in 1 .. Len(s) : s[i] = t[i]
  BY <1>2, <1>3, <1>4, <1>5
<1>7. s = t
  BY <1>3, <1>5, <1>6, SeqEqual
<1>8. t = RequestsOf(q) \o <<r.request>>
  BY <1>1, <1>4, AppendIsConcat
<1> QED  BY <1>7, <1>8

LEMMA RequestsHeadTail ==
  ASSUME NEW q \in Seq(Reply), q # <<>>
  PROVE  RequestsOf(q) = <<Head(q).request>> \o RequestsOf(Tail(q))
<1> DEFINE s == RequestsOf(q)
<1>1. Len(q) \in Nat \ {0}
  BY EmptySeq
<1>2. /\ s \in Seq(Request) /\ Len(s) = Len(q)
      /\ \A i \in 1 .. Len(q) : s[i] = q[i].request
  BY RequestsProperties
<1>3. s # <<>>
  BY <1>1, <1>2, EmptySeq
<1>4. s = <<Head(s)>> \o Tail(s) /\ Tail(s) \in Seq(Request)
  BY <1>2, <1>3, HeadAndTail
<1>5. Head(s) = Head(q).request
  BY <1>1, <1>2
<1>6. /\ Tail(q) \in Seq(Reply) /\ Len(Tail(q)) = Len(q) - 1
      /\ \A i \in 1 .. Len(q) - 1 : Tail(q)[i] = q[i + 1]
  BY HeadTailProperties
<1>7. /\ Len(Tail(s)) = Len(q) - 1
      /\ \A i \in 1 .. Len(q) - 1 : Tail(s)[i] = s[i + 1]
  BY <1>2, <1>3, HeadTailProperties
<1>8. /\ RequestsOf(Tail(q)) \in Seq(Request)
      /\ Len(RequestsOf(Tail(q))) = Len(q) - 1
      /\ \A i \in 1 .. Len(q) - 1 : RequestsOf(Tail(q))[i] = Tail(q)[i].request
  BY <1>6, RequestsProperties
<1>9. \A i \in 1 .. Len(Tail(s)) : Tail(s)[i] = RequestsOf(Tail(q))[i]
  BY <1>1, <1>2, <1>6, <1>7, <1>8
<1>10. Tail(s) = RequestsOf(Tail(q))
  BY <1>4, <1>7, <1>8, <1>9, SeqEqual
<1> QED  BY <1>4, <1>5, <1>10
-----------------------------------------------------------------------------
(* Subsequences.                                                           *)
LEMMA SubsequenceIsTransitive ==
  ASSUME NEW s, NEW t, NEW u, IsSubsequence(s, t), IsSubsequence(t, u)
  PROVE  IsSubsequence(s, u)
<1>1. PICK f \in [DOMAIN s -> DOMAIN t] :
         /\ \A i, j \in DOMAIN s : i < j => f[i] < f[j]
         /\ \A i \in DOMAIN s : s[i] = t[f[i]]
  BY DEF IsSubsequence
<1>2. PICK g \in [DOMAIN t -> DOMAIN u] :
         /\ \A i, j \in DOMAIN t : i < j => g[i] < g[j]
         /\ \A i \in DOMAIN t : t[i] = u[g[i]]
  BY DEF IsSubsequence
<1> DEFINE h == [i \in DOMAIN s |-> g[f[i]]]
<1>3. h \in [DOMAIN s -> DOMAIN u]
  BY <1>1, <1>2
<1>4. \A i, j \in DOMAIN s : i < j => h[i] < h[j]
  BY <1>1, <1>2
<1>5. \A i \in DOMAIN s : s[i] = u[h[i]]
  BY <1>1, <1>2
<1> QED  BY <1>3, <1>4, <1>5 DEF IsSubsequence

LEMMA PrefixIsSubsequence ==
  ASSUME NEW S, NEW s \in Seq(S), NEW t \in Seq(S)
  PROVE  IsSubsequence(s, s \o t)
<1> DEFINE f == [i \in DOMAIN s |-> i]
<1>1. Len(s) \in Nat /\ Len(t) \in Nat /\ DOMAIN s = 1 .. Len(s)
  BY LenProperties
<1>2. /\ s \o t \in Seq(S)
      /\ Len(s \o t) = Len(s) + Len(t)
      /\ \A i \in 1 .. Len(s) + Len(t) :
            (s \o t)[i] = IF i <= Len(s) THEN s[i] ELSE t[i - Len(s)]
  BY ConcatProperties
<1>3. DOMAIN (s \o t) = 1 .. Len(s) + Len(t)
  BY <1>2, LenProperties
<1>4. f \in [DOMAIN s -> DOMAIN (s \o t)]
  BY <1>1, <1>3
<1>5. \A i, j \in DOMAIN s : i < j => f[i] < f[j]
  BY <1>1
<1>6. \A i \in DOMAIN s : s[i] = (s \o t)[f[i]]
  BY <1>1, <1>2
<1> QED  BY <1>4, <1>5, <1>6 DEF IsSubsequence

LEMMA SubsequenceWithoutOne ==
  ASSUME NEW S, NEW s \in Seq(S), NEW x \in S, NEW t \in Seq(S)
  PROVE  IsSubsequence(s \o t, (s \o <<x>>) \o t)
<1> DEFINE u == s \o t
           v == (s \o <<x>>) \o t
           f == [i \in DOMAIN u |-> IF i <= Len(s) THEN i ELSE i + 1]
<1>1. Len(s) \in Nat /\ Len(t) \in Nat
  BY LenProperties
<1>2. /\ u \in Seq(S)
      /\ Len(u) = Len(s) + Len(t)
      /\ \A i \in 1 .. Len(s) + Len(t) :
            u[i] = IF i <= Len(s) THEN s[i] ELSE t[i - Len(s)]
  BY ConcatProperties
<1>3. /\ s \o <<x>> \in Seq(S)
      /\ Len(s \o <<x>>) = Len(s) + 1
      /\ \A i \in 1 .. Len(s) : (s \o <<x>>)[i] = s[i]
  BY AppendIsConcat, AppendProperties
<1>4. /\ v \in Seq(S)
      /\ Len(v) = Len(s \o <<x>>) + Len(t)
      /\ \A i \in 1 .. Len(s \o <<x>>) + Len(t) :
            v[i] = IF i <= Len(s \o <<x>>) THEN (s \o <<x>>)[i]
                                         ELSE t[i - Len(s \o <<x>>)]
  BY <1>3, ConcatProperties
<1>5. DOMAIN u = 1 .. Len(s) + Len(t) /\ DOMAIN v = 1 .. Len(s) + 1 + Len(t)
  BY <1>2, <1>3, <1>4, LenProperties
<1>6. f \in [DOMAIN u -> DOMAIN v]
  BY <1>1, <1>5
<1>7. \A i, j \in DOMAIN u : i < j => f[i] < f[j]
  BY <1>1, <1>5
<1>8. \A i \in DOMAIN u : u[i] = v[f[i]]
  <2> SUFFICES ASSUME NEW i \in 1 .. Len(s) + Len(t)
               PROVE  u[i] = v[f[i]]
    BY <1>5
  <2>1. CASE i <= Len(s)
    <3>1. f[i] = i /\ i \in 1 .. Len(s)
      BY <1>1, <1>5, <2>1
    <3>2. v[i] = (s \o <<x>>)[i]
      BY <1>1, <1>3, <1>4, <3>1
    <3> QED  BY <1>2, <1>3, <3>1, <3>2
  <2>2. CASE i > Len(s)
    <3>1. f[i] = i + 1 /\ u[i] = t[i - Len(s)]
      BY <1>1, <1>2, <1>5, <2>2
    <3>2. v[i + 1] = t[i + 1 - (Len(s) + 1)]
      BY <1>1, <1>3, <1>4, <2>2
    <3>3. i + 1 - (Len(s) + 1) = i - Len(s)
      BY <1>1
    <3> QED  BY <3>1, <3>2, <3>3
  <2> QED  BY <1>1, <2>1, <2>2
<1> HIDE DEF f, u, v
<1>9. IsSubsequence(u, v)
  BY <1>6, <1>7, <1>8 DEF IsSubsequence
<1> QED  BY <1>9 DEF u, v

LEMMA SubsequenceOfAppended ==
  ASSUME NEW S, NEW s \in Seq(S), NEW t \in Seq(S), NEW x \in S,
         IsSubsequence(s, t)
  PROVE  IsSubsequence(Append(s, x), Append(t, x))
<1> DEFINE u == Append(s, x)
           v == Append(t, x)
<1>1. /\ Len(s) \in Nat /\ DOMAIN s = 1 .. Len(s)
      /\ Len(t) \in Nat /\ DOMAIN t = 1 .. Len(t)
  BY LenProperties
<1>2. /\ u \in Seq(S) /\ Len(u) = Len(s) + 1
      /\ \A i \in 1 .. Len(s) : u[i] = s[i]
      /\ u[Len(s) + 1] = x
  BY AppendProperties
<1>3. /\ v \in Seq(S) /\ Len(v) = Len(t) + 1
      /\ \A i \in 1 .. Len(t) : v[i] = t[i]
      /\ v[Len(t) + 1] = x
  BY AppendProperties
<1>4. DOMAIN u = 1 .. Len(s) + 1 /\ DOMAIN v = 1 .. Len(t) + 1
  BY <1>2, <1>3, LenProperties
<1>5. PICK f \in [1 .. Len(s) -> 1 .. Len(t)] :
         /\ \A i, j \in 1 .. Len(s) : i < j => f[i] < f[j]
         /\ \A i \in 1 .. Len(s) : s[i] = t[f[i]]
  BY <1>1 DEF IsSubsequence
<1> DEFINE g == [i \in 1 .. Len(s) + 1 |->
                    IF i <= Len(s) THEN f[i] ELSE Len(t) + 1]
<1> HIDE DEF u, v
<1>6. g \in [DOMAIN u -> DOMAIN v]
  BY <1>1, <1>4, <1>5
<1>7. \A i, j \in DOMAIN u : i < j => g[i] < g[j]
  BY <1>1, <1>4, <1>5
<1>8. \A i \in DOMAIN u : u[i] = v[g[i]]
  BY <1>1, <1>2, <1>3, <1>4, <1>5
<1> HIDE DEF g
<1>9. IsSubsequence(u, v)
  BY <1>6, <1>7, <1>8 DEF IsSubsequence
<1> QED  BY <1>9 DEF u, v
-----------------------------------------------------------------------------
(* Every step keeps the queues sequences of requests and of replies.       *)
Queues ==
    /\ receiveQueue \in Seq(Request)
    /\ sendQueue \in Seq(Reply)
    /\ wire \in Seq(Request)
    /\ asked \in Seq(Request)
    /\ answered \in Seq(Reply)

LEMMA EmptyQueues == <<>> \in Seq(Request) /\ <<>> \in Seq(Reply)
BY EmptySeq

LEMMA ReplyType ==
  ASSUME NEW r \in Request, NEW o
  PROVE  [request |-> r, success |-> Success(o)] \in Reply
BY DEF Reply, Success

\* What is not unknown is a command.
LEMMA KnownRequest ==
  ASSUME NEW r \in Request, r # Unknown
  PROVE  r \in Command /\ r[1] \in Appliance /\ r[2] \in BOOLEAN
         /\ <<r[1], r[2]>> \in Command
BY DEF Request, Command

LEMMA UnknownRequest ==
  /\ Unknown \in Request
  /\ [request |-> Unknown, success |-> FALSE] \in Reply
BY DEF Request, Reply

LEMMA QueuesStep == Queues /\ [Next]_gvars => Queues'
<1> SUFFICES ASSUME Queues, [Next]_gvars PROVE Queues'
  OBVIOUS
<1> USE EmptyQueues
<1>1. CASE Setup
  BY <1>1 DEF Queues, Setup, server
<1>2. CASE Listen
  <2>1. CASE connected
    <3>1. PICK n \in 0 .. Len(wire) :
             /\ receiveQueue' = receiveQueue \o SubSeq(wire, 1, n)
             /\ wire' = SubSeq(wire, n + 1, Len(wire))
      BY <1>2, <2>1 DEF Listen
    <3>2. wire' \in Seq(Request) /\ SubSeq(wire, 1, n) \in Seq(Request)
      BY <3>1, Splitting DEF Queues
    <3>3. receiveQueue' \in Seq(Request)
      BY <3>1, <3>2, ConcatProperties DEF Queues
    <3> QED  BY <1>2, <3>2, <3>3 DEF Queues, Listen, server
  <2>2. CASE ~connected
    BY <1>2, <2>2 DEF Queues, Listen, server
  <2> QED  BY <2>1, <2>2
<1>3. CASE HandleRequest
  <2>1. Head(receiveQueue) \in Request /\ receiveQueue' \in Seq(Request)
    BY <1>3, HeadAndTail DEF Queues, HandleRequest, Popped
  <2>2. PICK o \in Outcome : sendQueue' =
             Append(sendQueue,
                    [request |-> Head(receiveQueue), success |-> Success(o)])
    BY <1>3 DEF HandleRequest, Push
  <2>3. sendQueue' \in Seq(Reply)
    BY <2>1, <2>2, ReplyType, AppendProperties DEF Queues
  <2> QED  BY <1>3, <2>1, <2>3 DEF Queues, HandleRequest, server
<1>4. CASE RefuseRequest
  <2>1. receiveQueue' \in Seq(Request)
    BY <1>4, HeadAndTail DEF Queues, RefuseRequest, Popped
  <2>2. sendQueue' \in Seq(Reply)
    BY <1>4, UnknownRequest, AppendProperties DEF Queues, RefuseRequest, Push
  <2> QED  BY <1>4, <2>1, <2>2 DEF Queues, RefuseRequest, server
<1>5. CASE ReceiveQueueEmpty
  BY <1>5 DEF Queues, ReceiveQueueEmpty, server
<1>6. CASE SendReply
  <2>1. Head(sendQueue) \in Reply /\ sendQueue' \in Seq(Reply)
    BY <1>6, HeadAndTail DEF Queues, SendReply, MaySend
  <2>2. answered' \in Seq(Reply)
    BY <1>6, <2>1, AppendProperties DEF Queues, SendReply
  <2> QED  BY <1>6, <2>1, <2>2 DEF Queues, SendReply
<1>7. CASE SendQueueDone
  BY <1>7 DEF Queues, SendQueueDone, server
<1>8. CASE Disconnect
  BY <1>8 DEF Queues, Disconnect, server, esp
<1>9. CASE Reconnect
  BY <1>9 DEF Queues, Reconnect, server, esp
<1>10. CASE DatabaseDown \/ DatabaseUp
  BY <1>10 DEF Queues, DatabaseDown, DatabaseUp, server, esp
<1>11. CASE Restart
  BY <1>11 DEF Queues, Restart, server
<1>12. CASE SendReplyInVain
  <2>1. sendQueue' \in Seq(Reply)
    BY <1>12, HeadAndTail DEF Queues, SendReplyInVain, MaySend
  <2> QED  BY <1>12, <2>1 DEF Queues, SendReplyInVain, server
<1>13. ASSUME NEW p \in overdue, CarryOut(p)
       PROVE  Queues'
  BY <1>13 DEF Queues, CarryOut, server, esp
<1>14. ASSUME NEW r \in Request, Ask(r)
       PROVE  Queues'
  <2>1. wire' \in Seq(Request) /\ asked' \in Seq(Request)
    BY <1>14, AppendProperties DEF Queues, Ask
  <2> QED  BY <1>14, <2>1 DEF Queues, Ask, esp
<1>15. ASSUME NEW a \in Appliance, NEW v \in BOOLEAN, OtherWrite(a, v)
       PROVE  Queues'
  BY <1>15 DEF Queues, OtherWrite, gateway
<1>16. CASE UNCHANGED gvars
  BY <1>16 DEF Queues, gvars, gateway
<1> QED
  BY <1>1, <1>2, <1>3, <1>5, <1>6, <1>7, <1>8, <1>9, <1>11, <1>12, <1>13,
     <1>14, <1>15, <1>16, <1>4, <1>10
     DEF Next, Gateway, Network
-----------------------------------------------------------------------------
(* The other variables.                                                    *)
Rest ==
    /\ control \in [Appliance -> BOOLEAN \cup {Absent}]
    /\ at \in {"setup", "listen", "receive", "send"}
    /\ overdue \subseteq Command
    /\ done \subseteq Command
    /\ breaks \in 0 .. MaxBreaks

LEMMA RestStep == Queues /\ Rest /\ [Next]_gvars => Rest'
<1> SUFFICES ASSUME Queues, Rest, [Next]_gvars PROVE Rest'
  OBVIOUS
<1> USE GatewayAssumption
<1>1. CASE Setup
  BY <1>1 DEF Rest, Setup, database, counters
<1>2. CASE Listen
  BY <1>2 DEF Rest, Listen, database, counters
<1>3. CASE HandleRequest
  <2> DEFINE r == Head(receiveQueue)
  <2>1. r \in Request /\ r # Unknown
    BY <1>3, HeadAndTail DEF Queues, HandleRequest
  <2> HIDE DEF r
  <2>2. /\ r \in Command /\ <<r[1], r[2]>> \in Command
        /\ r[1] \in Appliance /\ r[2] \in BOOLEAN
    BY <2>1, KnownRequest
  <2>3. PICK o \in Outcome :
           /\ control' = IF o = "stored"
                           THEN [control EXCEPT ![r[1]] = r[2]] ELSE control
           /\ done' = IF o = "stored" THEN done \cup {r} ELSE done
           /\ overdue' = IF o = "late" THEN overdue \cup {<<r[1], r[2]>>}
                                       ELSE overdue
    BY <1>3 DEF HandleRequest, PathOf, r
  <2>4. control' \in [Appliance -> BOOLEAN \cup {Absent}]
    BY <2>2, <2>3 DEF Rest
  <2>5. done' \subseteq Command /\ overdue' \subseteq Command
    BY <2>2, <2>3 DEF Rest
  <2> QED  BY <1>3, <2>4, <2>5 DEF Rest, HandleRequest
<1>4. CASE RefuseRequest
  BY <1>4 DEF Rest, RefuseRequest, database, counters
<1>5. CASE ReceiveQueueEmpty
  BY <1>5 DEF Rest, ReceiveQueueEmpty, database, counters
<1>6. CASE SendReply
  BY <1>6 DEF Rest, SendReply, database, counters
<1>7. CASE SendQueueDone
  BY <1>7 DEF Rest, SendQueueDone, database, counters
<1>8. CASE Disconnect
  BY <1>8 DEF Rest, Disconnect, Break, database, esp
<1>9. CASE Reconnect
  BY <1>9 DEF Rest, Reconnect, database, esp, counters
<1>10. CASE DatabaseDown \/ DatabaseUp
  BY <1>10 DEF Rest, DatabaseDown, DatabaseUp, Break, database, esp, counters
<1>11. CASE Restart
  BY <1>11 DEF Rest, Restart, Break, database
<1>12. CASE SendReplyInVain
  BY <1>12 DEF Rest, SendReplyInVain, Break, database
<1>13. ASSUME NEW p \in overdue, CarryOut(p)
       PROVE  Rest'
  <2>1. p \in Command /\ p[1] \in Appliance /\ p[2] \in BOOLEAN
    BY DEF Rest, Command
  <2>2. control' \in [Appliance -> BOOLEAN \cup {Absent}]
    BY <1>13, <2>1 DEF Rest, CarryOut
  <2> QED  BY <1>13, <2>1, <2>2 DEF Rest, CarryOut, esp
<1>14. ASSUME NEW r \in Request, Ask(r)
       PROVE  Rest'
  BY <1>14 DEF Rest, Ask, database, esp, counters
<1>15. ASSUME NEW a \in Appliance, NEW v \in BOOLEAN, OtherWrite(a, v)
       PROVE  Rest'
  BY <1>15 DEF Rest, OtherWrite, gateway
<1>16. CASE UNCHANGED gvars
  BY <1>16 DEF Rest, gvars, gateway
<1> QED
  BY <1>1, <1>2, <1>3, <1>5, <1>6, <1>7, <1>8, <1>9, <1>11, <1>12, <1>13,
     <1>14, <1>15, <1>16, <1>4, <1>10
     DEF Next, Gateway, Network

Links == connected \in BOOLEAN /\ reachable \in BOOLEAN

LEMMA LinksStep == Links /\ [Next]_gvars => Links'
BY Zenon DEF Links, Next, Gateway, Network, Setup, Listen, HandleRequest,
   RefuseRequest, ReceiveQueueEmpty, SendReply, SendQueueDone, Disconnect,
   Reconnect, DatabaseDown, DatabaseUp, Restart, SendReplyInVain, CarryOut,
   Ask, OtherWrite, gvars, gateway, esp, links

(* The state of the gateway is well-formed: the queues only ever hold      *)
(* requests for registered switches and replies to them.                   *)
THEOREM GatewayTypeCorrect == Spec => []TypeOK
<1> DEFINE Inv == Queues /\ Rest /\ Links
<1>1. Init => Inv
  BY EmptyQueues, GatewayAssumption DEF Init, Queues, Rest, Links
<1>2. Inv /\ [Next]_gvars => Inv'
  BY QueuesStep, RestStep, LinksStep
<1>3. Inv => TypeOK
  BY DEF Queues, Rest, Links, TypeOK
<1> HIDE DEF Inv
<1> QED  BY <1>1, <1>2, <1>3, PTL DEF Spec
-----------------------------------------------------------------------------
(* The path of the requests.                                               *)
LEMMA PathType ==
  ASSUME Queues
  PROVE  /\ RequestsOf(answered) \in Seq(Request)
         /\ RequestsOf(sendQueue) \in Seq(Request)
         /\ RequestsOf(answered) \o RequestsOf(sendQueue) \in Seq(Request)
         /\ RequestsOf(answered) \o RequestsOf(sendQueue) \o receiveQueue
               \in Seq(Request)
         /\ Path \in Seq(Request)
<1>1. RequestsOf(answered) \in Seq(Request) /\ RequestsOf(sendQueue) \in Seq(Request)
  BY RequestsProperties DEF Queues
<1>2. RequestsOf(answered) \o RequestsOf(sendQueue) \in Seq(Request)
  BY <1>1, ConcatProperties
<1>3. RequestsOf(answered) \o RequestsOf(sendQueue) \o receiveQueue \in Seq(Request)
  BY <1>2, ConcatProperties DEF Queues
<1>4. Path \in Seq(Request)
  BY <1>3, ConcatProperties DEF Queues, Path
<1> QED  BY <1>1, <1>2, <1>3, <1>4

(* Listen and the handlers only move requests along the path.              *)
LEMMA ListenKeepsPath == Queues /\ Listen => Path' = Path
<1> SUFFICES ASSUME Queues, Listen PROVE Path' = Path
  OBVIOUS
<1> DEFINE p == RequestsOf(answered) \o RequestsOf(sendQueue)
<1>1. answered' = answered /\ sendQueue' = sendQueue
  BY DEF Listen, server
<1>2. CASE connected
  <2>1. PICK n \in 0 .. Len(wire) :
           /\ receiveQueue' = receiveQueue \o SubSeq(wire, 1, n)
           /\ wire' = SubSeq(wire, n + 1, Len(wire))
    BY <1>2 DEF Listen
  <2> DEFINE a == SubSeq(wire, 1, n)
             b == SubSeq(wire, n + 1, Len(wire))
  <2>2. a \in Seq(Request) /\ b \in Seq(Request) /\ wire = a \o b
    BY Splitting DEF Queues
  <2>3. p \in Seq(Request) /\ receiveQueue \in Seq(Request)
        /\ p \o receiveQueue \in Seq(Request)
    BY PathType DEF Queues
  <2>4. Path' = (p \o (receiveQueue \o a)) \o b
    BY <1>1, <2>1 DEF Path
  <2> HIDE DEF a, b, p
  <2>5. p \o (receiveQueue \o a) = (p \o receiveQueue) \o a
    <3>1. \A s, q, x \in Seq(Request) : s \o (q \o x) = (s \o q) \o x
      <4> TAKE s, q, x \in Seq(Request)
      <4> QED  BY ConcatAssociative
    <3> QED  BY <2>2, <2>3, <3>1
  <2> DEFINE s == p \o receiveQueue
  <2>6. s \in Seq(Request) /\ Path' = (s \o a) \o b /\ Path = s \o wire
    BY <2>3, <2>4, <2>5 DEF Path, p
  <2> HIDE DEF s
  <2>7. (s \o a) \o b = s \o (a \o b)
    BY <2>2, <2>6, ConcatAssociative
  <2> QED  BY <2>2, <2>6, <2>7
<1>3. CASE ~connected
  BY <1>1, <1>3 DEF Listen, Path
<1> QED  BY <1>2, <1>3

LEMMA AnsweringKeepsPath ==
  ASSUME Queues, receiveQueue # <<>>, UNCHANGED <<answered, wire>>,
         receiveQueue' = Tail(receiveQueue),
         NEW p \in Reply, p.request = Head(receiveQueue),
         sendQueue' = Append(sendQueue, p)
  PROVE  Path' = Path
<1> DEFINE r == Head(receiveQueue)
           t == Tail(receiveQueue)
           a == RequestsOf(answered)
           q == RequestsOf(sendQueue)
<1>1. answered' = answered /\ wire' = wire /\ receiveQueue' = t
  OBVIOUS
<1>2. r \in Request /\ t \in Seq(Request) /\ receiveQueue = <<r>> \o t
  BY HeadAndTail DEF Queues
<1>3. RequestsOf(sendQueue') = q \o <<r>>
  BY RequestsAppend DEF Queues
<1>4. a \in Seq(Request) /\ q \in Seq(Request) /\ a \o q \in Seq(Request)
  BY PathType
<1>5. Path' = ((a \o (q \o <<r>>)) \o t) \o wire
  BY <1>1, <1>3 DEF Path
<1> HIDE DEF r, t, a, q
<1>6. a \o (q \o <<r>>) = (a \o q) \o <<r>>
  BY <1>2, <1>4, MoveOne, ConcatAssociative
<1>7. ((a \o q) \o <<r>>) \o t = (a \o q) \o (<<r>> \o t)
  BY <1>2, <1>4, MoveOne
<1> QED  BY <1>2, <1>5, <1>6, <1>7 DEF Path, a, q

LEMMA HandleRequestKeepsPath == Queues /\ HandleRequest => Path' = Path
<1> SUFFICES ASSUME Queues, HandleRequest PROVE Path' = Path
  OBVIOUS
<1>1. PICK o \in Outcome :
         sendQueue' = Append(sendQueue, [request |-> Head(receiveQueue),
                                         success |-> Success(o)])
  BY DEF HandleRequest, Push
<1>2. [request |-> Head(receiveQueue), success |-> Success(o)] \in Reply
  BY HeadAndTail, ReplyType DEF Queues, HandleRequest
<1> QED  BY <1>1, <1>2, AnsweringKeepsPath DEF HandleRequest, Popped, server

LEMMA RefuseRequestKeepsPath == Queues /\ RefuseRequest => Path' = Path
BY UnknownRequest, AnsweringKeepsPath DEF RefuseRequest, Push, Popped, server

LEMMA SendReplyKeepsPath == Queues /\ SendReply => Path' = Path
<1> SUFFICES ASSUME Queues, SendReply PROVE Path' = Path
  OBVIOUS
<1> DEFINE r == Head(sendQueue)
           t == RequestsOf(Tail(sendQueue))
           a == RequestsOf(answered)
<1>1. wire' = wire /\ receiveQueue' = receiveQueue /\ sendQueue' = Tail(sendQueue)
  BY DEF SendReply
<1>2. sendQueue \in Seq(Reply) /\ sendQueue # <<>> /\ answered \in Seq(Reply)
  BY DEF Queues, SendReply, MaySend
<1>3. r \in Reply /\ Tail(sendQueue) \in Seq(Reply)
  BY <1>2, HeadAndTail
<1>4. RequestsOf(sendQueue) = <<r.request>> \o t
  BY <1>2, RequestsHeadTail
<1>5. RequestsOf(answered') = a \o <<r.request>>
  BY <1>2, <1>3, RequestsAppend DEF SendReply
<1>6. Path' = (((a \o <<r.request>>) \o t) \o receiveQueue) \o wire
  BY <1>1, <1>5 DEF Path
<1>7. a \in Seq(Request) /\ t \in Seq(Request) /\ r.request \in Request
  BY <1>2, <1>3, RequestsProperties DEF Reply
<1> HIDE DEF r, t, a
<1>8. (a \o <<r.request>>) \o t = a \o (<<r.request>> \o t)
  BY <1>7, MoveOne
<1> QED  BY <1>4, <1>6, <1>8 DEF Path, a

(* A new request is added at the end of the path.                          *)
LEMMA AskExtendsPath ==
  ASSUME Queues, NEW r \in Request, Ask(r)
  PROVE  Path' = Append(Path, r)
<1> DEFINE p == RequestsOf(answered) \o RequestsOf(sendQueue) \o receiveQueue
<1>1. p \in Seq(Request) /\ wire \in Seq(Request) /\ Path \in Seq(Request)
  BY PathType DEF Queues
<1>2. wire' = wire \o <<r>>
  BY <1>1, AppendIsConcat DEF Ask
<1>3. Path' = p \o (wire \o <<r>>)
  BY <1>2 DEF Ask, esp, Path
<1>4. Path = p \o wire
  BY DEF Path
<1> HIDE DEF p
<1>5. p \o (wire \o <<r>>) = (p \o wire) \o <<r>>
  BY <1>1, MoveOne, ConcatAssociative
<1> QED  BY <1>1, <1>3, <1>4, <1>5, AppendIsConcat
-----------------------------------------------------------------------------
(* A loss of the link or a reset cuts a piece out of the path.             *)
LEMMA SubsequenceOfItself ==
  ASSUME NEW S, NEW s \in Seq(S)
  PROVE  IsSubsequence(s, s)
<1>1. <<>> \in Seq(S) /\ s \o <<>> = s
  BY EmptySeq, ConcatEmptySeq
<1>2. IsSubsequence(s, s \o <<>>)
  BY <1>1, PrefixIsSubsequence
<1> QED  BY <1>1, <1>2

LEMMA WireCut ==
  ASSUME Queues, wire' = <<>>, UNCHANGED <<answered, sendQueue, receiveQueue>>
  PROVE  IsSubsequence(Path', Path)
<1> DEFINE p == RequestsOf(answered) \o RequestsOf(sendQueue) \o receiveQueue
<1>1. p \in Seq(Request) /\ wire \in Seq(Request)
  BY PathType DEF Queues
<1>2. Path' = p \o <<>> /\ Path = p \o wire
  BY DEF Path
<1> HIDE DEF p
<1>3. p \o <<>> = p
  BY <1>1, ConcatEmptySeq
<1> QED  BY <1>1, <1>2, <1>3, PrefixIsSubsequence

LEMMA RestartCut == Queues /\ Restart => IsSubsequence(Path', Path)
<1> SUFFICES ASSUME Queues, Restart PROVE IsSubsequence(Path', Path)
  OBVIOUS
<1> DEFINE a == RequestsOf(answered)
           q == RequestsOf(sendQueue)
<1>1. a \in Seq(Request) /\ q \in Seq(Request) /\ receiveQueue \in Seq(Request)
      /\ wire \in Seq(Request)
  BY PathType DEF Queues
<1>2. Path' = ((a \o <<>>) \o <<>>) \o <<>>
  BY NoRequests DEF Restart, Path, server
<1>3. Path = ((a \o q) \o receiveQueue) \o wire
  BY DEF Path
<1> HIDE DEF a, q
<1>4. a \o <<>> = a
  BY <1>1, ConcatEmptySeq
<1> DEFINE rest == q \o (receiveQueue \o wire)
<1>5. /\ receiveQueue \o wire \in Seq(Request)
      /\ rest \in Seq(Request)
      /\ a \o q \in Seq(Request)
  BY <1>1, ConcatProperties
<1>6. ((a \o q) \o receiveQueue) \o wire = (a \o q) \o (receiveQueue \o wire)
  <2> DEFINE b == a \o q
  <2>1. b \in Seq(Request)
    BY <1>5
  <2> HIDE DEF b
  <2>2. (b \o receiveQueue) \o wire = b \o (receiveQueue \o wire)
    BY <1>1, <2>1, ConcatAssociative
  <2> QED  BY <2>2 DEF b
<1>7. (a \o q) \o (receiveQueue \o wire) = a \o rest
  <2> DEFINE c == receiveQueue \o wire
  <2>1. c \in Seq(Request) /\ a \in Seq(Request) /\ q \in Seq(Request)
    BY <1>1, <1>5
  <2> HIDE DEF c, rest
  <2>2. (a \o q) \o c = a \o (q \o c)
    BY <2>1, ConcatAssociative
  <2> QED  BY <2>2 DEF c, rest
<1> HIDE DEF rest
<1>8. IsSubsequence(a, a \o rest)
  BY <1>1, <1>5, PrefixIsSubsequence
<1> QED  BY <1>2, <1>3, <1>4, <1>6, <1>7, <1>8

LEMMA ReplyCut == Queues /\ SendReplyInVain => IsSubsequence(Path', Path)
<1> SUFFICES ASSUME Queues, SendReplyInVain PROVE IsSubsequence(Path', Path)
  OBVIOUS
<1> DEFINE x == Head(sendQueue).request
           t == RequestsOf(Tail(sendQueue))
           a == RequestsOf(answered)
           rest == t \o receiveQueue
           most == (a \o <<x>>) \o rest
<1>1. answered' = answered /\ receiveQueue' = receiveQueue /\ wire' = <<>>
      /\ sendQueue' = Tail(sendQueue)
  BY DEF SendReplyInVain, server
<1>2. /\ sendQueue \in Seq(Reply) /\ sendQueue # <<>>
      /\ answered \in Seq(Reply)
      /\ receiveQueue \in Seq(Request) /\ wire \in Seq(Request)
  BY DEF Queues, SendReplyInVain, MaySend
<1>3. Head(sendQueue) \in Reply /\ Tail(sendQueue) \in Seq(Reply)
  BY <1>2, HeadAndTail
<1>4. RequestsOf(sendQueue) = <<x>> \o t
  BY <1>2, RequestsHeadTail
<1>5. a \in Seq(Request) /\ t \in Seq(Request) /\ x \in Request
  BY <1>2, <1>3, RequestsProperties DEF Reply
<1>6. /\ Path' = ((a \o t) \o receiveQueue) \o <<>>
      /\ Path = ((a \o (<<x>> \o t)) \o receiveQueue) \o wire
  BY <1>1, <1>4 DEF Path
<1> HIDE DEF x, t, a
<1>7. /\ a \o t \in Seq(Request)
      /\ rest \in Seq(Request)
      /\ (a \o t) \o receiveQueue = a \o rest
  BY <1>2, <1>5, ConcatProperties, ConcatAssociative
<1>8. a \o rest \in Seq(Request) /\ Path' = a \o rest
  <2>1. a \o rest \in Seq(Request)
    BY <1>5, <1>7, ConcatProperties
  <2> HIDE DEF rest
  <2>2. (a \o rest) \o <<>> = a \o rest
    BY <2>1, ConcatEmptySeq
  <2> QED  BY <1>6, <1>7, <2>1, <2>2
<1>9. a \o <<x>> \in Seq(Request)
  BY <1>5, MoveOne, ConcatProperties
<1>10. (a \o (<<x>> \o t)) \o receiveQueue = most
  <2> DEFINE b == a \o <<x>>
  <2>1. a \o (<<x>> \o t) = b \o t /\ b \in Seq(Request)
    BY <1>5, <1>9, MoveOne
  <2>2. b \in Seq(Request) /\ t \in Seq(Request)
        /\ receiveQueue \in Seq(Request)
    BY <1>2, <1>5, <2>1
  <2> HIDE DEF b
  <2>3. (b \o t) \o receiveQueue = b \o (t \o receiveQueue)
    BY <2>2, ConcatAssociative
  <2> QED  BY <2>1, <2>3 DEF b
<1>11. most \in Seq(Request)
  BY <1>7, <1>9, ConcatProperties
<1>12. Path = most \o wire
  BY <1>6, <1>10
<1>13. IsSubsequence(a \o rest, most)
  <2> HIDE DEF rest
  <2> QED  BY <1>5, <1>7, SubsequenceWithoutOne
<1> HIDE DEF rest, most
<1>14. IsSubsequence(most, most \o wire)
  BY <1>2, <1>11, PrefixIsSubsequence
<1>15. IsSubsequence(a \o rest, most \o wire)
  BY <1>13, <1>14, SubsequenceIsTransitive
<1> QED  BY <1>8, <1>12, <1>15
-----------------------------------------------------------------------------
(* What a step does to the path.                                           *)
PathKept     == Path' = Path /\ UNCHANGED <<asked, breaks>>
PathExtended == /\ \E r \in Request :
                      Path' = Append(Path, r) /\ asked' = Append(asked, r)
                /\ UNCHANGED breaks
PathCut      == /\ IsSubsequence(Path', Path)
                /\ UNCHANGED asked
                /\ breaks' = breaks + 1

LEMMA PathStep ==
  ASSUME Queues, [Next]_gvars
  PROVE  PathKept \/ PathExtended \/ PathCut
<1>1. CASE Setup
  BY <1>1 DEF Setup, PathKept, Path, server, counters
<1>2. CASE Listen
  BY <1>2, ListenKeepsPath DEF Listen, PathKept, server, counters
<1>3. CASE HandleRequest
  BY <1>3, HandleRequestKeepsPath DEF HandleRequest, PathKept, server
<1>4. CASE RefuseRequest
  BY <1>4, RefuseRequestKeepsPath DEF RefuseRequest, PathKept, server, counters
<1>5. CASE ReceiveQueueEmpty
  BY <1>5 DEF ReceiveQueueEmpty, PathKept, Path, server, counters
<1>6. CASE SendReply
  BY <1>6, SendReplyKeepsPath DEF SendReply, PathKept, counters
<1>7. CASE SendQueueDone
  BY <1>7 DEF SendQueueDone, PathKept, Path, server, counters
<1>8. CASE Disconnect
  <2>1. wire' = <<>> /\ UNCHANGED <<answered, sendQueue, receiveQueue>>
    BY <1>8 DEF Disconnect, server, esp
  <2>2. IsSubsequence(Path', Path)
    BY <2>1, WireCut
  <2> QED  BY <1>8, <2>2 DEF Disconnect, Break, PathCut, server
<1>9. CASE Reconnect
  BY <1>9 DEF Reconnect, PathKept, Path, server, esp, counters
<1>10. CASE DatabaseUp
  BY <1>10 DEF DatabaseUp, PathKept, Path, server, esp, counters
<1>11. CASE DatabaseDown
  <2>1. Path' = Path /\ IsSubsequence(Path, Path)
    BY <1>11, PathType, SubsequenceOfItself DEF DatabaseDown, Path, server, esp
  <2> QED  BY <1>11, <2>1 DEF DatabaseDown, Break, PathCut, server
<1>12. CASE Restart
  BY <1>12, RestartCut DEF Restart, Break, PathCut, server
<1>13. CASE SendReplyInVain
  BY <1>13, ReplyCut DEF SendReplyInVain, Break, PathCut, server
<1>14. ASSUME NEW p \in overdue, CarryOut(p)
       PROVE  PathKept
  BY <1>14 DEF CarryOut, PathKept, Path, server, esp
<1>15. ASSUME NEW r \in Request, Ask(r)
       PROVE  PathExtended
  <2>1. Path' = Append(Path, r) /\ asked' = Append(asked, r)
    BY <1>15, AskExtendsPath DEF Ask
  <2> QED  BY <1>15, <2>1 DEF Ask, PathExtended, counters
<1>16. ASSUME NEW a \in Appliance, NEW v \in BOOLEAN, OtherWrite(a, v)
       PROVE  PathKept
  BY <1>16 DEF OtherWrite, PathKept, Path, gateway
<1>17. CASE UNCHANGED gvars
  BY <1>17 DEF PathKept, Path, gvars, gateway
<1> QED
  BY <1>1, <1>2, <1>3, <1>5, <1>6, <1>7, <1>8, <1>9, <1>12, <1>13, <1>14,
     <1>15, <1>16, <1>17, <1>4, <1>10, <1>11
     DEF Next, Gateway, Network

LEMMA EmptyPath ==
  ASSUME Init
  PROVE  Path = <<>> /\ asked = <<>> /\ IsSubsequence(Path, asked)
<1>1. ((<<>> \o <<>>) \o <<>>) \o <<>> = <<>>
  BY EmptyQueues, ConcatEmptySeq
<1>2. Path = <<>> /\ asked = <<>>
  BY <1>1, NoRequests DEF Init, Path
<1>3. IsSubsequence(<<>>, <<>>)
  BY EmptyQueues, SubsequenceOfItself
<1> QED  BY <1>2, <1>3

LEMMA EmptyInit == Init => Queues /\ breaks \in Nat
BY EmptyQueues DEF Init, Queues

(* As long as nothing broke, the answers, the replies and requests still   *)
(* queued and the requests on the wire are what was asked, in order.       *)
THEOREM RequestsAnsweredInOrder == Spec => []AnsweredInOrder
<1> DEFINE Inv == Queues /\ breaks \in Nat /\ (breaks = 0 => Path = asked)
<1>1. Init => Inv
  BY EmptyInit, EmptyPath
<1>2. ASSUME Inv, [Next]_gvars
      PROVE  Inv'
  <2>1. Queues'
    BY <1>2, QueuesStep
  <2>2. PathKept \/ PathExtended \/ PathCut
    BY <1>2, PathStep
  <2>3. breaks' \in Nat /\ (breaks' = 0 => Path' = asked')
    BY <1>2, <2>2 DEF PathKept, PathExtended, PathCut
  <2> QED  BY <2>1, <2>3
<1>3. Inv => AnsweredInOrder
  BY DEF AnsweredInOrder, Path
<1> HIDE DEF Inv
<1> QED  BY <1>1, <1>2, <1>3, PTL DEF Spec

(* Whatever breaks, no request is answered twice, none that was not asked, *)
(* and none overtakes another one.                                         *)
THEOREM NeverAnsweredTwice == Spec => []NeverTwice
<1> DEFINE Inv == Queues /\ IsSubsequence(Path, asked)
<1>1. Init => Inv
  BY EmptyInit, EmptyPath
<1>2. ASSUME Inv, [Next]_gvars
      PROVE  Inv'
  <2>1. Queues'
    BY <1>2, QueuesStep
  <2>2. Path \in Seq(Request) /\ asked \in Seq(Request)
    BY <1>2, PathType DEF Queues
  <2>3. CASE PathKept
    BY <1>2, <2>1, <2>3 DEF PathKept, IsSubsequence
  <2>4. CASE PathExtended
    <3>1. PICK r \in Request : Path' = Append(Path, r) /\ asked' = Append(asked, r)
      BY <2>4 DEF PathExtended
    <3>2. IsSubsequence(Append(Path, r), Append(asked, r))
      BY <1>2, <2>2, SubsequenceOfAppended
    <3>3. IsSubsequence(Path, asked)'
      BY <3>1, <3>2 DEF IsSubsequence
    <3> QED  BY <2>1, <3>3
  <2>5. CASE PathCut
    <3>1. IsSubsequence(Path', asked)
      BY <1>2, <2>5, SubsequenceIsTransitive DEF PathCut
    <3>2. IsSubsequence(Path, asked)'
      BY <2>5, <3>1 DEF PathCut, IsSubsequence
    <3> QED  BY <2>1, <3>2
  <2> QED  BY <1>2, <2>3, <2>4, <2>5, PathStep
<1>3. Inv => NeverTwice
  BY DEF NeverTwice, Path
<1> HIDE DEF Inv
<1> QED  BY <1>1, <1>2, <1>3, PTL DEF Spec
-----------------------------------------------------------------------------
(* What was stored, while nothing breaks.                                  *)
Stored == {r \in Reply : r.success => r.request \in done}

NothingLost ==
    breaks = 0 => /\ connected = TRUE /\ reachable = TRUE
                  /\ sendQueue \in Seq(Stored)
                  /\ answered \in Seq(Stored)

\* breaks only grows, and what was stored stays so.
LEMMA BreaksStep ==
  ASSUME breaks \in Nat, [Next]_gvars, breaks' = 0
  PROVE  breaks = 0 /\ done \subseteq done'
<1>1. breaks' = breaks \/ breaks' = breaks + 1
  BY DEF Next, Gateway, Network, Setup, Listen, HandleRequest, RefuseRequest,
         ReceiveQueueEmpty, SendReply, SendQueueDone, Disconnect, Reconnect,
         DatabaseDown, DatabaseUp, Restart, SendReplyInVain, CarryOut, Break, Ask, OtherWrite, gateway,
         gvars, counters
<1>2. done \subseteq done'
  BY DEF Next, Gateway, Network, Setup, Listen, HandleRequest, RefuseRequest,
         ReceiveQueueEmpty, SendReply, SendQueueDone, Disconnect, Reconnect,
         DatabaseDown, DatabaseUp, Restart, SendReplyInVain, CarryOut, Ask, OtherWrite, gateway,
         gvars, counters
<1> QED  BY <1>1, <1>2

LEMMA NothingLostStep ==
  ASSUME Queues, breaks \in Nat, NothingLost, [Next]_gvars
  PROVE  NothingLost'
<1> SUFFICES ASSUME breaks' = 0
             PROVE  /\ connected' = TRUE /\ reachable' = TRUE
                    /\ sendQueue' \in Seq(Stored') /\ answered' \in Seq(Stored')
  BY DEF NothingLost
<1>1. breaks = 0 /\ Stored \subseteq Stored'
  BY BreaksStep DEF Stored
<1>2. /\ connected = TRUE /\ reachable = TRUE
      /\ sendQueue \in Seq(Stored) /\ answered \in Seq(Stored)
  BY <1>1 DEF NothingLost
<1>3. sendQueue \in Seq(Stored') /\ answered \in Seq(Stored')
  BY <1>1, <1>2, SeqOfMore
<1>4. CASE HandleRequest
  <2> DEFINE r == Head(receiveQueue)
  <2>1. r \in Request /\ Outcome = {"stored"}
    BY <1>2, <1>4, HeadAndTail DEF HandleRequest, Queues, Outcome
  <2>2. /\ done' = done \cup {r} /\ UNCHANGED <<links, answered>>
        /\ sendQueue' = Append(sendQueue, [request |-> r, success |-> Success("stored")])
    BY <1>4, <2>1 DEF HandleRequest, Push, server
  <2>3. [request |-> r, success |-> Success("stored")] \in Stored'
    BY <2>1, <2>2, ReplyType DEF Stored, Success, Reply
  <2> QED  BY <1>2, <1>3, <2>2, <2>3, AppendProperties DEF links
<1>5. CASE SendReply
  <2>1. /\ sendQueue # <<>> /\ sendQueue' = Tail(sendQueue)
        /\ answered' = Append(answered, Head(sendQueue))
        /\ UNCHANGED <<connected, reachable>>
    BY <1>5 DEF SendReply, MaySend, links
  <2>2. Head(sendQueue) \in Stored' /\ Tail(sendQueue) \in Seq(Stored')
    BY <1>3, <2>1, HeadAndTail
  <2> QED  BY <1>2, <1>3, <2>1, <2>2, AppendProperties
<1>6. CASE RefuseRequest
  <2>1. /\ sendQueue' = Append(sendQueue, [request |-> Unknown, success |-> FALSE])
        /\ UNCHANGED <<connected, reachable, answered>>
    BY <1>6 DEF RefuseRequest, Push, links, server
  <2>2. [request |-> Unknown, success |-> FALSE] \in Stored'
    BY UnknownRequest DEF Stored
  <2> QED  BY <1>2, <1>3, <2>1, <2>2, AppendProperties
<1>7. CASE Disconnect \/ DatabaseDown \/ Restart \/ SendReplyInVain
  BY <1>1, <1>7 DEF Disconnect, DatabaseDown, Restart, SendReplyInVain, Break
<1>8. CASE \/ Setup \/ Listen \/ ReceiveQueueEmpty \/ SendQueueDone \/ Reconnect
           \/ DatabaseUp
           \/ (\E p \in overdue : CarryOut(p)) \/ (\E r \in Request : Ask(r))
           \/ (\E a \in Appliance, v \in BOOLEAN : OtherWrite(a, v))
           \/ UNCHANGED gvars
  <2>1. UNCHANGED <<sendQueue, answered>>
    BY <1>8
    DEF Setup, Listen, ReceiveQueueEmpty, SendQueueDone, Reconnect,
        DatabaseUp, CarryOut, Ask, OtherWrite, gateway, gvars, server, esp
  <2>2. /\ connected' = connected \/ connected' = TRUE
        /\ reachable' = reachable \/ reachable' = TRUE
    BY <1>8, Zenon
    DEF Setup, Listen, ReceiveQueueEmpty, SendQueueDone, Reconnect,
        DatabaseUp, CarryOut, Ask, OtherWrite, gateway, gvars, links
  <2> QED  BY <1>2, <1>3, <2>1, <2>2
<1> QED  BY <1>4, <1>5, <1>7, <1>8, <1>6 DEF Next, Gateway, Network

(* As long as nothing broke, a reply that reports success is for a command *)
(* that the database has stored, although no callback looks at the result  *)
(* of its write: only a break makes the report false.                      *)
THEOREM SuccessIsTrueUntilABreak ==
    Spec => [](breaks = 0 => SuccessMeansStored)
<1> DEFINE Inv == Queues /\ breaks \in Nat /\ NothingLost
<1>1. Init => Inv
  BY EmptyInit, EmptySeq DEF Init, NothingLost
<1>2. Inv /\ [Next]_gvars => Inv'
  <2> SUFFICES ASSUME Inv, [Next]_gvars PROVE Inv'
    OBVIOUS
  <2>1. breaks' \in Nat
    BY DEF Next, Gateway, Network, Setup, Listen, HandleRequest,
           RefuseRequest, ReceiveQueueEmpty, SendReply, SendQueueDone,
           Disconnect, Reconnect, DatabaseDown, DatabaseUp, Restart,
           SendReplyInVain, CarryOut, Break, Ask, OtherWrite,
           gateway, gvars, counters
  <2> QED  BY <2>1, QueuesStep, NothingLostStep
<1>3. Inv => (breaks = 0 => SuccessMeansStored)
  <2> SUFFICES ASSUME Inv, breaks = 0, NEW i \in DOMAIN answered
               PROVE  answered[i].success => answered[i].request \in done
    BY DEF SuccessMeansStored
  <2>1. answered \in Seq(Stored)
    BY DEF NothingLost
  <2>2. answered[i] \in Stored
    BY <2>1, ElementOfSeq, LenProperties
  <2> QED  BY <2>2 DEF Stored
<1> HIDE DEF Inv
<1> QED  BY <1>1, <1>2, <1>3, PTL DEF Spec
=============================================================================
