--------------------------- MODULE CardReader_proofs ---------------------------
(***************************************************************************)
(* Proofs that rfidDOOR() judges the card that was selected, for any set   *)
(* of cards, any length and number of the cascade levels and any number of *)
(* exchanges that go wrong.                                                *)
(***************************************************************************)
EXTENDS CardReader, TLAPS

\* During PICC_Select() a card is READY on the level at hand or IDLE, and
\* the levels read so far are those of every card that is still READY.
Selecting ==
    pc = "select" =>
        \A c \in Cards :
            picc[c] # Idle =>
                /\ picc[c] = level
                /\ level <= Depth[c]
                /\ \A k \in 1 .. level - 1 : uid[k] = Uid[c][k]

ReadOff ==
    pc = "read" =>
        /\ acked # {}
        /\ \A c \in acked : IsUidOf(c, uid, size)
        /\ \A c \in Cards :
              picc[c] # Idle => picc[c] = Active /\ IsUidOf(c, uid, size)

CardInv ==
    /\ TypeOK
    /\ tries <= known
    /\ Selecting
    /\ ReadOff

LEMMA CardInit == Init => CardInv
    BY CardAssumption
    DEF Init, CardInv, TypeOK, Selecting, ReadOff, Idle, Active, Level, Bits,
        Frames, Zeros

\* The bit in which two answers differ is one the reader does not know.
LEMMA CollisionIsNew ==
    ASSUME TypeOK, NEW p \in Bits, Collides(Answers, p)
    PROVE  known < p
<1>1. PICK c \in Listeners, d \in Listeners : Uid[c][level][p] # Uid[d][level][p]
    BY DEF Collides, Answers
<1>2. /\ \A i \in 1 .. known : Uid[c][level][i] = buffer[i]
      /\ \A i \in 1 .. known : Uid[d][level][i] = buffer[i]
    BY DEF Listeners, Agree
<1>3. p \notin 1 .. known
    BY <1>1, <1>2
<1> QED
    BY <1>3, CardAssumption DEF TypeOK, Bits

LEMMA ChoiceIsTyped ==
    ASSUME TypeOK, NEW f \in Frames, NEW p \in Bits, Choose(f, p)
    PROVE  known' = p /\ buffer' \in Frames
    BY DEF Choose, Decided, Frames, Bits

LEMMA FailedStep ==
    ASSUME CardInv, Failed, acked' \subseteq Cards, field' \subseteq Cards,
           picc' \in [Cards -> Idle .. Active], faults' \in 0 .. MaxFaults
    PROVE  CardInv'
    BY DEF CardInv, Failed, TypeOK, Selecting, ReadOff

\* An exchange of the anticollision loop that does not give up.
LEMMA ExchangeStep ==
    ASSUME CardInv, pc = "select", known < known', known' \in 0 .. B,
           buffer' \in Frames, tries' = tries + 1,
           UNCHANGED <<pc, level, uid, size, verdict, field, picc, acked>>,
           faults' \in 0 .. MaxFaults
    PROVE  CardInv'
<1>1. tries' \in Nat /\ tries' <= known'
    BY CardAssumption DEF CardInv, TypeOK
<1> QED
    BY <1>1 DEF CardInv, TypeOK, Selecting, ReadOff

LEMMA CardStep == CardInv /\ [Next]_vars => CardInv'
<1> SUFFICES ASSUME CardInv, [Next]_vars PROVE CardInv'
    OBVIOUS
<1>f. \A c \in Cards, k \in Level : Uid[c][k] \in Frames
    BY CardAssumption
<1>l. level \in Nat /\ 1 <= level /\ level <= Levels /\ Levels \in Nat
    BY CardAssumption DEF CardInv, TypeOK, Level
<1>r. HearReqa => picc' \in [Cards -> Idle .. Active]
    BY CardAssumption DEF HearReqa, Idle, Active
<1>s. HearSelect => picc' \in [Cards -> Idle .. Active]
    BY <1>l DEF HearSelect, Idle, Active
<1>a. Acknowledging \subseteq Cards
    BY DEF Acknowledging, CardInv, TypeOK
<1>c. Copy => uid' \in [Level -> Frames]
    BY <1>l DEF Copy, CardInv, TypeOK, UidIndex, Level
<1>1. CASE Request
  <2>1. CASE Invited = {}
    BY <1>1, <2>1, <1>r, FailedStep DEF Request, CardInv, TypeOK
  <2>2. CASE Invited # {}
    <3>1. /\ HearReqa /\ BeginLevel(1)
          /\ UNCHANGED <<uid, size, verdict, field, acked, faults>>
      BY <1>1, <2>2 DEF Request
    <3>2. TypeOK' /\ tries' <= known'
      BY <3>1, <1>r, CardAssumption DEF CardInv, TypeOK, BeginLevel, Level
    <3>3. Selecting'
      <4> SUFFICES ASSUME NEW c \in Cards, picc'[c] # Idle
                   PROVE  picc'[c] = 1 /\ 1 <= Depth[c]
        BY <3>1 DEF Selecting, BeginLevel
      <4> QED
        BY <3>1, CardAssumption DEF HearReqa, Level
    <3> QED
      BY <3>1, <3>2, <3>3 DEF CardInv, ReadOff, BeginLevel
  <2> QED
    BY <2>1, <2>2
<1>2. CASE Anticollision
  <2>1. CASE Failed
    BY <1>2, <2>1, FailedStep DEF Anticollision, CardInv, TypeOK
  <2>2. ASSUME NEW f \in Answers, buffer' = f, known' = B,
               tries' = tries + 1, UNCHANGED <<pc, level, uid, size, verdict>>
        PROVE  CardInv'
    <3>1. f \in Frames
      BY <1>f, <1>l DEF Answers, Listeners, CardInv, TypeOK, Level
    <3> QED
      BY <1>2, <2>2, <3>1, ExchangeStep, CardAssumption
      DEF Anticollision, CardInv, TypeOK
  <2>3. ASSUME NEW p \in Bits, NEW f \in Answers, Collides(Answers, p),
               Choose(f, p),
               tries' = tries + 1, UNCHANGED <<pc, level, uid, size, verdict>>
        PROVE  CardInv'
    <3>1. f \in Frames
      BY <1>f, <1>l DEF Answers, Listeners, CardInv, TypeOK, Level
    <3>2. known' = p /\ buffer' \in Frames /\ known < p
      BY <2>3, <3>1, CollisionIsNew, ChoiceIsTyped DEF CardInv
    <3>3. known' \in 0 .. B /\ known < known'
      BY <3>2, CardAssumption DEF Bits
    <3> QED
      BY <1>2, <2>3, <3>2, <3>3, ExchangeStep DEF Anticollision, CardInv, TypeOK
  <2> QED
    BY <1>2, <2>1, <2>2, <2>3 DEF Anticollision
<1>3. CASE Select
  <2>1. /\ HearSelect /\ acked' = Acknowledging /\ pc = "select"
        /\ UNCHANGED <<field, faults>>
    BY <1>3 DEF Select
  <2>2. CASE Failed
    BY <2>1, <2>2, <1>s, <1>a, FailedStep DEF CardInv, TypeOK
  <2>3. ASSUME Acknowledging # {}, Copy, UNCHANGED verdict,
               \A c \in Acknowledging : Cascade(c), level < Levels,
               BeginLevel(level + 1), UNCHANGED size
        PROVE  CardInv'
    <3>1. TypeOK' /\ tries' <= known'
      BY <2>1, <2>3, <1>s, <1>a, <1>c, <1>l, CardAssumption
      DEF CardInv, TypeOK, BeginLevel, Level
    <3>2. Selecting'
      <4> SUFFICES ASSUME NEW c \in Cards, picc'[c] # Idle
                   PROVE  /\ picc'[c] = level' /\ level' <= Depth[c]
                          /\ \A k \in 1 .. level' - 1 : uid'[k] = Uid[c][k]
        BY DEF Selecting
      <4>1. c \in Acknowledging /\ Depth[c] > level /\ picc'[c] = level + 1
        BY <2>1, <2>3 DEF HearSelect, Cascade
      <4>2. level' = level + 1 /\ level + 1 <= Depth[c]
        BY <2>3, <4>1, <1>l, CardAssumption DEF BeginLevel, Level
      <4>3. \A k \in 1 .. level - 1 : uid[k] = Uid[c][k]
        BY <2>1, <4>1, <1>l DEF Acknowledging, CardInv, Selecting, Idle
      <4>4. ASSUME NEW k \in 1 .. level PROVE uid'[k] = Uid[c][k]
        BY <2>3, <4>1, <4>3, <1>l
        DEF Copy, UidIndex, Acknowledging, CardInv, TypeOK, Level
      <4> QED
        BY <4>1, <4>2, <4>4, <1>l
    <3> QED
      BY <2>3, <3>1, <3>2 DEF CardInv, ReadOff, BeginLevel
  <2>4. ASSUME Acknowledging # {}, Copy, UNCHANGED verdict,
               \A c \in Acknowledging : ~Cascade(c), Complete
        PROVE  CardInv'
    <3>1. TypeOK' /\ tries' <= known'
      BY <2>1, <2>4, <1>s, <1>a, <1>c, <1>l DEF CardInv, TypeOK, Complete
    <3>2. ASSUME NEW c \in Acknowledging PROVE IsUidOf(c, uid', size')
      <4>1. c \in Cards /\ picc[c] = level /\ Uid[c][level] = buffer
        BY <1>a DEF Acknowledging
      <4>2. level <= Depth[c] /\ \A k \in 1 .. level - 1 : uid[k] = Uid[c][k]
        BY <2>1, <4>1, <1>l DEF CardInv, Selecting, Idle
      <4>3. Depth[c] = level /\ size' = level
        BY <2>4, <4>1, <4>2, <1>l, CardAssumption DEF Cascade, Level, Complete
      <4>4. ASSUME NEW k \in 1 .. level PROVE uid'[k] = Uid[c][k]
        BY <2>4, <4>1, <4>2, <1>l DEF Copy, UidIndex, CardInv, TypeOK, Level
      <4> QED
        BY <4>3, <4>4 DEF IsUidOf
    <3>3. ASSUME NEW c \in Cards, picc'[c] # Idle
          PROVE  picc'[c] = Active /\ c \in Acknowledging
      <4>1. c \in Acknowledging
        BY <2>1, <3>3 DEF HearSelect
      <4> QED
        BY <2>1, <2>4, <4>1 DEF HearSelect, Cascade
    <3>4. ReadOff'
      BY <2>1, <2>4, <3>2, <3>3 DEF ReadOff
    <3> QED
      BY <2>4, <3>1, <3>4 DEF CardInv, Selecting, Complete
  <2> QED
    BY <1>3, <2>2, <2>3, <2>4 DEF Select
<1>4. CASE RfidDOOR
    BY <1>4 DEF RfidDOOR, CardInv, TypeOK, Selecting, ReadOff
<1>5. CASE Fault
  <2>1. faults' \in 0 .. MaxFaults /\ UNCHANGED field
    BY <1>5, CardAssumption DEF Fault, CardInv, TypeOK
  <2>2. CASE LostRequest
    BY <2>1, <2>2, <1>r, FailedStep DEF LostRequest, CardInv, TypeOK
  <2>3. CASE LostAnticollision \/ LostSelect
    BY <2>1, <2>3, FailedStep DEF LostAnticollision, LostSelect, CardInv, TypeOK
  <2>4. CASE GarbledAnswer
    <3>1. PICK f \in Frames :
              \/ buffer' = f /\ known' = B
              \/ \E p \in known + 1 .. B : Choose(f, p)
      BY <2>4 DEF GarbledAnswer
    <3>2. buffer' \in Frames /\ known' \in 0 .. B /\ known < known'
      <4>1. known \in 0 .. B /\ known < B
        BY <2>4 DEF GarbledAnswer, CardInv, TypeOK
      <4>2. CASE buffer' = f /\ known' = B
        BY <4>1, <4>2, CardAssumption
      <4>3. CASE \E p \in known + 1 .. B : Choose(f, p)
        <5>1. PICK p \in known + 1 .. B : Choose(f, p)
          BY <4>3
        <5>2. p \in Bits /\ known < p /\ p \in 0 .. B
          BY <4>1, CardAssumption DEF Bits
        <5> QED
          BY <5>1, <5>2, ChoiceIsTyped DEF CardInv
      <4> QED
        BY <3>1, <4>2, <4>3
    <3> QED
      BY <2>1, <2>4, <3>2, ExchangeStep DEF GarbledAnswer
  <2>5. CASE LostSak
    <3>1. uid' \in [Level -> Frames]
      BY <2>5, <1>c DEF LostSak, CardInv, TypeOK
    <3> QED
      BY <2>1, <2>5, <3>1, <1>s, <1>a
      DEF LostSak, CardInv, TypeOK, Selecting, ReadOff
  <2> QED
    BY <1>5, <2>2, <2>3, <2>4, <2>5 DEF Fault
<1>6. ASSUME NEW c \in Cards, Enter(c) PROVE CardInv'
    BY <1>6 DEF Enter, reader, CardInv, TypeOK, Selecting, ReadOff
<1>7. ASSUME NEW c \in Cards, Leave(c) PROVE CardInv'
  <2>1. /\ UNCHANGED <<reader, acked, faults>> /\ field' \subseteq Cards
        /\ picc' \in [Cards -> Idle .. Active]
        /\ \A d \in Cards : picc'[d] # Idle => picc'[d] = picc[d] /\ picc[d] # Idle
    BY <1>7, CardAssumption DEF Leave, CardInv, TypeOK, Idle, Active
  <2> QED
    BY <2>1 DEF reader, CardInv, TypeOK, Selecting, ReadOff
<1>8. CASE UNCHANGED vars
    BY <1>8 DEF vars, CardInv, TypeOK, Selecting, ReadOff
<1> QED
    BY <1>1, <1>2, <1>3, <1>4, <1>5, <1>6, <1>7, <1>8 DEF Next, Reader, People

LEMMA CardAlways == Spec => []CardInv
    BY CardInit, CardStep, PTL DEF Spec

(* Every variable keeps its type: no bit is counted that a level does not  *)
(* have, no level that a UID does not have.                                *)
THEOREM ReaderTypeCorrect == Spec => []TypeOK
<1>1. CardInv => TypeOK
    BY DEF CardInv
<1> QED
    BY <1>1, CardAlways, PTL

(* The UID that was read is that of a card that acknowledged it.           *)
THEOREM UidIsNotMixed == Spec => []ReadIsTrue
<1>1. CardInv => ReadIsTrue
    BY DEF CardInv, ReadOff, ReadIsTrue
<1> QED
    BY <1>1, CardAlways, PTL

(* No other card is left in the middle of a selection.                     *)
THEOREM OnlyOneChosen == Spec => []OneChosen
<1>1. CardInv => OneChosen
    BY DEF CardInv, TypeOK, ReadOff, OneChosen
<1> QED
    BY <1>1, CardAlways, PTL

(* The anticollision loop of a level ends.                                 *)
THEOREM AnticollisionEnds == Spec => []LoopEnds
<1>1. CardInv => LoopEnds
    BY CardAssumption DEF CardInv, TypeOK, LoopEnds
<1> QED
    BY <1>1, CardAlways, PTL

(* The door is opened for the key and for nothing else.                    *)
THEOREM DoorIsForTheKey == Spec => VerdictRight
<1>1. CardInv /\ [Next]_vars =>
          [pc = "read" /\ pc' = "loop"
              => (verdict' = "Permitted" <=> Key \in acked)]_vars
  <2> SUFFICES ASSUME CardInv, [Next]_vars, pc = "read", pc' = "loop"
               PROVE  verdict' = "Permitted" <=> Key \in acked
    OBVIOUS
  <2>1. RfidDOOR
    BY DEF Next, Reader, People, Fault, Request, Anticollision, Select, Enter,
           Leave, reader, vars, LostRequest, LostAnticollision, GarbledAnswer,
           LostSelect, LostSak
  <2>2. PICK c \in acked : IsUidOf(c, uid, size)
    BY DEF CardInv, ReadOff
  <2>3. Key \in acked => IsUidOf(Key, uid, size)
    BY DEF CardInv, ReadOff
  <2>4. IsUidOf(Key, uid, size) => Key = c
    <3> SUFFICES ASSUME IsUidOf(Key, uid, size) PROVE Key = c
      OBVIOUS
    <3>1. IsUidOf(Key, Uid[c], Depth[c])
      BY <2>2 DEF IsUidOf
    <3> QED
      BY <3>1, <2>2, CardAssumption DEF CardInv, TypeOK
  <2> QED
    BY <2>1, <2>2, <2>3, <2>4 DEF RfidDOOR
<1> QED
    BY <1>1, CardAlways, PTL DEF Spec, VerdictRight
=============================================================================
