------------------------------ MODULE CardReader ------------------------------
(***************************************************************************)
(* rfidDOOR() of the room controller and the RFID library under it: how a  *)
(* card is found, singled out among those that lie on the reader and told  *)
(* from the key of the door, while people take cards away and put others   *)
(* down between any two exchanges.                                         *)
(*                                                                         *)
(* The four bytes of a cascade level are one frame of B bits.  A UID is a  *)
(* frame for each of its levels; the cascade tag, which is no part of the  *)
(* UID, stays in the frame of its level.                                   *)
(***************************************************************************)
EXTENDS Integers, FiniteSets

CONSTANTS
    Cards,      \* the cards there are
    Key,        \* the card whose UID is "D2 57 D5 1A"
    B,          \* the bits of a cascade level (32)
    Levels,     \* the number of cascade levels (3)
    Depth,      \* [Cards -> 1 .. Levels]: the levels of the UID of a card
    Uid,        \* the frame of every card on each level
    MaxFaults   \* bound: the exchanges that go wrong

Bits   == 1 .. B
Level  == 1 .. Levels
Frames == [Bits -> {0, 1}]

\* The UID that the frames f of n levels stand for is the one of the card.
IsUidOf(card, f, n) ==
    n = Depth[card] /\ \A k \in 1 .. n : f[k] = Uid[card][k]

ASSUME CardAssumption ==
    /\ B \in Nat \ {0} /\ Levels \in Nat \ {0} /\ MaxFaults \in Nat
    /\ Key \in Cards
    /\ Depth \in [Cards -> Level]
    /\ Uid \in [Cards -> [Level -> Frames]]
    /\ \A c, d \in Cards : IsUidOf(c, Uid[d], Depth[d]) => c = d

VARIABLES
    pc,       \* "loop"; in PICC_Select(): "select"; it has returned: "read"
    level,    \* cascadeLevel
    known,    \* currentLevelKnownBits
    buffer,   \* buffer[2..5]: the bits of this level
    uid,      \* uid.uidByte, by level
    size,     \* uid.size, in levels
    verdict,  \* what rfidDOOR() has last done about a card
    \* The cards.
    field,    \* those on the reader
    picc,     \* the state of each: Idle, READY on a level, or Active
    \* Audit.
    acked,    \* those that have acknowledged the last SELECT
    tries,    \* the exchanges of this level
    faults

reader == <<pc, level, known, buffer, uid, size, verdict, tries>>
vars   == <<pc, level, known, buffer, uid, size, verdict, field, picc, acked,
            tries, faults>>

Idle   == 0
Active == Levels + 1

TypeOK ==
    /\ pc \in {"loop", "select", "read"}
    /\ level \in Level
    /\ known \in 0 .. B
    /\ buffer \in Frames
    /\ uid \in [Level -> Frames]
    /\ size \in 0 .. Levels
    /\ verdict \in {"none", "Permitted", "Denied"}
    /\ field \subseteq Cards
    /\ picc \in [Cards -> Idle .. Active]
    /\ acked \subseteq Cards
    /\ tries \in Nat
    /\ faults \in 0 .. MaxFaults

Zeros == [i \in Bits |-> 0]

Init ==
    /\ pc = "loop"
    /\ level = 1
    /\ known = 0
    /\ buffer = Zeros
    /\ uid = [k \in Level |-> Zeros]
    /\ size = 0
    /\ verdict = "none"
    /\ field \in SUBSET Cards
    /\ picc = [c \in Cards |-> Idle]
    /\ acked = {}
    /\ tries = 0
    /\ faults = 0
-----------------------------------------------------------------------------
(* The cards, which follow ISO/IEC 14443-3.  One that is away loses its    *)
(* power and with it its state.                                            *)

Enter(c) ==
    /\ c \notin field
    /\ field' = field \cup {c}
    /\ UNCHANGED <<reader, picc, acked, faults>>

Leave(c) ==
    /\ c \in field
    /\ field' = field \ {c}
    /\ picc' = [picc EXCEPT ![c] = Idle]
    /\ UNCHANGED <<reader, acked, faults>>

\* REQA: cards that are IDLE become READY, all others fall back to IDLE.
Invited == {c \in field : picc[c] = Idle}

HearReqa ==
    picc' = [c \in Cards |-> IF c \in Invited THEN 1 ELSE Idle]

Agree(f, g, n) == \A i \in 1 .. n : f[i] = g[i]

\* ANTICOLLISION: the cards that are READY on the level and have the bits
\* the reader knows send all the others.
Listeners ==
    {c \in field : picc[c] = level /\ Agree(Uid[c][level], buffer, known)}

Answers == {Uid[c][level] : c \in Listeners}

\* SELECT: the card with this frame goes on, the other ones fall back.
Acknowledging == {c \in field : picc[c] = level /\ Uid[c][level] = buffer}

HearSelect ==
    picc' = [c \in Cards |->
                IF c \notin Acknowledging THEN Idle
                ELSE IF Depth[c] > level THEN level + 1 ELSE Active]
-----------------------------------------------------------------------------
\* mutant: nobody asks whether a UID was read
ReadAnyway ==
    /\ pc' = "read"
    /\ UNCHANGED <<level, known, buffer, uid, size, verdict, tries>>

Failed ==
    /\ pc' = "loop"
    /\ UNCHANGED <<level, known, buffer, uid, size, verdict, tries>>

\* A level begins with none of its bits known: PICC_Select() is given none.
BeginLevel(k) ==
    /\ pc' = "select"
    /\ level' = k
    /\ known' = 0
    /\ tries' = 0
    /\ UNCHANGED buffer

\* PICC_IsNewCardPresent(): a collision of the answers is as good as one.
Request ==
    /\ pc = "loop"
    /\ HearReqa
    /\ IF Invited = {} THEN Failed
                       ELSE BeginLevel(1) /\ UNCHANGED <<uid, size, verdict>>
    /\ UNCHANGED <<field, acked, faults>>

\* mutants: the bit that was just decided is asked for again; the next one
\* is taken for decided
JustBefore(p) == p - 1
JustAfter(p)  == p + 1
Decided(p)    == p

\* The first bit in which the frames of S differ.
Collides(S, p) ==
    /\ \E f, g \in S : f[p] # g[p]
    /\ \A f, g \in S : Agree(f, g, p - 1)

\* The reader goes on with the cards that have the bit set.  The chip has
\* cleared the bits after it.
Choose(f, p) ==
    /\ known' = Decided(p)
    /\ buffer' = [i \in Bits |-> IF i < p THEN f[i] ELSE IF i = p THEN 1 ELSE 0]

Anticollision ==
    /\ pc = "select"
    /\ known < B
    /\ \/ Answers = {} /\ Failed
       \/ /\ \/ \E f \in Answers : Answers = {f} /\ buffer' = f /\ known' = B
             \/ \E p \in Bits : \E f \in Answers :
                   Collides(Answers, p) /\ Choose(f, p)
          /\ tries' = tries + 1
          /\ UNCHANGED <<pc, level, uid, size, verdict>>
    /\ UNCHANGED <<field, picc, acked, faults>>

\* mutant: every level is copied to the place of the first one
FirstPlace(k) == 1
UidIndex(k)   == k

Copy == uid' = [uid EXCEPT ![UidIndex(level)] = buffer]

\* mutant: the cascade bit of the SAK is not looked at
NoCascade(c) == FALSE
Cascade(c)   == Depth[c] > level

Complete ==
    /\ pc' = "read"
    /\ size' = level
    /\ UNCHANGED <<level, known, buffer, tries>>

\* The SAK of all cards that acknowledge must be the same: its collision
\* leaves "no progress".
Select ==
    /\ pc = "select"
    /\ known = B
    /\ HearSelect
    /\ acked' = Acknowledging
    /\ UNCHANGED <<field, faults>>
    /\ \/ Acknowledging = {} /\ Failed
       \/ (\E c, d \in Acknowledging : Cascade(c) # Cascade(d)) /\ Failed
       \/ /\ Acknowledging # {}
          /\ Copy
          /\ UNCHANGED verdict
          /\ \/ /\ \A c \in Acknowledging : Cascade(c)
                /\ level < Levels
                /\ BeginLevel(level + 1)
                /\ UNCHANGED size
             \/ (\A c \in Acknowledging : ~Cascade(c)) /\ Complete

\* The UID is compared, and the door opened or not.
RfidDOOR ==
    /\ pc = "read"
    /\ pc' = "loop"
    /\ verdict' = IF IsUidOf(Key, uid, size) THEN "Permitted" ELSE "Denied"
    /\ UNCHANGED <<level, known, buffer, uid, size, field, picc, acked, tries,
                   faults>>
-----------------------------------------------------------------------------
(* Exchanges that go wrong.  The code distinguishes many ways; what it does *)
(* is to give up, unless it does not notice.                               *)

\* The frame of the reader or the answer is lost or seen to be damaged.
LostRequest ==
    /\ pc = "loop"
    /\ HearReqa \/ UNCHANGED picc
    /\ Failed
    /\ UNCHANGED acked

LostAnticollision ==
    /\ pc = "select"
    /\ known < B
    /\ Failed
    /\ UNCHANGED <<picc, acked>>

\* The answer carries no checksum that would be looked at: wrong bits, or
\* too few of them, or a collision that was none, are taken for the answer.
GarbledAnswer ==
    /\ pc = "select"
    /\ known < B
    /\ \E f \in Frames :
          /\ Agree(f, buffer, known)
          /\ \/ buffer' = f /\ known' = B
             \/ \E p \in known + 1 .. B : Choose(f, p)
    /\ tries' = tries + 1
    /\ UNCHANGED <<pc, level, uid, size, verdict, picc, acked>>

\* Nothing is sent (PCD_CalculateCRC() fails), or nothing arrives.
LostSelect ==
    /\ pc = "select"
    /\ known = B
    /\ Failed
    /\ UNCHANGED <<picc, acked>>

\* The card is selected and its SAK lost, or rejected for its length or its
\* checksum when the bytes have already been copied.
LostSak ==
    /\ pc = "select"
    /\ known = B
    /\ HearSelect
    /\ acked' = Acknowledging
    /\ pc' = "loop"
    /\ UNCHANGED uid \/ Copy
    /\ UNCHANGED <<level, known, buffer, size, verdict, tries>>

Fault ==
    /\ faults < MaxFaults
    /\ faults' = faults + 1
    /\ UNCHANGED field
    /\ \/ LostRequest \/ LostAnticollision \/ GarbledAnswer
       \/ LostSelect \/ LostSak
-----------------------------------------------------------------------------
Reader == Request \/ Anticollision \/ Select \/ RfidDOOR
People == \E c \in Cards : Enter(c) \/ Leave(c)

Next == Reader \/ Fault \/ People

Spec     == Init /\ [][Next]_vars
FairSpec == Spec /\ WF_vars(Reader)
-----------------------------------------------------------------------------
(* A UID that PICC_ReadCardSerial() has returned is, as a whole, the one   *)
(* of a card that has just acknowledged its selection: never made up of    *)
(* the levels of two cards, of bits that were garbled on the way or of     *)
(* bytes that an earlier card left in uid.                                 *)
ReadIsTrue == pc = "read" => \E c \in acked : IsUidOf(c, uid, size)

(* The chosen card is active and all other ones have returned to IDLE, as  *)
(* the comment of PICC_Select() promises.                                  *)
OneChosen ==
    pc = "read" =>
        \A c \in field :
            picc[c] # Idle => picc[c] = Active /\ IsUidOf(c, uid, size)

(* The door is opened if and only if the card that was selected is the     *)
(* key.                                                                    *)
VerdictRight ==
    [][pc = "read" /\ pc' = "loop"
          => (verdict' = "Permitted" <=> Key \in acked)]_vars

(* A level is done after at most B exchanges that find a collision or the  *)
(* whole frame, whatever comes and goes in the field.                      *)
LoopEnds == tries <= B

(* One or two cards that stay on the reader are read again and again: the  *)
(* one that was read is sent to IDLE by the next REQA, to which only the   *)
(* other one answers.                                                      *)
BothAreRead ==
    \A F \in SUBSET Cards : \A c \in F :
        Cardinality(F) <= 2 =>
            (<>[](field = F) => []<>(pc = "read" /\ IsUidOf(c, uid, size)))
=============================================================================
