------------------------------ MODULE RtdbCall ------------------------------
(***************************************************************************)
(* What a sketch may expect of a call to the real-time database: one call  *)
(* at a time, answered with what the database held for it at one moment of *)
(* the call, or failed.  A put that failed may still be carried out, once, *)
(* at any later time.                                                      *)
(***************************************************************************)
CONSTANTS
    Path, Value,
    None    \* no call, no reply

Call == [op : {"get", "put"}, path : Path, value : Value]

VARIABLES
    db,      \* the database
    call,    \* the call being carried out, or None
    reply,   \* its answer, or None
    result,  \* [ok, value] of the last call that returned
    late     \* puts of failed calls that may still be carried out

Init ==
    /\ db \in [Path -> Value]
    /\ call = None
    /\ reply = None
    /\ result = [ok |-> FALSE, value |-> None]
    /\ late = {}

After(c) == IF c.op = "put" THEN [db EXCEPT ![c.path] = c.value] ELSE db

Begin(c) ==
    /\ call = None
    /\ call' = c
    /\ UNCHANGED <<db, reply, result, late>>

Serve ==
    /\ call # None
    /\ reply = None
    /\ db' = After(call)
    /\ reply' = db'[call.path]
    /\ UNCHANGED <<call, result, late>>

Return ==
    /\ reply # None
    /\ result' = [ok |-> TRUE, value |-> reply]
    /\ call' = None
    /\ reply' = None
    /\ UNCHANGED <<db, late>>

\* The call fails now, or is lost on the way and will fail.
Fail ==
    /\ call # None
    /\ result' = [ok |-> FALSE, value |-> None]
    /\ call' = None
    /\ reply' = None
    /\ late' \in {late, late \cup {call}}
    /\ UNCHANGED db

Lose ==
    /\ call # None
    /\ reply' = None
    /\ late' \in {late, late \cup {call}}
    /\ UNCHANGED <<db, call, result>>

CarryOutLate(c) ==
    /\ c \in late
    /\ late' = late \ {c}
    /\ db' = After(c)
    /\ UNCHANGED <<call, reply, result>>

OtherWrite(p, v) ==
    /\ db' = [db EXCEPT ![p] = v]
    /\ UNCHANGED <<call, reply, result, late>>

Next ==
    \/ \E c \in Call : Begin(c) \/ CarryOutLate(c)
    \/ Serve \/ Return \/ Fail \/ Lose
    \/ \E p \in Path, v \in Value : OtherWrite(p, v)

Spec == Init /\ [][Next]_<<db, call, reply, result, late>>
=============================================================================
