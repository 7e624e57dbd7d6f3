----------------------------- MODULE AtomicMemory -----------------------------
(***************************************************************************)
(* What a memory port promises, whatever its latency and its registers: at  *)
(* most one transaction at a time; a write takes effect, and a read takes   *)
(* its data, at the instant the request is accepted; the answer then stays  *)
(* as it is until it is consumed; a reset drops the transaction and never   *)
(* the contents; and an accepted transaction is eventually answered.        *)
(***************************************************************************)
EXTENDS Integers

CONSTANTS
    Location,   \* the byte addresses that exist
    Value,      \* what a byte can hold
    Zero,       \* the byte that fills the unused lanes of an answer
    Transfer,   \* the transfers that may be accepted: [write, first, count, data, lanes]
    PowerUp     \* the contents the memory may start with

LaneIndex == 0 .. 15

VARIABLES
    mem,        \* [Location -> Value]
    phase,      \* "idle", "busy" or "answered"
    answer      \* the bytes of the answer, fixed when the transfer is accepted

vars == <<mem, phase, answer>>

NoAnswer == [k \in LaneIndex |-> Zero]

Loaded(loc, v) == [mem EXCEPT ![loc] = v]

\* A harness store that is invisible to the port may happen at any step that is
\* not a bus write.
HarnessStore == mem' = mem \/ \E loc \in Location, v \in Value : mem' = Loaded(loc, v)

Written(t) ==
    [loc \in Location |->
        IF \E k \in t.lanes : loc = t.first + k THEN t.data[loc - t.first] ELSE mem[loc]]

Read(t) == [k \in LaneIndex |-> IF k < t.count THEN mem[t.first + k] ELSE Zero]

Init ==
    /\ mem \in PowerUp
    /\ phase = "idle"
    /\ answer = NoAnswer

\* A free port, or one whose answer is being consumed, takes a transfer.
Accept(t) ==
    /\ phase \in {"idle", "answered"}
    /\ phase' \in {"busy", "answered"}
    /\ IF t.write
       THEN mem' = Written(t) /\ answer' = NoAnswer
       ELSE HarnessStore /\ answer' = Read(t)

Answer ==
    /\ phase = "busy"
    /\ phase' = "answered"
    /\ UNCHANGED answer
    /\ HarnessStore

Consume ==
    /\ phase = "answered"
    /\ phase' = "idle"
    /\ UNCHANGED answer
    /\ HarnessStore

Hold ==
    /\ UNCHANGED <<phase, answer>>
    /\ HarnessStore

Reset ==
    /\ phase' = "idle"
    /\ answer' = NoAnswer
    /\ UNCHANGED mem

Next ==
    \/ \E t \in Transfer : Accept(t)
    \/ Answer
    \/ Consume
    \/ Hold
    \/ Reset

Spec == Init /\ [][Next]_vars

\* An accepted transfer does not stay unanswered.
AnswersEventually == (phase = "busy") ~> (phase # "busy")
==============================================================================
