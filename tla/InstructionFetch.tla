--------------------------- MODULE InstructionFetch ---------------------------
(***************************************************************************)
(* What fetching an instruction means to its caller: each start delivers    *)
(* one word, the four bytes the memory held at one instant between the      *)
(* start and the delivery, at the address given with the start, and the     *)
(* word does not change until the caller takes it.                          *)
(***************************************************************************)
EXTENDS Integers

CONSTANTS Address, Value, NoWord, PowerUp, Pc

VARIABLES
    mem,     \* [Address -> Value]
    offered, \* the address the caller holds out
    stage,   \* "free", "requested", "sampled" or "delivered"
    target,  \* the address of the fetch in progress
    word     \* what was sampled

vars == <<mem, offered, stage, target, word>>

WordAt(pc) == [k \in 0 .. 3 |-> mem[pc + k]]

Store == mem' = mem \/ \E a \in Address, v \in Value : mem' = [mem EXCEPT ![a] = v]

Init ==
    /\ mem \in PowerUp
    /\ offered \in Pc
    /\ stage = "free"
    /\ target = 0
    /\ word = NoWord

\* A free caller, or one that takes the delivered word, may start a fetch of the
\* address it holds out at that instant.
Start ==
    /\ stage \in {"free", "delivered"}
    /\ stage' = "requested"
    /\ target' = offered
    /\ word' = NoWord
    /\ Store

\* Only a word that lies in the memory is ever sampled.
Sample ==
    /\ stage = "requested"
    /\ \A k \in 0 .. 3 : target + k \in Address
    /\ stage' = "sampled"
    /\ word' = WordAt(target)
    /\ UNCHANGED target
    /\ Store

Deliver ==
    /\ stage = "sampled"
    /\ stage' = "delivered"
    /\ UNCHANGED <<target, word>>
    /\ Store

Take ==
    /\ stage = "delivered"
    /\ stage' = "free"
    /\ word' = NoWord
    /\ UNCHANGED target
    /\ Store

Wait == UNCHANGED <<stage, target, word>> /\ Store

Reset ==
    /\ stage' = "free"
    /\ target' = 0
    /\ word' = NoWord
    /\ UNCHANGED mem

Next ==
    /\ Start \/ Sample \/ Deliver \/ Take \/ Wait \/ Reset
    /\ offered' \in Pc

Spec == Init /\ [][Next]_vars
==============================================================================
