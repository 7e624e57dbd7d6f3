----------------------------- MODULE R5900Machine -----------------------------
(***************************************************************************)
(* The instruction-level machine the core promises to its programmer: an    *)
(* instruction is read from memory at one instant and then executed at one  *)
(* instant, on registers, HI/LO and program counter together.  What a legal  *)
(* word does to them is a parameter, the decoder and the execute block taken *)
(* as functions; a word that decodes to nothing is never executed.          *)
(*                                                                         *)
(* A reset restarts the program.  It keeps the memory; it does not promise    *)
(* that the instruction in progress took effect as a whole, nor that the last  *)
(* one keeps its register result before the next one is fetched.              *)
(***************************************************************************)
EXTENDS Integers

CONSTANTS Address, Value, NoWord, PowerUp, Start, PcSpan,
          Zero, PowerUpRegisters, PowerUpPairs,
          HiLoNames,              \* the HI/LO registers
          FieldsOf(_),            \* the fields of a word
          OperationOf(_),         \* the operation of a word, or "NONE"
          EffectOf(_, _, _, _, _) \* what it does, given its operands and HI/LO

VARIABLES
    mem,      \* [Address -> Value]
    gpr,      \* registers 1 to 31, each with a scalar lane lo and an upper lane up
    settled,  \* the registers that a reset restores: gpr, or gpr without its last result
    pc,       \* the address of the next instruction to execute
    hilo,     \* the HI/LO registers
    ir        \* the word fetched for it, or NoWord

vars == <<mem, gpr, settled, pc, hilo, ir>>

Registers == 1 .. 31

Read(index) == IF index = 0 THEN [lo |-> 0, up |-> Zero] ELSE gpr[index]

Store == mem' = mem \/ \E a \in Address, v \in Value : mem' = [mem EXCEPT ![a] = v]

Init ==
    /\ mem \in PowerUp
    /\ gpr \in PowerUpRegisters
    /\ settled = gpr
    /\ pc \in Start
    /\ hilo \in PowerUpPairs
    /\ ir = NoWord

Fetch ==
    /\ ir = NoWord
    /\ \A k \in 0 .. 3 : pc + k \in Address
    /\ ir' = [k \in 0 .. 3 |-> mem[pc + k]]
    /\ UNCHANGED <<gpr, pc, hilo>>
    /\ Store

\* The effect of the word that was fetched.
Effect ==
    LET f == FieldsOf(ir)
    IN  EffectOf(OperationOf(ir), ir, Read(f.rs).lo, Read(f.rt).lo, hilo)

HiLoAfter ==
    [n \in HiLoNames |-> IF n \in DOMAIN Effect.hilo THEN Effect.hilo[n] ELSE hilo[n]]

\* A result replaces the low lane of its destination and keeps the upper one.
GprAfter ==
    IF Effect.commit /\ Effect.destination # 0
    THEN [gpr EXCEPT ![Effect.destination].lo = Effect.scalar]
    ELSE gpr

Step ==
    /\ ir # NoWord
    /\ OperationOf(ir) # "NONE"
    /\ gpr' = GprAfter
    /\ hilo' = HiLoAfter
    /\ pc' = (pc + 4) % PcSpan
    /\ ir' = NoWord
    /\ Store

\* At a reset the instruction in progress may have written HI/LO, but not its
\* register, and a result that has not settled is lost.
Reset ==
    /\ pc' \in Start
    /\ ir' = NoWord
    /\ UNCHANGED <<mem, settled>>
    /\ gpr' = settled
    /\ \/ UNCHANGED hilo
       \/ ir # NoWord /\ hilo' = HiLoAfter

Idle == UNCHANGED <<gpr, pc, hilo, ir>> /\ Store

\* A result settles some time after its instruction executed and before the next one
\* is fetched.
Next ==
    \/ Fetch /\ settled = gpr /\ UNCHANGED settled
    \/ Step /\ settled' = gpr
    \/ Reset
    \/ Idle /\ settled' \in {settled, gpr}

Spec == Init /\ [][Next]_vars
==============================================================================
