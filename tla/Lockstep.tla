------------------------------- MODULE Lockstep -------------------------------
(***************************************************************************)
(* The instruction-level machine that the RTL implements (R5900Machine, see  *)
(* CoreRam) beside the Python reference model: both start from the same       *)
(* state and execute the same words.  The integration tests of the repository *)
(* compare the two on particular programs.                                  *)
(***************************************************************************)
EXTENDS R5900Reference, R5900Encoders

CONSTANTS Address, Value, NoWord, PowerUp, Start, PcSpan,
          Zero, PowerUpRegisters, PowerUpPairs   \* as in R5900Machine

VARIABLES mem, gpr, pc, hilo, ir   \* the state of the machine

\* Without resets it does not matter when a result settles: it does so at once.
INSTANCE R5900Machine WITH
    settled <- gpr,
    HiLoNames <- HiLo,
    FieldsOf <- Fields,
    OperationOf <- Decode,
    EffectOf <- Execute

ASSUME PcModulusAssumption == PC_MODULUS = PcSpan

\* A word of a program is four bytes.
ASSUME BytesAssumption ==
    /\ Value \subseteq 0 .. 255
    /\ \A contents \in PowerUp : contents \in [Address -> 0 .. 255]

\* The registers and pairs start as words of their widths.
ASSUME PowerUpAssumption ==
    /\ \A g \in PowerUpRegisters :
           /\ g = [r \in Registers |-> [lo |-> g[r].lo, up |-> g[r].up]]
           /\ \A r \in Registers : g[r].lo \in Scalar
    /\ \A h \in PowerUpPairs : h \in [HiLo -> Scalar]

VARIABLE model   \* the reference model's state

\* The machine's state in the reference model's form.
MachineState ==
    [gprs |-> [r \in 0 .. 31 |-> Read(r)], pc |-> pc,
     hi |-> hilo["hi"], lo |-> hilo["lo"], hi1 |-> hilo["hi1"], lo1 |-> hilo["lo1"]]

LockstepInit == Init /\ model = MachineState

FetchWord == Fetch /\ UNCHANGED model

Execution == Step /\ model' \in ReferenceStep(model, ir)

\* The core never leaves an illegal word.
Hang ==
    /\ ir # NoWord
    /\ Decode(ir) = "NONE"
    /\ UNCHANGED <<mem, gpr, pc, hilo, ir, model>>

LockstepNext == FetchWord \/ Execution \/ Hang

LockstepSpec == LockstepInit /\ [][LockstepNext]_<<vars, model>>

------------------------------------------------------------------------------
\* The reference model and the RTL agree on every register, on HI/LO, HI1/LO1 and
\* on the program counter after every instruction of every program
\* (reference/ee/r5900.py:1079-1104 against r5900_execute.sv:167-1022).
ModelsAgree == model = MachineState

\* They agree on which words are instructions: the model raises exactly on the words
\* on which the core reports a reserved instruction
\* (reference/ee/r5900.py:1059-1103 against r5900_decode.sv:16-320).
SupportAgrees ==
    ir # NoWord =>
        (ReferenceStep(model, ir) = {} <=> Decode(ir) = "NONE")

\* The encoders invert the decoder.  Every legal word is what the encoder of its
\* operation makes of the word's own fields, so the tests can build every instruction;
\* and whatever an encoder is given, argument for argument up to the width of a field
\* and past it, it raises, or makes a word that both decoders take for that operation
\* with those operands (reference/ee/r5900.py:104-463 against r5900_decode.sv:16-320).
EncodersInvertDecoder ==
    ir # NoWord =>
        LET encoder(w) == IF Decode(w) = "NOP" THEN "SLL" ELSE Decode(w)
        IN  /\ Decode(ir) # "NONE" => Encode(encoder(ir), Arguments(encoder(ir), ir)) = ir
            /\ \A op \in Encoders :
                   LET same == Arguments(op, ir)
                       top == [k \in DOMAIN same |-> Limit(Parameters(op)[k]) - same[k]]
                       past == [k \in DOMAIN same |->
                                   IF same[k] = 0 THEN Limit(Parameters(op)[k]) + 1 ELSE same[k]]
                   IN  \A args \in {same, top, past} :
                           LET w == Encode(op, args)
                           IN  w \notin Errors =>
                                   /\ encoder(w) = op
                                   /\ Arguments(op, w) = args
                                   /\ ReferenceStep(model, w) # {}
==============================================================================
