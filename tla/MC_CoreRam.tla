------------------------------ MODULE MC_CoreRam ------------------------------
(***************************************************************************)
(* Small instances of CoreRam.  Operand words are four bits wide and         *)
(* immediates two; the instruction words are real ones, assembled here.      *)
(***************************************************************************)
EXTENDS CoreRam, Sequences

\* The four bytes of an instruction word, low byte first.
Special_(rs, rt, rd, sa, funct) ==
    <<(sa % 4) * 64 + funct, rd * 8 + sa \div 4, (rs % 8) * 32 + rt, rs \div 8>>
Immediate_(opcode, rs, rt, imm) ==
    <<imm % 256, imm \div 256, (rs % 8) * 32 + rt, opcode * 4 + rs \div 8>>

Nop == <<0, 0, 0, 0>>
Addiu(rt, rs, imm) == Immediate_(9, rs, rt, imm)
Mult(rd, rs, rt) == Special_(rs, rt, rd, 0, 24)
Mflo(rd) == Special_(0, 0, rd, 0, 18)
Div(rs, rt) == Special_(rs, rt, 0, 0, 26)
Break == Special_(0, 0, 0, 0, 13)       \* not implemented: illegal

\* A program laid out from address 0, in a storage of SIZE_BYTES bytes.
Image(program) ==
    [a \in 0 .. SIZE_BYTES - 1 |->
        IF a \div 4 < Len(program) THEN program[(a \div 4) + 1][(a % 4) + 1] ELSE 0]

Bytes == 0 .. 255
Uppers == {"0", "u"}
Registers0 == [r \in GprIndex |-> IF r = 0 THEN [lo |-> 6, up |-> "u"]
                                  ELSE IF r = 1 THEN [lo |-> 5, up |-> "u"]
                                  ELSE [lo |-> 0, up |-> "0"]]
PowerUpRegisters == {Registers0}
PowerUpPairs == {[n \in HiLo |-> 3]}

\* The result of each instruction is an operand of the next, through registers,
\* through LO and through register zero, which must stay zero; then an illegal word.
StepPrograms ==
    {Image(<<Addiu(1, 0, 3), Mult(2, 1, 1), Mflo(0), Div(2, 0), Addiu(3, 0, 3)>>),
     Image(<<Mult(0, 1, 1), Mflo(1), Break, Nop, Nop>>)}
StepPcs == {0, 8}
Quiet == [write |-> FALSE, addr |-> 0, wdata |-> 0]
\* A store that turns Break into an empty word's function, and one into code that
\* is being fetched.
StepBackdoors == {Quiet, [write |-> TRUE, addr |-> 8, wdata |-> 0]}

\* The program counter wraps at the end of the storage: programs that never end.
LoopPrograms ==
    {Image(<<Addiu(1, 0, 3), Mult(2, 1, 1), Nop, Mflo(1)>>),
     Image(<<Nop, Addiu(1, 0, 1), Break, Nop>>)}
LoopPcs == {0}
LoopBackdoors == {Quiet}
==============================================================================
