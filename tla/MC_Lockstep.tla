----------------------------- MODULE MC_Lockstep -----------------------------
(***************************************************************************)
(* Instances of Lockstep.  A program is one word and the program counter     *)
(* wraps at its end, so every program runs for ever and its result becomes    *)
(* its operand.  The words are real 32-bit encodings; operands are four   *)
(* bits to a word, eight to a scalar.  The machine's decoder and execute     *)
(* block are the RTL's, R5900Isa.                                            *)
(***************************************************************************)
EXTENDS Lockstep

Bytes == 0 .. 255
NoBytes == {}

\* The four bytes of a word, from its fields.
RWord(opcode, rs, rt, rd, sa, funct) ==
    <<(sa % 4) * 64 + funct, rd * 8 + sa \div 4, (rs % 8) * 32 + rt,
      opcode * 4 + rs \div 8>>
IWord(opcode, rs, rt, imm) ==
    <<imm % 256, imm \div 256, (rs % 8) * 32 + rt, opcode * 4 + rs \div 8>>

Image(program) ==
    [a \in 0 .. 4 * Len(program) - 1 |-> program[(a \div 4) + 1][(a % 4) + 1]]

\* Every encoding of the decoder, with registers 1 and 2 as sources and register 2
\* as destination, so that a result meets its own operands; the shift amount and the
\* immediate take the values at their boundaries.
Rows == {DecodeChain[k] : k \in DOMAIN DecodeChain}
Field(row, name, value) == IF name \in row.zero THEN 0 ELSE value
RegisterWords ==
    {RWord(row.opcode, Field(row, "rs", 1), Field(row, "rt", 2), Field(row, "rd", d),
           Field(row, "sa", a), row.funct) :
        row \in {r \in Rows : r.funct # -1},
        d \in {0, 2}, a \in {0, 1, 3}}
ImmediateWords ==
    {IWord(row.opcode, Field(row, "rs", 2), 2, i) :
        row \in {r \in Rows : r.funct = -1},
        i \in {0, 1, 2, 3}}

SinglePrograms == {Image(<<w>>) : w \in RegisterWords \cup ImmediateWords}

\* A signed minimum, all ones, the carries into the upper half and into the sign.
Operands == {0, 1, 7, 8, 15, 16, 127, 128, 129, 248, 255}
OperandRegisters ==
    {[r \in 1 .. 31 |->
        IF r = 1 THEN [lo |-> a, up |-> "u"]
        ELSE IF r = 2 THEN [lo |-> b, up |-> "v"]
        ELSE [lo |-> 0, up |-> "z"]] : a \in Operands, b \in Operands}
Pairs == {[hi |-> 129, lo |-> 7, hi1 |-> 240, lo1 |-> 15]}

\* Every primary opcode and every function code, with each register field and the
\* shift amount zero or not: all that the decoders look at.
FieldWords(opcodes, functs) ==
    {RWord(opcode, rs, rt, rd, sa, funct) :
        opcode \in opcodes, rs \in {0, 1}, rt \in {0, 2}, rd \in {0, 1}, sa \in {0, 1},
        funct \in functs}
DecodePrograms ==
    {Image(<<w>>) : w \in FieldWords({0, 28}, 0 .. 63)
                            \cup FieldWords((0 .. 63) \ {0, 28}, {0, 24})}

DecodeRegisters ==
    {[r \in 1 .. 31 |->
        IF r = 1 THEN [lo |-> 8, up |-> "u"]
        ELSE [lo |-> r, up |-> "z"]]}
Addresses == 0 .. 3
Starts == {0}
==============================================================================
