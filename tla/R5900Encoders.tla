---------------------------- MODULE R5900Encoders ----------------------------
(***************************************************************************)
(* The instruction encoders of the Python reference model                     *)
(* (reference/ee/r5900.py), with which the tests build their words.   *)
(* Each encoder validates its arguments in order and places them in the fields  *)
(* of one word; fields it takes no argument for are clear.                    *)
(***************************************************************************)
EXTENDS R5900Isa, Sequences

CONSTANTS IndexError, ValueError

Errors == {IndexError, ValueError}

\* The FUNCTION and OPCODE constants.
SpecialFunction ==
    [SLL |-> 0, SRL |-> 2, SRA |-> 3, SLLV |-> 4, SRLV |-> 6, SRAV |-> 7,
     DSLLV |-> 20, DSRLV |-> 22, DSRAV |-> 23, DSLL |-> 56, DSRL |-> 58, DSRA |-> 59,
     DSLL32 |-> 60, DSRL32 |-> 62, DSRA32 |-> 63, ADDU |-> 33, DADDU |-> 45, SUBU |-> 35,
     DSUBU |-> 47, AND |-> 36, OR |-> 37, XOR |-> 38, NOR |-> 39, SLT |-> 42, SLTU |-> 43,
     MULT |-> 24, MULTU |-> 25, DIV |-> 26, DIVU |-> 27,
     MFHI |-> 16, MTHI |-> 17, MFLO |-> 18, MTLO |-> 19]
MmiFunction ==
    [MULT1 |-> 24, MULTU1 |-> 25, DIV1 |-> 26, DIVU1 |-> 27, MFHI1 |-> 16]
PrimaryOpcode ==
    [LUI |-> 15, ORI |-> 13, ANDI |-> 12, XORI |-> 14, ADDIU |-> 9, DADDIU |-> 25,
     SLTI |-> 10, SLTIU |-> 11]
MMI_OPCODE == 28

Encoders == DOMAIN SpecialFunction \cup DOMAIN MmiFunction \cup DOMAIN PrimaryOpcode

\* The parameters of each encoder, by the field they go to.
Parameters(op) ==
    CASE op \in {"SLL", "SRL", "SRA", "DSLL", "DSRL", "DSRA", "DSLL32", "DSRL32", "DSRA32"} ->
             <<"rd", "rt", "sa">>
      [] op \in {"SLLV", "SRLV", "SRAV", "DSLLV", "DSRLV", "DSRAV"} -> <<"rd", "rt", "rs">>
      [] op \in {"DIV", "DIVU", "DIV1", "DIVU1"} -> <<"rs", "rt">>
      [] op \in {"MFHI", "MFLO", "MFHI1"} -> <<"rd">>
      [] op \in {"MTHI", "MTLO"} -> <<"rs">>
      [] op = "LUI" -> <<"rt", "imm">>
      [] op \in DOMAIN PrimaryOpcode \ {"LUI"} -> <<"rt", "rs", "imm">>
      [] OTHER -> <<"rd", "rs", "rt">>

\* _require_gpr_index, _require_shift_amount and the immediate's _require_unsigned.
Limit(field) == IF field = "imm" THEN 65535 ELSE 31
Refused(field) == IF field \in {"sa", "imm"} THEN ValueError ELSE IndexError

\* Mutant: the function code of an MMI instruction goes out under SPECIAL.
Word_NoMmiOpcode(op, value) ==
    [k \in 0 .. 3 |->
        CASE k = 0 -> (value["sa"] % 4) * 64 + (value["imm"] % 256)
                      + (IF op \in DOMAIN SpecialFunction THEN SpecialFunction[op]
                         ELSE IF op \in DOMAIN MmiFunction THEN MmiFunction[op] ELSE 0)
          [] k = 1 -> value["rd"] * 8 + (value["sa"] \div 4) + (value["imm"] \div 256)
          [] k = 2 -> (value["rs"] % 8) * 32 + value["rt"]
          [] k = 3 -> (value["rs"] \div 8)
                      + 4 * (IF op \in DOMAIN PrimaryOpcode THEN PrimaryOpcode[op] ELSE 0)]

\* The four little-endian bytes of the word with these field values.
Word(op, value) ==
    [k \in 0 .. 3 |->
        CASE k = 0 -> (value["sa"] % 4) * 64 + (value["imm"] % 256)
                      + (IF op \in DOMAIN SpecialFunction THEN SpecialFunction[op]
                         ELSE IF op \in DOMAIN MmiFunction THEN MmiFunction[op] ELSE 0)
          [] k = 1 -> value["rd"] * 8 + (value["sa"] \div 4) + (value["imm"] \div 256)
          [] k = 2 -> (value["rs"] % 8) * 32 + value["rt"]
          [] k = 3 -> (value["rs"] \div 8)
                      + 4 * (CASE op \in DOMAIN PrimaryOpcode -> PrimaryOpcode[op]
                               [] op \in DOMAIN MmiFunction -> MMI_OPCODE
                               [] OTHER -> 0)]

\* The encoder of op: the word, or the error of the first argument out of range.
Encode(op, args) ==
    LET fields == Parameters(op)
        bad == {k \in 1 .. Len(fields) : args[k] \notin 0 .. Limit(fields[k])}
        value == [name \in {"rs", "rt", "rd", "sa", "imm"} |->
                     IF \E k \in 1 .. Len(fields) : fields[k] = name
                     THEN args[CHOOSE k \in 1 .. Len(fields) : fields[k] = name]
                     ELSE 0]
    IN  IF bad # {} THEN Refused(fields[Min(bad)]) ELSE Word(op, value)

\* The arguments that a word's fields are.
Arguments(op, w) == [k \in 1 .. Len(Parameters(op)) |-> Fields(w)[Parameters(op)[k]]]
==============================================================================
