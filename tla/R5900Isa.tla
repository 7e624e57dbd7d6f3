------------------------------- MODULE R5900Isa -------------------------------
(***************************************************************************)
(* The combinational half of the R5900 core: the closed decoder             *)
(* (r5900_decode.sv) and the execute block (r5900_execute.sv).              *)
(*                                                                         *)
(* Instruction words have their real 32-bit layout, as four little-endian    *)
(* bytes.  Operand widths are a parameter: a word is WORD_BITS wide, the      *)
(* scalar lane of a register is twice that and an immediate half of it.  At   *)
(* WORD_BITS = 32 every formula is the code's; smaller widths keep the        *)
(* relations between the widths, on which sign extension, truncation, shift   *)
(* counts and the halves of a product depend.                                *)
(***************************************************************************)
EXTENDS Integers, FiniteSetsExt

CONSTANT WORD_BITS

ASSUME WordBitsAssumption == WORD_BITS \in {2, 4, 8, 16, 32}

------------------------------------------------------------------------------
(* Instruction fields. *)

Fields(w) ==
    [opcode |-> w[3] \div 4,
     rs     |-> (w[3] % 4) * 8 + w[2] \div 32,
     rt     |-> w[2] % 32,
     rd     |-> w[1] \div 8,
     sa     |-> (w[1] % 8) * 4 + w[0] \div 64,
     funct  |-> w[0] % 64,
     imm    |-> w[1] * 256 + w[0]]

IsZeroWord(w) == \A k \in 0 .. 3 : w[k] = 0

------------------------------------------------------------------------------
(* r5900_decode: a priority chain of encodings.  A row gives the operation,  *)
(* the primary opcode, the function code (-1: not examined) and the fields   *)
(* that must be zero.                                                       *)

Row(op, opcode, funct, zero) ==
    [op |-> op, opcode |-> opcode, funct |-> funct, zero |-> zero]
Special(op, funct, zero) == Row(op, 0, funct, zero)
Mmi(op, funct, zero) == Row(op, \h1C, funct, zero)
Primary(op, opcode, zero) == Row(op, opcode, -1, zero)

DecodeChain == <<
    Special("SLL",    \h00, {"rs"}), Special("SRL",    \h02, {"rs"}),
    Special("SRA",    \h03, {"rs"}), Special("SLLV",   \h04, {"sa"}),
    Special("SRLV",   \h06, {"sa"}), Special("SRAV",   \h07, {"sa"}),
    Special("DSLLV",  \h14, {"sa"}), Special("DSRLV",  \h16, {"sa"}),
    Special("DSRAV",  \h17, {"sa"}), Special("MULT",   \h18, {"sa"}),
    Special("MULTU",  \h19, {"sa"}), Special("DIV",    \h1A, {"rd", "sa"}),
    Special("DIVU",   \h1B, {"rd", "sa"}),
    Special("MFHI",   \h10, {"rs", "rt", "sa"}), Special("MFLO", \h12, {"rs", "rt", "sa"}),
    Special("MTHI",   \h11, {"rt", "rd", "sa"}), Special("MTLO", \h13, {"rt", "rd", "sa"}),
    Mmi("MULT1",      \h18, {"sa"}), Mmi("MULTU1", \h19, {"sa"}),
    Mmi("DIV1",       \h1A, {"rd", "sa"}), Mmi("DIVU1", \h1B, {"rd", "sa"}),
    Mmi("MFHI1",      \h10, {"rs", "rt", "sa"}),
    Special("ADDU",   \h21, {"sa"}), Special("DADDU",  \h2D, {"sa"}),
    Special("SUBU",   \h23, {"sa"}), Special("DSUBU",  \h2F, {"sa"}),
    Special("AND",    \h24, {"sa"}), Special("OR",     \h25, {"sa"}),
    Special("XOR",    \h26, {"sa"}), Special("NOR",    \h27, {"sa"}),
    Special("SLT",    \h2A, {"sa"}), Special("SLTU",   \h2B, {"sa"}),
    Special("DSLL",   \h38, {"rs"}), Special("DSRL",   \h3A, {"rs"}),
    Special("DSRA",   \h3B, {"rs"}), Special("DSLL32", \h3C, {"rs"}),
    Special("DSRL32", \h3E, {"rs"}), Special("DSRA32", \h3F, {"rs"}),
    Primary("LUI",   \h0F, {"rs"}),
    Primary("ORI",   \h0D, {}), Primary("ANDI",   \h0C, {}), Primary("XORI", \h0E, {}),
    Primary("ADDIU", \h09, {}), Primary("DADDIU", \h19, {}),
    Primary("SLTI",  \h0A, {}), Primary("SLTIU",  \h0B, {}) >>

\* Mutant: the reserved fields are not examined.
Matches_IgnoresReserved(row, f) ==
    f.opcode = row.opcode /\ row.funct \in {-1, f.funct}

Matches(row, f) ==
    /\ f.opcode = row.opcode
    /\ row.funct \in {-1, f.funct}
    /\ \A z \in row.zero : f[z] = 0

Operation == {"NONE", "NOP"} \cup {DecodeChain[k].op : k \in DOMAIN DecodeChain}

\* Mutant: the zero word has no row of its own.
Decode_NoNop(w) ==
    LET hits == {k \in DOMAIN DecodeChain : Matches(DecodeChain[k], Fields(w))}
    IN  IF hits = {} THEN "NONE" ELSE DecodeChain[Min(hits)].op

\* The operation of the first matching row, "NONE" for an illegal word.
Decode(w) ==
    LET hits == {k \in DOMAIN DecodeChain : Matches(DecodeChain[k], Fields(w))}
    IN  IF IsZeroWord(w) THEN "NOP"
        ELSE IF hits = {} THEN "NONE"
        ELSE DecodeChain[Min(hits)].op

------------------------------------------------------------------------------
(* Arithmetic of the execute block. *)

\* The powers of two.
Pow2[k \in Nat] == IF k = 0 THEN 1 ELSE 2 * Pow2[k - 1]

WORD == Pow2[WORD_BITS]
DOUBLE == Pow2[2 * WORD_BITS]
HALF == Pow2[WORD_BITS \div 2]

Scalar == 0 .. DOUBLE - 1

SignedWord(x) == LET w == x % WORD IN IF w >= WORD \div 2 THEN w - WORD ELSE w
SignedScalar(x) == LET d == x % DOUBLE IN IF d >= DOUBLE \div 2 THEN d - DOUBLE ELSE d
\* Mutant: a negative word is not wrapped into the scalar lane.
SignExtend_Unwrapped(x) == SignedWord(x)

SignExtend(x) == SignedWord(x) % DOUBLE
ZeroExtendedImm(f) == f.imm % HALF
SignedImm(f) ==
    LET h == f.imm % HALF IN IF h >= HALF \div 2 THEN h - HALF ELSE h
Flag(condition) == IF condition THEN 1 ELSE 0

Bit(x, k) == (x \div Pow2[k]) % 2

\* common[k]: the bits below bit k that both have.
BitAnd(x, y) ==
    LET common[k \in Nat] ==
            IF k = 0 THEN 0
            ELSE common[k - 1] + Bit(x, k - 1) * Bit(y, k - 1) * Pow2[k - 1]
    IN  common[2 * WORD_BITS]
BitOr(x, y) == x + y - BitAnd(x, y)
BitXor(x, y) == x + y - 2 * BitAnd(x, y)

Sa(f) == f.sa % WORD_BITS
HighSa(f) == WORD_BITS + (f.sa % WORD_BITS)

\* Division rounds toward zero, as SystemVerilog's does.
Abs(x) == IF x < 0 THEN -x ELSE x
Quotient(a, b) ==
    IF (a < 0) = (b < 0) THEN Abs(a) \div Abs(b) ELSE -(Abs(a) \div Abs(b))
Remainder(a, b) == a - Quotient(a, b) * b

\* The low scalar lane of the result, from the low lanes s of rs and t of rt.
ScalarResult(op, f, s, t, hilo) ==
    CASE op = "SLL"    -> SignExtend((t % WORD) * Pow2[Sa(f)])
      [] op = "SRL"    -> SignExtend((t % WORD) \div Pow2[Sa(f)])
      [] op = "SRA"    -> SignExtend(SignedWord(t) \div Pow2[Sa(f)])
      [] op = "SLLV"   -> SignExtend((t % WORD) * Pow2[s % WORD_BITS])
      [] op = "SRLV"   -> SignExtend((t % WORD) \div Pow2[s % WORD_BITS])
      [] op = "SRAV"   -> SignExtend(SignedWord(t) \div Pow2[s % WORD_BITS])
      [] op = "DSLLV"  -> (t * Pow2[s % (2 * WORD_BITS)]) % DOUBLE
      [] op = "DSRLV"  -> t \div Pow2[s % (2 * WORD_BITS)]
      [] op = "DSRAV"  -> (SignedScalar(t) \div Pow2[s % (2 * WORD_BITS)]) % DOUBLE
      [] op = "DSLL"   -> (t * Pow2[Sa(f)]) % DOUBLE
      [] op = "DSRL"   -> t \div Pow2[Sa(f)]
      [] op = "DSRA"   -> (SignedScalar(t) \div Pow2[Sa(f)]) % DOUBLE
      [] op = "DSLL32" -> (t * Pow2[HighSa(f)]) % DOUBLE
      [] op = "DSRL32" -> t \div Pow2[HighSa(f)]
      [] op = "DSRA32" -> (SignedScalar(t) \div Pow2[HighSa(f)]) % DOUBLE
      [] op = "LUI"    -> SignExtend(ZeroExtendedImm(f) * HALF)
      [] op = "ORI"    -> BitOr(s, ZeroExtendedImm(f))
      [] op = "ANDI"   -> BitAnd(s, ZeroExtendedImm(f))
      [] op = "XORI"   -> BitXor(s, ZeroExtendedImm(f))
      [] op = "ADDIU"  -> SignExtend((s % WORD) + SignedImm(f))
      [] op = "DADDIU" -> (s + SignedImm(f)) % DOUBLE
      [] op = "ADDU"   -> SignExtend((s % WORD) + (t % WORD))
      [] op = "DADDU"  -> (s + t) % DOUBLE
      [] op = "SUBU"   -> SignExtend((s % WORD) - (t % WORD))
      [] op = "DSUBU"  -> (s - t) % DOUBLE
      [] op = "AND"    -> BitAnd(s, t)
      [] op = "OR"     -> BitOr(s, t)
      [] op = "XOR"    -> BitXor(s, t)
      [] op = "NOR"    -> DOUBLE - 1 - BitOr(s, t)
      [] op = "SLT"    -> Flag(SignedScalar(s) < SignedScalar(t))
      [] op = "SLTU"   -> Flag(s < t)
      [] op = "SLTI"   -> Flag(SignedScalar(s) < SignedImm(f))
      [] op = "SLTIU"  -> Flag(s < SignedImm(f) % DOUBLE)
      [] op \in {"MULT", "MULT1"}   -> SignExtend(SignedWord(s) * SignedWord(t))
      [] op \in {"MULTU", "MULTU1"} -> SignExtend((s % WORD) * (t % WORD))
      [] op = "MFHI"   -> hilo["hi"]
      [] op = "MFLO"   -> hilo["lo"]
      [] op = "MFHI1"  -> hilo["hi1"]
      [] OTHER         -> 0

------------------------------------------------------------------------------
(* HI/LO results. *)

HiLo == {"hi", "lo", "hi1", "lo1"}

Multiply == {"MULT", "MULTU", "MULT1", "MULTU1"}
Divide == {"DIV", "DIVU", "DIV1", "DIVU1"}
SignedOps == {"MULT", "MULT1", "DIV", "DIV1"}
Secondary == {"MULT1", "MULTU1", "DIV1", "DIVU1"}

\* The word operands of a multiply or divide, interpreted by signedness.
Operand(op, x) == IF op \in SignedOps THEN SignedWord(x) ELSE x % WORD

Product(op, s, t) ==
    LET p == Operand(op, s) * Operand(op, t)
    IN  [high |-> SignExtend((p % DOUBLE) \div WORD), low |-> SignExtend(p)]

\* Mutant: the quotient of a zero divisor is all ones whatever the dividend's sign.
Division_ZeroDivisorUnsigned(op, s, t) ==
    LET a == Operand(op, s)
        b == Operand(op, t)
    IN  CASE op \in SignedOps /\ a = -(WORD \div 2) /\ b = -1 ->
               [high |-> 0, low |-> SignExtend(a)]
          [] b = 0 -> [high |-> SignExtend(a), low |-> DOUBLE - 1]
          [] OTHER ->
               [high |-> SignExtend(Remainder(a, b)), low |-> SignExtend(Quotient(a, b))]

\* A zero divisor gives the dividend as remainder and all ones as quotient, or 1
\* for a negative signed dividend; the most negative dividend over -1 gives
\* itself and no remainder.
Division(op, s, t) ==
    LET a == Operand(op, s)
        b == Operand(op, t)
    IN  CASE op \in SignedOps /\ a = -(WORD \div 2) /\ b = -1 ->
               [high |-> 0, low |-> SignExtend(a)]
          [] b = 0 ->
               [high |-> SignExtend(a), low |-> IF a < 0 THEN 1 ELSE DOUBLE - 1]
          [] OTHER ->
               [high |-> SignExtend(Remainder(a, b)), low |-> SignExtend(Quotient(a, b))]

\* The HI/LO registers an operation writes, with their values.
HiLoWrites(op, s, t) ==
    LET pair(r) == IF op \in Secondary
                   THEN [n \in {"hi1", "lo1"} |-> IF n = "hi1" THEN r.high ELSE r.low]
                   ELSE [n \in {"hi", "lo"} |-> IF n = "hi" THEN r.high ELSE r.low]
    IN  CASE op \in Multiply -> pair(Product(op, s, t))
          [] op \in Divide   -> pair(Division(op, s, t))
          [] op = "MTHI"     -> [n \in {"hi"} |-> s]
          [] op = "MTLO"     -> [n \in {"lo"} |-> s]
          [] OTHER           -> [n \in {} |-> 0]

------------------------------------------------------------------------------
(* r5900_execute.  Every case checks the encoding again before it completes: *)
(* an operation that reaches it with a word of another encoding never does.  *)

ShiftFunct == [SLL |-> \h00, SRL |-> \h02, SRA |-> \h03,
               DSLL |-> \h38, DSRL |-> \h3A, DSRA |-> \h3B,
               DSLL32 |-> \h3C, DSRL32 |-> \h3E, DSRA32 |-> \h3F]
RegisterFunct == [SLLV |-> \h04, SRLV |-> \h06, SRAV |-> \h07,
                  DSLLV |-> \h14, DSRLV |-> \h16, DSRAV |-> \h17,
                  MULT |-> \h18, MULTU |-> \h19,
                  ADDU |-> \h21, DADDU |-> \h2D, SUBU |-> \h23, DSUBU |-> \h2F,
                  AND |-> \h24, OR |-> \h25, XOR |-> \h26, NOR |-> \h27,
                  SLT |-> \h2A, SLTU |-> \h2B]
ImmediateOpcode == [LUI |-> \h0F, ORI |-> \h0D, ANDI |-> \h0C, XORI |-> \h0E,
                    ADDIU |-> \h09, DADDIU |-> \h19, SLTI |-> \h0A, SLTIU |-> \h0B]

\* ops that read HI, LO or HI1 into rd.
MoveFrom == {"MFHI", "MFLO", "MFHI1"}

ExecuteAccepts(op, w) ==
    LET f == Fields(w)
        special(fn) == f.opcode = 0 /\ f.funct = fn
        mmi(fn) == f.opcode = \h1C /\ f.funct = fn
    IN  CASE op = "NOP" -> IsZeroWord(w)
          [] op \in DOMAIN ShiftFunct ->
               special(ShiftFunct[op]) /\ f.rs = 0 /\ (op = "SLL" => ~IsZeroWord(w))
          [] op \in DOMAIN RegisterFunct -> special(RegisterFunct[op]) /\ f.sa = 0
          [] op \in DOMAIN ImmediateOpcode ->
               f.opcode = ImmediateOpcode[op] /\ (op = "LUI" => f.rs = 0)
          [] op = "DIV"    -> special(\h1A) /\ f.rd = 0 /\ f.sa = 0
          [] op = "DIVU"   -> special(\h1B) /\ f.rd = 0 /\ f.sa = 0
          [] op = "MFHI"   -> special(\h10) /\ f.rs = 0 /\ f.rt = 0 /\ f.sa = 0
          [] op = "MFLO"   -> special(\h12) /\ f.rs = 0 /\ f.rt = 0 /\ f.sa = 0
          [] op = "MTHI"   -> special(\h11) /\ f.rt = 0 /\ f.rd = 0 /\ f.sa = 0
          [] op = "MTLO"   -> special(\h13) /\ f.rt = 0 /\ f.rd = 0 /\ f.sa = 0
          [] op = "MULT1"  -> mmi(\h18) /\ f.sa = 0
          [] op = "MULTU1" -> mmi(\h19) /\ f.sa = 0
          [] op = "DIV1"   -> mmi(\h1A) /\ f.rd = 0 /\ f.sa = 0
          [] op = "DIVU1"  -> mmi(\h1B) /\ f.rd = 0 /\ f.sa = 0
          [] op = "MFHI1"  -> mmi(\h10) /\ f.rs = 0 /\ f.rt = 0 /\ f.sa = 0
          [] OTHER         -> FALSE

\* Which register an operation commits to, and whether it commits at all: a
\* multiply with rd = 0 has no register result.
WritebackDestination(op, w) ==
    IF op \in DOMAIN ImmediateOpcode THEN Fields(w).rt ELSE Fields(w).rd

WritebackCommit(op, w) ==
    \/ op \in DOMAIN ShiftFunct \cup DOMAIN ImmediateOpcode \cup MoveFrom
                \cup (DOMAIN RegisterFunct \ Multiply)
    \/ op \in Multiply /\ Fields(w).rd # 0

\* The outputs of the execute block while it is valid.  Completion, PC advance and
\* retirement are asserted together in every case.
Execute(op, w, s, t, hilo) ==
    IF ExecuteAccepts(op, w)
    THEN [complete |-> TRUE,
          commit |-> WritebackCommit(op, w),
          destination |-> IF WritebackCommit(op, w) \/ op \in Multiply
                          THEN WritebackDestination(op, w) ELSE 0,
          scalar |-> ScalarResult(op, Fields(w), s, t, hilo),
          hilo |-> HiLoWrites(op, s, t)]
    ELSE [complete |-> FALSE, commit |-> FALSE, destination |-> 0, scalar |-> 0,
          hilo |-> [n \in {} |-> 0]]
==============================================================================
