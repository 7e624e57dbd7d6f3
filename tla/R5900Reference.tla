---------------------------- MODULE R5900Reference ----------------------------
(***************************************************************************)
(* The Python reference model of the core (reference/ee/r5900.py): step      *)
(* executes one instruction on an immutable architectural state.             *)
(*                                                                         *)
(* The model computes with unbounded integers and reduces them to a width    *)
(* only when they are written back, where the RTL works in fixed widths; it   *)
(* also dispatches in its own order, with its own reserved-field masks.       *)
(* Widths are scaled as in R5900Isa, whose instruction fields and bitwise     *)
(* operators are used here and nothing else.                                 *)
(*                                                                         *)
(* A state is a record [gprs, pc, hi, lo, hi1, lo1]; a register is split in   *)
(* its scalar lane lo and its upper lane up.                                *)
(***************************************************************************)
EXTENDS R5900Isa

CONSTANT PC_MODULUS   \* PC_MASK + 1

AsSignedWord(value) ==
    LET word == value % WORD IN IF word >= WORD \div 2 THEN word - WORD ELSE word
AsSignedScalar(value) ==
    LET scalar == value % DOUBLE
    IN  IF scalar >= DOUBLE \div 2 THEN scalar - DOUBLE ELSE scalar

MergeScalar(old, scalar) == [old EXCEPT !.lo = scalar % DOUBLE]
MergeScalarWord(old, value) ==
    LET word == value % WORD
    IN  MergeScalar(old, IF word >= WORD \div 2 THEN word + (DOUBLE - WORD) ELSE word)

\* Register zero ignores writes.
WriteGpr(st, index, value) == IF index = 0 THEN st ELSE [st EXCEPT !.gprs[index] = value]
WriteScalar(st, index, scalar) == WriteGpr(st, index, MergeScalar(st.gprs[index], scalar))
WriteWord(st, index, word) == WriteGpr(st, index, MergeScalarWord(st.gprs[index], word))

------------------------------------------------------------------------------
(* Shifts.  Python's right shift of a negative integer rounds down. *)

StepImmediateShift(st, f) ==
    LET word == st.gprs[f.rt].lo % WORD
        amount == f.sa % WORD_BITS
    IN  WriteWord(st, f.rd,
            CASE f.funct = 0 -> word * Pow2[amount]
              [] f.funct = 2 -> word \div Pow2[amount]
              [] OTHER       -> AsSignedWord(word) \div Pow2[amount])

StepImmediateDoublewordShift(st, f) ==
    LET scalar == st.gprs[f.rt].lo
        amount == (f.sa % WORD_BITS) + (IF f.funct \in {60, 62, 63} THEN WORD_BITS ELSE 0)
    IN  WriteScalar(st, f.rd,
            CASE f.funct \in {56, 60} -> scalar * Pow2[amount]
              [] f.funct \in {58, 62} -> scalar \div Pow2[amount]
              [] OTHER                -> AsSignedScalar(scalar) \div Pow2[amount])

StepVariableShift(st, f) ==
    LET count == st.gprs[f.rs].lo
        scalar == st.gprs[f.rt].lo
        word == scalar % WORD
    IN  IF f.funct \in {20, 22, 23}
        THEN LET amount == count % (2 * WORD_BITS)
             IN  WriteScalar(st, f.rd,
                    CASE f.funct = 20 -> scalar * Pow2[amount]
                      [] f.funct = 22 -> scalar \div Pow2[amount]
                      [] OTHER        -> AsSignedScalar(scalar) \div Pow2[amount])
        ELSE LET amount == count % WORD_BITS
             IN  WriteWord(st, f.rd,
                    CASE f.funct = 4 -> word * Pow2[amount]
                      [] f.funct = 6 -> word \div Pow2[amount]
                      [] OTHER       -> AsSignedWord(word) \div Pow2[amount])

------------------------------------------------------------------------------
(* Immediates. *)

UnsignedImmediate(f) == f.imm % HALF
SignedImmediate(f) ==
    LET immediate == f.imm % HALF
    IN  IF immediate >= HALF \div 2 THEN immediate - HALF ELSE immediate

StepLogicalImmediate(st, f) ==
    LET source == st.gprs[f.rs].lo
    IN  WriteScalar(st, f.rt,
            CASE f.opcode = 13 -> BitOr(source, UnsignedImmediate(f))
              [] f.opcode = 12 -> BitAnd(source, UnsignedImmediate(f))
              [] f.opcode = 14 -> BitXor(source, UnsignedImmediate(f)))

StepLui(st, f) == WriteWord(st, f.rt, UnsignedImmediate(f) * HALF)

StepSignedImmediateGroup(st, f) ==
    LET source == st.gprs[f.rs].lo
    IN  CASE f.opcode = 9  -> WriteWord(st, f.rt, (source % WORD) + SignedImmediate(f))
          [] f.opcode = 25 -> WriteScalar(st, f.rt, source + SignedImmediate(f))
          [] f.opcode = 10 ->
               WriteScalar(st, f.rt, Flag(AsSignedScalar(source) < SignedImmediate(f)))
          [] OTHER ->
               LET immediate == f.imm % HALF
                   extended == IF immediate >= HALF \div 2
                               THEN immediate + (DOUBLE - HALF) ELSE immediate
               IN  WriteScalar(st, f.rt, Flag(source < extended))

------------------------------------------------------------------------------
(* Register operations. *)

StepRegisterAlu(st, f) ==
    LET a == st.gprs[f.rs].lo
        b == st.gprs[f.rt].lo
    IN  CASE f.funct = 33 -> WriteWord(st, f.rd, (a % WORD) + (b % WORD))
          [] f.funct = 45 -> WriteScalar(st, f.rd, a + b)
          [] f.funct = 35 -> WriteWord(st, f.rd, (a % WORD) - (b % WORD))
          [] f.funct = 47 -> WriteScalar(st, f.rd, a - b)
          [] f.funct = 36 -> WriteScalar(st, f.rd, BitAnd(a, b))
          [] f.funct = 37 -> WriteScalar(st, f.rd, BitOr(a, b))
          [] f.funct = 38 -> WriteScalar(st, f.rd, BitXor(a, b))
          [] f.funct = 39 -> WriteScalar(st, f.rd, -BitOr(a, b) - 1)
          [] f.funct = 42 ->
               WriteScalar(st, f.rd, Flag(AsSignedScalar(a) < AsSignedScalar(b)))
          [] OTHER -> WriteScalar(st, f.rd, Flag(a < b))

------------------------------------------------------------------------------
(* HI/LO.  A multiply writes its low word to rd as well, unless rd is zero. *)

WritePrimary(st, high, low) == [st EXCEPT !.hi = high % DOUBLE, !.lo = low % DOUBLE]
WriteSecondary(st, high, low) == [st EXCEPT !.hi1 = high % DOUBLE, !.lo1 = low % DOUBLE]

SignedProduct(st, f) == AsSignedWord(st.gprs[f.rs].lo) * AsSignedWord(st.gprs[f.rt].lo)
UnsignedProduct(st, f) == (st.gprs[f.rs].lo % WORD) * (st.gprs[f.rt].lo % WORD)

LowHalf(product) == AsSignedWord(product)
HighHalf(product) == AsSignedWord(product \div WORD)

StepMultiply(st, f, product) ==
    LET updated == IF f.opcode = 0
                   THEN WritePrimary(st, HighHalf(product), LowHalf(product))
                   ELSE WriteSecondary(st, HighHalf(product), LowHalf(product))
    IN  WriteScalar(updated, f.rd, LowHalf(product))

SignedDivision(dividend, divisor) ==
    LET size(x) == IF x < 0 THEN -x ELSE x
        magnitude == size(dividend) \div size(divisor)
        quotient == IF (dividend < 0) # (divisor < 0) THEN -magnitude ELSE magnitude
    IN  CASE dividend = -(WORD \div 2) /\ divisor = -1 -> <<dividend, 0>>
          [] divisor = 0 -> <<IF dividend < 0 THEN 1 ELSE -1, dividend>>
          [] OTHER -> <<quotient, dividend - quotient * divisor>>

UnsignedDivision(dividend, divisor) ==
    LET pair == IF divisor = 0 THEN <<WORD - 1, dividend>>
                ELSE <<dividend \div divisor, dividend % divisor>>
    IN  <<AsSignedWord(pair[1]), AsSignedWord(pair[2])>>

StepDivide(st, f) ==
    LET a == st.gprs[f.rs].lo
        b == st.gprs[f.rt].lo
        result == IF f.funct = 26
                  THEN SignedDivision(AsSignedWord(a), AsSignedWord(b))
                  ELSE UnsignedDivision(a % WORD, b % WORD)
    IN  IF f.opcode = 0 THEN WritePrimary(st, result[2], result[1])
        ELSE WriteSecondary(st, result[2], result[1])

StepHiLoTransfer(st, f) ==
    CASE f.funct = 16 -> WriteScalar(st, f.rd, st.hi)
      [] f.funct = 18 -> WriteScalar(st, f.rd, st.lo)
      [] f.funct = 17 -> [st EXCEPT !.hi = st.gprs[f.rs].lo]
      [] OTHER        -> [st EXCEPT !.lo = st.gprs[f.rs].lo]

------------------------------------------------------------------------------
(* Dispatch.  The step of a word is the set of its successors: an unsupported word *)
(* raises UnsupportedInstructionError and has none.                             *)

Product_(st, f) == IF f.funct = 24 THEN SignedProduct(st, f) ELSE UnsignedProduct(st, f)

StepSpecial(st, f) ==
    LET immediate == f.rs = 0
        variable == f.sa = 0
    IN  CASE f.rd = 0 /\ f.sa = 0 /\ f.funct \in {26, 27} -> {StepDivide(st, f)}
          [] f.rs = 0 /\ f.rt = 0 /\ f.sa = 0 /\ f.funct \in {16, 18} ->
               {StepHiLoTransfer(st, f)}
          [] f.rt = 0 /\ f.rd = 0 /\ f.sa = 0 /\ f.funct \in {17, 19} ->
               {StepHiLoTransfer(st, f)}
          [] variable /\ f.funct \in {24, 25} -> {StepMultiply(st, f, Product_(st, f))}
          [] variable /\ f.funct \in {33, 45, 35, 47, 36, 37, 38, 39, 42, 43} ->
               {StepRegisterAlu(st, f)}
          [] immediate /\ f.funct \in {56, 58, 59, 60, 62, 63} ->
               {StepImmediateDoublewordShift(st, f)}
          [] immediate /\ f.funct \in {0, 2, 3} -> {StepImmediateShift(st, f)}
          [] variable /\ f.funct \in {4, 6, 7, 20, 22, 23} -> {StepVariableShift(st, f)}
          [] OTHER -> {}

StepMmi(st, f) ==
    CASE f.sa = 0 /\ f.funct \in {24, 25} -> {StepMultiply(st, f, Product_(st, f))}
      [] f.rd = 0 /\ f.sa = 0 /\ f.funct \in {26, 27} -> {StepDivide(st, f)}
      [] f.rs = 0 /\ f.rt = 0 /\ f.sa = 0 /\ f.funct = 16 ->
           {WriteScalar(st, f.rd, st.hi1)}
      [] OTHER -> {}

\* What the instruction word w makes of st, the program counter aside.
Dispatch(st, w) ==
    LET f == Fields(w)
    IN  CASE IsZeroWord(w)                    -> {st}
          [] f.opcode \in {9, 25, 10, 11}     -> {StepSignedImmediateGroup(st, f)}
          [] f.opcode = 0 /\ ~IsZeroWord(w)   -> StepSpecial(st, f)
          [] f.opcode = 28                    -> StepMmi(st, f)
          [] f.opcode \in {12, 13, 14}        -> {StepLogicalImmediate(st, f)}
          [] f.opcode = 15 /\ f.rs = 0        -> {StepLui(st, f)}
          [] OTHER                            -> {}

\* The successor of st after w, when the model supports it.
ReferenceStep(st, w) ==
    {[after EXCEPT !.pc = (st.pc + 4) % PC_MODULUS] : after \in Dispatch(st, w)}
==============================================================================
