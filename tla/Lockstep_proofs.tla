---------------------------- MODULE Lockstep_proofs ----------------------------
(***************************************************************************)
(* Proofs about the machine and the reference model in lockstep, for every    *)
(* word.                                                                    *)
(*                                                                         *)
(* The decoder is a table of 46 rows searched in order; the reference model   *)
(* dispatches in its own order on its own groups of function codes.  Both are   *)
(* compared with the encodings themselves, one row at a time.                *)
(*                                                                         *)
(* The encoders are compared with the rows: each operation has one row, the     *)
(* row's reserved fields are the ones its encoder leaves out, and what is placed  *)
(* in a field is read back from it.  WordInv keeps programs to bytes.          *)
(*                                                                         *)
(* The results are compared as an Outcome, one group of operations at a time:    *)
(* the model's unbounded integers, reduced when they are written, against the     *)
(* execute block's widths.  AgreeInv, the agreement of the states with the widths  *)
(* of the registers, is what one instruction hands to the next.                *)
(***************************************************************************)
EXTENDS Lockstep, R5900Isa_proofs

-----------------------------------------------------------------------------
(* The rows of the decoder. *)

\* The encodings that the reference model supports, apart from the zero word.
Supported(f) ==
    \/ f.opcode \in {9, 10, 11, 12, 13, 14, 25}
    \/ f.opcode = 15 /\ f.rs = 0
    \/ /\ f.opcode = 0
       /\ \/ f.rs = 0 /\ f.funct \in {0, 2, 3, 56, 58, 59, 60, 62, 63}
          \/ f.sa = 0 /\ f.funct \in {4, 6, 7, 20, 22, 23, 24, 25,
                                       33, 35, 36, 37, 38, 39, 42, 43, 45, 47}
          \/ f.rd = 0 /\ f.sa = 0 /\ f.funct \in {26, 27}
          \/ f.rs = 0 /\ f.rt = 0 /\ f.sa = 0 /\ f.funct \in {16, 18}
          \/ f.rt = 0 /\ f.rd = 0 /\ f.sa = 0 /\ f.funct \in {17, 19}
    \/ /\ f.opcode = 28
       /\ \/ f.sa = 0 /\ f.funct \in {24, 25}
          \/ f.rd = 0 /\ f.sa = 0 /\ f.funct \in {26, 27}
          \/ f.rs = 0 /\ f.rt = 0 /\ f.sa = 0 /\ f.funct = 16

\* What each row of the decoder asks of the fields of a word.
LEMMA RowEncodings ==
    ASSUME NEW f
    PROVE  (\E k \in DOMAIN DecodeChain : Matches(DecodeChain[k], f)) <=> Supported(f)
<1> DEFINE row(k) == Matches(DecodeChain[k], f)
<1> USE DEF DecodeChain, Special, Mmi, Primary, Row, Matches
<1>1. row(1) <=> f.opcode = 0 /\ f.funct = 0 /\ f.rs = 0
    OBVIOUS
<1>2. row(2) <=> f.opcode = 0 /\ f.funct = 2 /\ f.rs = 0
    OBVIOUS
<1>3. row(3) <=> f.opcode = 0 /\ f.funct = 3 /\ f.rs = 0
    OBVIOUS
<1>4. row(4) <=> f.opcode = 0 /\ f.funct = 4 /\ f.sa = 0
    OBVIOUS
<1>5. row(5) <=> f.opcode = 0 /\ f.funct = 6 /\ f.sa = 0
    OBVIOUS
<1>6. row(6) <=> f.opcode = 0 /\ f.funct = 7 /\ f.sa = 0
    OBVIOUS
<1>7. row(7) <=> f.opcode = 0 /\ f.funct = 20 /\ f.sa = 0
    OBVIOUS
<1>8. row(8) <=> f.opcode = 0 /\ f.funct = 22 /\ f.sa = 0
    OBVIOUS
<1>9. row(9) <=> f.opcode = 0 /\ f.funct = 23 /\ f.sa = 0
    OBVIOUS
<1>10. row(10) <=> f.opcode = 0 /\ f.funct = 24 /\ f.sa = 0
    OBVIOUS
<1>11. row(11) <=> f.opcode = 0 /\ f.funct = 25 /\ f.sa = 0
    OBVIOUS
<1>12. row(12) <=> f.opcode = 0 /\ f.funct = 26 /\ f.rd = 0 /\ f.sa = 0
    OBVIOUS
<1>13. row(13) <=> f.opcode = 0 /\ f.funct = 27 /\ f.rd = 0 /\ f.sa = 0
    OBVIOUS
<1>14. row(14) <=> f.opcode = 0 /\ f.funct = 16 /\ f.rs = 0 /\ f.rt = 0 /\ f.sa = 0
    OBVIOUS
<1>15. row(15) <=> f.opcode = 0 /\ f.funct = 18 /\ f.rs = 0 /\ f.rt = 0 /\ f.sa = 0
    OBVIOUS
<1>16. row(16) <=> f.opcode = 0 /\ f.funct = 17 /\ f.rt = 0 /\ f.rd = 0 /\ f.sa = 0
    OBVIOUS
<1>17. row(17) <=> f.opcode = 0 /\ f.funct = 19 /\ f.rt = 0 /\ f.rd = 0 /\ f.sa = 0
    OBVIOUS
<1>18. row(18) <=> f.opcode = 28 /\ f.funct = 24 /\ f.sa = 0
    OBVIOUS
<1>19. row(19) <=> f.opcode = 28 /\ f.funct = 25 /\ f.sa = 0
    OBVIOUS
<1>20. row(20) <=> f.opcode = 28 /\ f.funct = 26 /\ f.rd = 0 /\ f.sa = 0
    OBVIOUS
<1>21. row(21) <=> f.opcode = 28 /\ f.funct = 27 /\ f.rd = 0 /\ f.sa = 0
    OBVIOUS
<1>22. row(22) <=> f.opcode = 28 /\ f.funct = 16 /\ f.rs = 0 /\ f.rt = 0 /\ f.sa = 0
    OBVIOUS
<1>23. row(23) <=> f.opcode = 0 /\ f.funct = 33 /\ f.sa = 0
    OBVIOUS
<1>24. row(24) <=> f.opcode = 0 /\ f.funct = 45 /\ f.sa = 0
    OBVIOUS
<1>25. row(25) <=> f.opcode = 0 /\ f.funct = 35 /\ f.sa = 0
    OBVIOUS
<1>26. row(26) <=> f.opcode = 0 /\ f.funct = 47 /\ f.sa = 0
    OBVIOUS
<1>27. row(27) <=> f.opcode = 0 /\ f.funct = 36 /\ f.sa = 0
    OBVIOUS
<1>28. row(28) <=> f.opcode = 0 /\ f.funct = 37 /\ f.sa = 0
    OBVIOUS
<1>29. row(29) <=> f.opcode = 0 /\ f.funct = 38 /\ f.sa = 0
    OBVIOUS
<1>30. row(30) <=> f.opcode = 0 /\ f.funct = 39 /\ f.sa = 0
    OBVIOUS
<1>31. row(31) <=> f.opcode = 0 /\ f.funct = 42 /\ f.sa = 0
    OBVIOUS
<1>32. row(32) <=> f.opcode = 0 /\ f.funct = 43 /\ f.sa = 0
    OBVIOUS
<1>33. row(33) <=> f.opcode = 0 /\ f.funct = 56 /\ f.rs = 0
    OBVIOUS
<1>34. row(34) <=> f.opcode = 0 /\ f.funct = 58 /\ f.rs = 0
    OBVIOUS
<1>35. row(35) <=> f.opcode = 0 /\ f.funct = 59 /\ f.rs = 0
    OBVIOUS
<1>36. row(36) <=> f.opcode = 0 /\ f.funct = 60 /\ f.rs = 0
    OBVIOUS
<1>37. row(37) <=> f.opcode = 0 /\ f.funct = 62 /\ f.rs = 0
    OBVIOUS
<1>38. row(38) <=> f.opcode = 0 /\ f.funct = 63 /\ f.rs = 0
    OBVIOUS
<1>39. row(39) <=> f.opcode = 15 /\ f.rs = 0
    OBVIOUS
<1>40. row(40) <=> f.opcode = 13
    OBVIOUS
<1>41. row(41) <=> f.opcode = 12
    OBVIOUS
<1>42. row(42) <=> f.opcode = 14
    OBVIOUS
<1>43. row(43) <=> f.opcode = 9
    OBVIOUS
<1>44. row(44) <=> f.opcode = 25
    OBVIOUS
<1>45. row(45) <=> f.opcode = 10
    OBVIOUS
<1>46. row(46) <=> f.opcode = 11
    OBVIOUS
<1> HIDE DEF DecodeChain, Special, Mmi, Primary, Row, Matches
<1>47. DOMAIN DecodeChain = 1 .. 46
    BY DEF DecodeChain
<1> DEFINE special == row(1) \/ row(2) \/ row(3) \/ row(4) \/ row(5) \/ row(6) \/ row(7)
                      \/ row(8) \/ row(9) \/ row(10) \/ row(11) \/ row(12) \/ row(13) \/ row(14)
                      \/ row(15) \/ row(16) \/ row(17) \/ row(23) \/ row(24) \/ row(25) \/ row(26)
                      \/ row(27) \/ row(28) \/ row(29) \/ row(30) \/ row(31) \/ row(32) \/ row(33)
                      \/ row(34) \/ row(35) \/ row(36) \/ row(37) \/ row(38)
           mmi == row(18) \/ row(19) \/ row(20) \/ row(21) \/ row(22)
           primary == row(39) \/ row(40) \/ row(41) \/ row(42) \/ row(43) \/ row(44) \/ row(45)
                      \/ row(46)
<1> HIDE DEF row
<1>48. (\E k \in DOMAIN DecodeChain : row(k)) <=> special \/ mmi \/ primary
  <2>1. ASSUME NEW k \in 1 .. 46
        PROVE  k \in {1, 2, 3, 4, 5, 6, 7, 8, 9, 10, 11, 12, 13, 14, 15, 16, 17, 18, 19, 20,
                      21, 22, 23, 24, 25, 26, 27, 28, 29, 30, 31, 32, 33, 34, 35, 36, 37,
                      38, 39, 40, 41, 42, 43, 44, 45, 46}
      OBVIOUS
  <2>2. ASSUME NEW k \in 1 .. 46, row(k)
        PROVE  special \/ mmi \/ primary
      BY <2>1, <2>2
  <2> QED
      BY <1>47, <2>2
<1>49. special
         <=> /\ f.opcode = 0
             /\ \/ f.rs = 0 /\ f.funct \in {0, 2, 3, 56, 58, 59, 60, 62, 63}
                \/ f.sa = 0 /\ f.funct \in {4, 6, 7, 20, 22, 23, 24, 25,
                                             33, 35, 36, 37, 38, 39, 42, 43, 45, 47}
                \/ f.rd = 0 /\ f.sa = 0 /\ f.funct \in {26, 27}
                \/ f.rs = 0 /\ f.rt = 0 /\ f.sa = 0 /\ f.funct \in {16, 18}
                \/ f.rt = 0 /\ f.rd = 0 /\ f.sa = 0 /\ f.funct \in {17, 19}
    BY <1>1, <1>2, <1>3, <1>4, <1>5, <1>6, <1>7, <1>8, <1>9, <1>10, <1>11, <1>12,
       <1>13, <1>14, <1>15, <1>16, <1>17, <1>23, <1>24, <1>25, <1>26, <1>27,
       <1>28, <1>29, <1>30, <1>31, <1>32, <1>33, <1>34, <1>35, <1>36, <1>37,
       <1>38
<1>50. mmi
         <=> /\ f.opcode = 28
             /\ \/ f.sa = 0 /\ f.funct \in {24, 25}
                \/ f.rd = 0 /\ f.sa = 0 /\ f.funct \in {26, 27}
                \/ f.rs = 0 /\ f.rt = 0 /\ f.sa = 0 /\ f.funct = 16
    BY <1>18, <1>19, <1>20, <1>21, <1>22
<1>51. primary
         <=> f.opcode \in {9, 10, 11, 12, 13, 14, 25} \/ (f.opcode = 15 /\ f.rs = 0)
    BY <1>39, <1>40, <1>41, <1>42, <1>43, <1>44, <1>45, <1>46
<1> HIDE DEF special, mmi, primary
<1> QED
    BY <1>48, <1>49, <1>50, <1>51 DEF Supported, row

-----------------------------------------------------------------------------
(* The encoders. *)

Names == {"rs", "rt", "rd", "sa", "imm"}
Named(op) == {Parameters(op)[k] : k \in 1 .. Len(Parameters(op))}

\* The fields that a word takes from the arguments of its encoder.
Placed(op, args) ==
    [name \in Names |->
        IF \E k \in 1 .. Len(Parameters(op)) : Parameters(op)[k] = name
        THEN args[CHOOSE k \in 1 .. Len(Parameters(op)) : Parameters(op)[k] = name]
        ELSE 0]

\* The parameters of an encoder are fields of its format, each named once.
LEMMA ParametersOfFormat ==
    ASSUME NEW op \in Encoders
    PROVE  /\ Len(Parameters(op)) \in Nat
           /\ \A j, k \in 1 .. Len(Parameters(op)) : Parameters(op)[j] = Parameters(op)[k] => j = k
           /\ IF op \in DOMAIN PrimaryOpcode
              THEN {"rt", "imm"} \subseteq Named(op) /\ Named(op) \subseteq {"rs", "rt", "imm"}
              ELSE Named(op) \subseteq {"rs", "rt", "rd", "sa"}
<1> DEFINE immediate == {<<"rt", "imm">>, <<"rt", "rs", "imm">>}
           register == {<<"rd", "rt", "sa">>, <<"rd", "rt", "rs">>, <<"rs", "rt">>, <<"rd">>,
                        <<"rs">>, <<"rd", "rs", "rt">>}
<1>1. op \in DOMAIN PrimaryOpcode => Parameters(op) \in immediate
    BY DEF Parameters, PrimaryOpcode
<1>2. op \notin DOMAIN PrimaryOpcode => Parameters(op) \in register
    BY DEF Parameters, PrimaryOpcode
<1>3. ASSUME NEW p \in immediate \cup register
      PROVE  /\ Len(p) \in Nat
             /\ \A j, k \in 1 .. Len(p) : p[j] = p[k] => j = k
  <2>1. CASE p \in {<<"rt", "rs", "imm">>, <<"rd", "rt", "sa">>, <<"rd", "rt", "rs">>,
                    <<"rd", "rs", "rt">>}
    <3>1. /\ Len(p) = 3 /\ \A k \in 1 .. 3 : k \in {1, 2, 3}
          /\ p[1] # p[2] /\ p[1] # p[3] /\ p[2] # p[3]
        BY <2>1
    <3> QED
        BY <3>1
  <2>2. CASE p \in {<<"rt", "imm">>, <<"rs", "rt">>}
    <3>1. Len(p) = 2 /\ p[1] # p[2] /\ \A k \in 1 .. 2 : k \in {1, 2}
        BY <2>2
    <3> QED
        BY <3>1
  <2>3. CASE p \in {<<"rd">>, <<"rs">>}
      BY <2>3
  <2> QED
      BY <2>1, <2>2, <2>3
<1>4. ASSUME NEW p \in immediate
      PROVE  /\ \A k \in 1 .. Len(p) : p[k] \in {"rs", "rt", "imm"}
             /\ \E k \in 1 .. Len(p) : p[k] = "rt"
             /\ \E k \in 1 .. Len(p) : p[k] = "imm"
  <2>1. 1 \in 1 .. Len(p) /\ Len(p) \in 1 .. Len(p)
      OBVIOUS
  <2>2. p[1] = "rt" /\ p[Len(p)] = "imm"
      OBVIOUS
  <2>3. \A k \in 1 .. Len(p) : p[k] \in {"rs", "rt", "imm"}
      OBVIOUS
  <2> QED
      BY <2>1, <2>2, <2>3
<1>5. ASSUME NEW p \in register
      PROVE  \A k \in 1 .. Len(p) : p[k] \in {"rs", "rt", "rd", "sa"}
  <2> QED
      OBVIOUS
<1> HIDE DEF immediate, register
<1> QED
    BY <1>1, <1>2, <1>3, <1>4, <1>5 DEF Named

\* Every argument is placed in its field, and the other fields are clear.
LEMMA ArgumentsPlaced ==
    ASSUME NEW op \in Encoders, NEW args
    PROVE  /\ \A k \in 1 .. Len(Parameters(op)) :
                 Parameters(op)[k] \in Names /\ Placed(op, args)[Parameters(op)[k]] = args[k]
           /\ \A name \in Names \ Named(op) : Placed(op, args)[name] = 0
<1> DEFINE D == 1 .. Len(Parameters(op))
<1>1. ASSUME NEW k \in D
      PROVE  (CHOOSE j \in D : Parameters(op)[j] = Parameters(op)[k]) = k
    BY ParametersOfFormat
<1>2. \A k \in D : Parameters(op)[k] \in Names
    BY ParametersOfFormat DEF Named, Names
<1> QED
    BY <1>1, <1>2 DEF Placed, Named

\* The opcode and the function code that an encoder puts into its word.
EncodedOpcode(op) ==
    CASE op \in DOMAIN PrimaryOpcode -> PrimaryOpcode[op]
      [] op \in DOMAIN MmiFunction -> MMI_OPCODE
      [] OTHER -> 0
EncodedFunction(op) ==
    IF op \in DOMAIN SpecialFunction THEN SpecialFunction[op]
    ELSE IF op \in DOMAIN MmiFunction THEN MmiFunction[op] ELSE 0

LEMMA CodesInRange ==
    ASSUME NEW op \in Encoders
    PROVE  /\ EncodedOpcode(op) \in 0 .. 63 /\ EncodedFunction(op) \in 0 .. 63
           /\ op \in DOMAIN PrimaryOpcode => EncodedFunction(op) = 0
<1>1. CASE op \in DOMAIN PrimaryOpcode
    BY <1>1 DEF EncodedOpcode, EncodedFunction, PrimaryOpcode, SpecialFunction, MmiFunction
<1>2. CASE op \in DOMAIN MmiFunction
    BY <1>2 DEF EncodedOpcode, EncodedFunction, PrimaryOpcode, SpecialFunction, MmiFunction, MMI_OPCODE
<1>3. CASE op \in DOMAIN SpecialFunction
  <2>1. op \notin DOMAIN PrimaryOpcode /\ op \notin DOMAIN MmiFunction
      BY <1>3 DEF PrimaryOpcode, SpecialFunction, MmiFunction
  <2>2. SpecialFunction[op] \in 0 .. 63
      BY <1>3 DEF SpecialFunction
  <2> QED
      BY <1>3, <2>1, <2>2 DEF EncodedOpcode, EncodedFunction
<1> QED
    BY <1>1, <1>2, <1>3 DEF Encoders

\* The two bytes of a register format, which the shift amount lies across.
LowByte(sa, funct) == (sa % 4) * 64 + funct
HighByte(rd, sa) == rd * 8 + (sa \div 4)

LEMMA RegisterBytes ==
    ASSUME NEW rd \in 0 .. 31, NEW sa \in 0 .. 31, NEW funct \in 0 .. 63
    PROVE  /\ LowByte(sa, funct) % 64 = funct
           /\ HighByte(rd, sa) \div 8 = rd
           /\ (HighByte(rd, sa) % 8) * 4 + LowByte(sa, funct) \div 64 = sa
<1> DEFINE low == sa % 4
           high == sa \div 4
<1>1. low \in 0 .. 3 /\ high \in 0 .. 7 /\ high * 4 + low = sa
    OBVIOUS
<1>2. LowByte(sa, funct) = low * 64 + funct /\ HighByte(rd, sa) = rd * 8 + high
    BY DEF LowByte, HighByte
<1> HIDE DEF low, high
<1>3. LowByte(sa, funct) % 64 = funct /\ LowByte(sa, funct) \div 64 = low
    BY <1>1, <1>2
<1>4. HighByte(rd, sa) \div 8 = rd /\ HighByte(rd, sa) % 8 = high
    BY <1>1, <1>2
<1> QED
    BY <1>1, <1>3, <1>4

Index == 0 .. 31
Immediate == {n \in Nat : n < 65536}

\* Fields reads back what the encoders put into a word: the bytes cut the fields in two,
\* and an immediate lies over rd, the shift amount and the function code.
LEMMA FieldsOfEncoded ==
    ASSUME NEW op \in Encoders, NEW value,
           \A name \in {"rs", "rt", "rd", "sa"} : value[name] \in Index,
           value["imm"] \in Immediate,
           IF op \in DOMAIN PrimaryOpcode THEN value["rd"] = 0 /\ value["sa"] = 0
           ELSE value["imm"] = 0
    PROVE  LET f == Fields(Word(op, value))
           IN  /\ f.opcode = EncodedOpcode(op)
               /\ f.rs = value["rs"] /\ f.rt = value["rt"]
               /\ IF op \in DOMAIN PrimaryOpcode THEN f.imm = value["imm"]
                  ELSE f.funct = EncodedFunction(op) /\ f.rd = value["rd"] /\ f.sa = value["sa"]
<1> DEFINE w == Word(op, value)
<1>1. /\ value["rs"] \in 0 .. 31 /\ value["rt"] \in 0 .. 31
      /\ value["rd"] \in 0 .. 31 /\ value["sa"] \in 0 .. 31
    BY DEF Index
<1>2. /\ w[0] = (value["sa"] % 4) * 64 + (value["imm"] % 256) + EncodedFunction(op)
      /\ w[1] = value["rd"] * 8 + (value["sa"] \div 4) + (value["imm"] \div 256)
      /\ w[2] = (value["rs"] % 8) * 32 + value["rt"]
      /\ w[3] = (value["rs"] \div 8) + 4 * EncodedOpcode(op)
    BY DEF Word, EncodedOpcode, EncodedFunction
<1>3. /\ EncodedOpcode(op) \in 0 .. 63 /\ EncodedFunction(op) \in 0 .. 63
      /\ op \in DOMAIN PrimaryOpcode => EncodedFunction(op) = 0
    BY CodesInRange
<1> HIDE DEF w
<1>4. w[3] \div 4 = EncodedOpcode(op) /\ w[3] % 4 = value["rs"] \div 8
    BY <1>1, <1>2, <1>3
<1>5. w[2] \div 32 = value["rs"] % 8 /\ w[2] % 32 = value["rt"]
    BY <1>1, <1>2
<1>6. (w[3] % 4) * 8 + w[2] \div 32 = value["rs"]
    BY <1>1, <1>4, <1>5
<1>7. ASSUME op \in DOMAIN PrimaryOpcode
      PROVE  w[1] * 256 + w[0] = value["imm"]
    BY <1>2, <1>3, <1>7 DEF Immediate
<1>8. ASSUME op \notin DOMAIN PrimaryOpcode
      PROVE  /\ w[0] % 64 = EncodedFunction(op) /\ w[1] \div 8 = value["rd"]
             /\ (w[1] % 8) * 4 + w[0] \div 64 = value["sa"]
  <2>1. value["imm"] = 0 /\ 0 % 256 = 0 /\ 0 \div 256 = 0
      BY <1>8
  <2>2. w[0] = LowByte(value["sa"], EncodedFunction(op))
      BY <1>1, <1>2, <1>3, <2>1 DEF LowByte
  <2>3. w[1] = HighByte(value["rd"], value["sa"])
      BY <1>1, <1>2, <2>1 DEF HighByte
  <2>4. EncodedFunction(op) \in 0 .. 63
      BY <1>3
  <2>5. value["rd"] \in 0 .. 31 /\ value["sa"] \in 0 .. 31
      BY <1>1
  <2>6. /\ LowByte(value["sa"], EncodedFunction(op)) % 64 = EncodedFunction(op)
        /\ HighByte(value["rd"], value["sa"]) \div 8 = value["rd"]
        /\ (HighByte(value["rd"], value["sa"]) % 8) * 4
              + LowByte(value["sa"], EncodedFunction(op)) \div 64 = value["sa"]
      BY <2>4, <2>5, RegisterBytes, Zenon
  <2>7. w[0] % 64 = EncodedFunction(op)
      BY <2>2, <2>6, Zenon
  <2>8. w[1] \div 8 = value["rd"]
      BY <2>3, <2>6, Zenon
  <2>9. (w[1] % 8) * 4 + w[0] \div 64 = value["sa"]
      BY <2>2, <2>3, <2>6, Zenon
  <2> QED
      BY <2>7, <2>8, <2>9
<1> QED
    BY <1>4, <1>5, <1>6, <1>7, <1>8 DEF Fields, w

\* The fields that the words of an encoder take from its arguments.
LEMMA NamedFields ==
    /\ \A op \in {"SLL", "SRL", "SRA", "DSLL", "DSRL", "DSRA", "DSLL32", "DSRL32", "DSRA32"} :
          Named(op) = {"rd", "rt", "sa"}
    /\ \A op \in {"SLLV", "SRLV", "SRAV", "DSLLV", "DSRLV", "DSRAV", "MULT", "MULTU", "MULT1",
                   "MULTU1", "ADDU", "DADDU", "SUBU", "DSUBU", "AND", "OR", "XOR", "NOR",
                   "SLT", "SLTU"} : Named(op) = {"rd", "rs", "rt"}
    /\ \A op \in {"DIV", "DIVU", "DIV1", "DIVU1"} : Named(op) = {"rs", "rt"}
    /\ \A op \in {"MFHI", "MFLO", "MFHI1"} : Named(op) = {"rd"}
    /\ \A op \in {"MTHI", "MTLO"} : Named(op) = {"rs"}
    /\ Named("LUI") = {"rt", "imm"}
    /\ \A op \in {"ORI", "ANDI", "XORI", "ADDIU", "DADDIU", "SLTI", "SLTIU"} :
          Named(op) = {"rt", "rs", "imm"}
<1> DEFINE members(p) == {p[k] : k \in 1 .. Len(p)}
<1>1. /\ members(<<"rd", "rt", "sa">>) = {"rd", "rt", "sa"}
      /\ members(<<"rd", "rt", "rs">>) = {"rd", "rs", "rt"}
      /\ members(<<"rd", "rs", "rt">>) = {"rd", "rs", "rt"}
      /\ members(<<"rt", "rs", "imm">>) = {"rt", "rs", "imm"}
  <2>1. ASSUME NEW p, p \in {<<"rd", "rt", "sa">>, <<"rd", "rt", "rs">>, <<"rd", "rs", "rt">>,
                              <<"rt", "rs", "imm">>}
        PROVE  members(p) = {p[1], p[2], p[3]}
    <3>1. Len(p) = 3 /\ \A k \in 1 .. 3 : k \in {1, 2, 3}
        BY <2>1
    <3> QED
        BY <3>1
  <2> HIDE DEF members
  <2> QED
      BY <2>1
<1>2. ASSUME NEW p, p \in {<<"rs", "rt">>, <<"rt", "imm">>}
      PROVE  members(p) = {p[1], p[2]}
  <2>1. Len(p) = 2 /\ \A k \in 1 .. 2 : k \in {1, 2}
      BY <1>2
  <2> QED
      BY <2>1
<1>3. ASSUME NEW p, p \in {<<"rd">>, <<"rs">>}
      PROVE  members(p) = {p[1]}
  <2>1. Len(p) = 1 /\ \A k \in 1 .. 1 : k = 1
      BY <1>3
  <2> QED
      BY <2>1
<1>0. \A op : Named(op) = members(Parameters(op))
    BY DEF Named
<1> HIDE DEF members
<1>4. \A op \in {"SLL", "SRL", "SRA", "DSLL", "DSRL", "DSRA", "DSLL32", "DSRL32", "DSRA32"} :
          Parameters(op) = <<"rd", "rt", "sa">>
    BY DEF Parameters, PrimaryOpcode
<1>5. \A op \in {"SLLV", "SRLV", "SRAV", "DSLLV", "DSRLV", "DSRAV"} :
          Parameters(op) = <<"rd", "rt", "rs">>
    BY DEF Parameters, PrimaryOpcode
<1>6. \A op \in {"MULT", "MULTU", "MULT1", "MULTU1", "ADDU", "DADDU", "SUBU", "DSUBU", "AND",
                 "OR", "XOR", "NOR", "SLT", "SLTU"} : Parameters(op) = <<"rd", "rs", "rt">>
    BY DEF Parameters, PrimaryOpcode
<1>7. \A op \in {"DIV", "DIVU", "DIV1", "DIVU1"} : Parameters(op) = <<"rs", "rt">>
    BY DEF Parameters, PrimaryOpcode
<1>8. \A op \in {"MFHI", "MFLO", "MFHI1"} : Parameters(op) = <<"rd">>
    BY DEF Parameters, PrimaryOpcode
<1>9. \A op \in {"MTHI", "MTLO"} : Parameters(op) = <<"rs">>
    BY DEF Parameters, PrimaryOpcode
<1>10. Parameters("LUI") = <<"rt", "imm">>
    BY DEF Parameters, PrimaryOpcode
<1>11. \A op \in {"ORI", "ANDI", "XORI", "ADDIU", "DADDIU", "SLTI", "SLTIU"} :
          Parameters(op) = <<"rt", "rs", "imm">>
    BY DEF Parameters, PrimaryOpcode
<1>12. \A op \in {"SLL", "SRL", "SRA", "DSLL", "DSRL", "DSRA", "DSLL32", "DSRL32", "DSRA32"} :
          Named(op) = {"rd", "rt", "sa"}
    BY <1>0, <1>1, <1>4
<1>13. \A op \in {"SLLV", "SRLV", "SRAV", "DSLLV", "DSRLV", "DSRAV", "MULT", "MULTU", "MULT1",
                   "MULTU1", "ADDU", "DADDU", "SUBU", "DSUBU", "AND", "OR", "XOR", "NOR",
                   "SLT", "SLTU"} : Named(op) = {"rd", "rs", "rt"}
    BY <1>0, <1>1, <1>5, <1>6
<1>14. /\ \A op \in {"DIV", "DIVU", "DIV1", "DIVU1"} : Named(op) = {"rs", "rt"}
       /\ Named("LUI") = {"rt", "imm"}
    BY <1>0, <1>2, <1>7, <1>10
<1>15. /\ \A op \in {"MFHI", "MFLO", "MFHI1"} : Named(op) = {"rd"}
       /\ \A op \in {"MTHI", "MTLO"} : Named(op) = {"rs"}
    BY <1>0, <1>3, <1>8, <1>9
<1>16. \A op \in {"ORI", "ANDI", "XORI", "ADDIU", "DADDIU", "SLTI", "SLTIU"} :
          Named(op) = {"rt", "rs", "imm"}
    BY <1>0, <1>1, <1>11
<1> QED
    BY <1>12, <1>13, <1>14, <1>15, <1>16

\* A row of the decoder is the encoding that the encoder of its operation makes: it asks
\* for the same codes, and for zero in exactly the fields that take no argument.
RowEncodes(row) ==
    /\ row.op \in Encoders
    /\ row.opcode = EncodedOpcode(row.op)
    /\ IF row.op \in DOMAIN PrimaryOpcode
       THEN row.funct = -1 /\ row.zero = {"rs"} \ Named(row.op)
       ELSE /\ row.funct = EncodedFunction(row.op)
            /\ row.zero = {"rs", "rt", "rd", "sa"} \ Named(row.op)

LEMMA RowsAreEncoders == \A k \in DOMAIN DecodeChain : RowEncodes(DecodeChain[k])
<1> USE NamedFields DEF DecodeChain, Special, Mmi, Primary, Row, RowEncodes, Encoders,
        EncodedOpcode, EncodedFunction, SpecialFunction, MmiFunction, PrimaryOpcode, MMI_OPCODE
<1>1. RowEncodes(DecodeChain[1])
    OBVIOUS
<1>2. RowEncodes(DecodeChain[2])
    OBVIOUS
<1>3. RowEncodes(DecodeChain[3])
    OBVIOUS
<1>4. RowEncodes(DecodeChain[4])
    OBVIOUS
<1>5. RowEncodes(DecodeChain[5])
    OBVIOUS
<1>6. RowEncodes(DecodeChain[6])
    OBVIOUS
<1>7. RowEncodes(DecodeChain[7])
    OBVIOUS
<1>8. RowEncodes(DecodeChain[8])
    OBVIOUS
<1>9. RowEncodes(DecodeChain[9])
    OBVIOUS
<1>10. RowEncodes(DecodeChain[10])
    OBVIOUS
<1>11. RowEncodes(DecodeChain[11])
    OBVIOUS
<1>12. RowEncodes(DecodeChain[12])
    OBVIOUS
<1>13. RowEncodes(DecodeChain[13])
    OBVIOUS
<1>14. RowEncodes(DecodeChain[14])
    OBVIOUS
<1>15. RowEncodes(DecodeChain[15])
    OBVIOUS
<1>16. RowEncodes(DecodeChain[16])
    OBVIOUS
<1>17. RowEncodes(DecodeChain[17])
    OBVIOUS
<1>18. RowEncodes(DecodeChain[18])
    OBVIOUS
<1>19. RowEncodes(DecodeChain[19])
    OBVIOUS
<1>20. RowEncodes(DecodeChain[20])
    OBVIOUS
<1>21. RowEncodes(DecodeChain[21])
    OBVIOUS
<1>22. RowEncodes(DecodeChain[22])
    OBVIOUS
<1>23. RowEncodes(DecodeChain[23])
    OBVIOUS
<1>24. RowEncodes(DecodeChain[24])
    OBVIOUS
<1>25. RowEncodes(DecodeChain[25])
    OBVIOUS
<1>26. RowEncodes(DecodeChain[26])
    OBVIOUS
<1>27. RowEncodes(DecodeChain[27])
    OBVIOUS
<1>28. RowEncodes(DecodeChain[28])
    OBVIOUS
<1>29. RowEncodes(DecodeChain[29])
    OBVIOUS
<1>30. RowEncodes(DecodeChain[30])
    OBVIOUS
<1>31. RowEncodes(DecodeChain[31])
    OBVIOUS
<1>32. RowEncodes(DecodeChain[32])
    OBVIOUS
<1>33. RowEncodes(DecodeChain[33])
    OBVIOUS
<1>34. RowEncodes(DecodeChain[34])
    OBVIOUS
<1>35. RowEncodes(DecodeChain[35])
    OBVIOUS
<1>36. RowEncodes(DecodeChain[36])
    OBVIOUS
<1>37. RowEncodes(DecodeChain[37])
    OBVIOUS
<1>38. RowEncodes(DecodeChain[38])
    OBVIOUS
<1>39. RowEncodes(DecodeChain[39])
    OBVIOUS
<1>40. RowEncodes(DecodeChain[40])
    OBVIOUS
<1>41. RowEncodes(DecodeChain[41])
    OBVIOUS
<1>42. RowEncodes(DecodeChain[42])
    OBVIOUS
<1>43. RowEncodes(DecodeChain[43])
    OBVIOUS
<1>44. RowEncodes(DecodeChain[44])
    OBVIOUS
<1>45. RowEncodes(DecodeChain[45])
    OBVIOUS
<1>46. RowEncodes(DecodeChain[46])
    OBVIOUS
<1> HIDE NamedFields DEF DecodeChain, Special, Mmi, Primary, Row, RowEncodes, Encoders,
        EncodedOpcode, EncodedFunction, SpecialFunction, MmiFunction, PrimaryOpcode, MMI_OPCODE
<1>47. DOMAIN DecodeChain = 1 .. 46
    BY DEF DecodeChain
<1> QED
    BY <1>1, <1>2, <1>3, <1>4, <1>5, <1>6, <1>7, <1>8, <1>9, <1>10, <1>11,
       <1>12, <1>13, <1>14, <1>15, <1>16, <1>17, <1>18, <1>19, <1>20, <1>21,
       <1>22, <1>23, <1>24, <1>25, <1>26, <1>27, <1>28, <1>29, <1>30, <1>31,
       <1>32, <1>33, <1>34, <1>35, <1>36, <1>37, <1>38, <1>39, <1>40, <1>41,
       <1>42, <1>43, <1>44, <1>45, <1>46, <1>47

\* No two encoders use the same codes.
LEMMA CodesDistinct ==
    ASSUME NEW a \in Encoders, NEW b \in Encoders, EncodedOpcode(a) = EncodedOpcode(b),
           a \notin DOMAIN PrimaryOpcode => EncodedFunction(a) = EncodedFunction(b)
    PROVE  a = b
<1>1. /\ \A op \in DOMAIN PrimaryOpcode :
            /\ op \notin DOMAIN MmiFunction /\ EncodedOpcode(op) = PrimaryOpcode[op]
            /\ EncodedOpcode(op) \in {9, 10, 11, 12, 13, 14, 15, 25}
      /\ \A op \in DOMAIN MmiFunction : op \notin DOMAIN PrimaryOpcode /\ EncodedOpcode(op) = 28
      /\ \A op \in DOMAIN SpecialFunction :
            /\ op \notin DOMAIN PrimaryOpcode /\ op \notin DOMAIN MmiFunction
            /\ EncodedOpcode(op) = 0
    BY DEF EncodedOpcode, PrimaryOpcode, MmiFunction, SpecialFunction, MMI_OPCODE
<1>2. CASE a \in DOMAIN PrimaryOpcode
  <2>1. b \in DOMAIN PrimaryOpcode
      BY <1>1, <1>2 DEF Encoders
  <2>2. PrimaryOpcode[a] = PrimaryOpcode[b]
      BY <1>1, <1>2, <2>1
  <2>3. \A x, y \in DOMAIN PrimaryOpcode : PrimaryOpcode[x] = PrimaryOpcode[y] => x = y
      BY DEF PrimaryOpcode
  <2> QED
      BY <1>2, <2>1, <2>2, <2>3
<1>3. CASE a \in DOMAIN MmiFunction
  <2>1. b \in DOMAIN MmiFunction
      BY <1>1, <1>3 DEF Encoders
  <2>2. MmiFunction[a] = MmiFunction[b]
    <3>1. a \notin DOMAIN SpecialFunction /\ b \notin DOMAIN SpecialFunction
        BY <1>1, <1>3, <2>1
    <3> QED
        BY <1>1, <1>3, <2>1, <3>1 DEF EncodedFunction
  <2> QED
      BY <1>3, <2>1, <2>2 DEF MmiFunction
<1>4. CASE a \in DOMAIN SpecialFunction
  <2>1. b \in DOMAIN SpecialFunction
      BY <1>1, <1>4 DEF Encoders
  <2>2. SpecialFunction[a] = SpecialFunction[b]
      BY <1>1, <1>4, <2>1 DEF EncodedFunction
  <2> QED
      BY <1>4, <2>1, <2>2 DEF SpecialFunction
<1> QED
    BY <1>2, <1>3, <1>4 DEF Encoders

\* Every encoder has its row.
LEMMA EncodersAreRows ==
    ASSUME NEW op \in Encoders
    PROVE  \E k \in DOMAIN DecodeChain : DecodeChain[k].op = op
<1> DEFINE ops == {DecodeChain[k].op : k \in DOMAIN DecodeChain}
<1>1. DOMAIN DecodeChain = 1 .. 46
    BY DEF DecodeChain
<1>2. /\ DecodeChain[1].op = "SLL"
      /\ DecodeChain[2].op = "SRL"
      /\ DecodeChain[3].op = "SRA"
      /\ DecodeChain[4].op = "SLLV"
      /\ DecodeChain[5].op = "SRLV"
      /\ DecodeChain[6].op = "SRAV"
      /\ DecodeChain[7].op = "DSLLV"
      /\ DecodeChain[8].op = "DSRLV"
    BY DEF DecodeChain, Special, Mmi, Primary, Row
<1>3. /\ DecodeChain[9].op = "DSRAV"
      /\ DecodeChain[10].op = "MULT"
      /\ DecodeChain[11].op = "MULTU"
      /\ DecodeChain[12].op = "DIV"
      /\ DecodeChain[13].op = "DIVU"
      /\ DecodeChain[14].op = "MFHI"
      /\ DecodeChain[15].op = "MFLO"
      /\ DecodeChain[16].op = "MTHI"
    BY DEF DecodeChain, Special, Mmi, Primary, Row
<1>4. /\ DecodeChain[17].op = "MTLO"
      /\ DecodeChain[18].op = "MULT1"
      /\ DecodeChain[19].op = "MULTU1"
      /\ DecodeChain[20].op = "DIV1"
      /\ DecodeChain[21].op = "DIVU1"
      /\ DecodeChain[22].op = "MFHI1"
      /\ DecodeChain[23].op = "ADDU"
      /\ DecodeChain[24].op = "DADDU"
    BY DEF DecodeChain, Special, Mmi, Primary, Row
<1>5. /\ DecodeChain[25].op = "SUBU"
      /\ DecodeChain[26].op = "DSUBU"
      /\ DecodeChain[27].op = "AND"
      /\ DecodeChain[28].op = "OR"
      /\ DecodeChain[29].op = "XOR"
      /\ DecodeChain[30].op = "NOR"
      /\ DecodeChain[31].op = "SLT"
      /\ DecodeChain[32].op = "SLTU"
    BY DEF DecodeChain, Special, Mmi, Primary, Row
<1>6. /\ DecodeChain[33].op = "DSLL"
      /\ DecodeChain[34].op = "DSRL"
      /\ DecodeChain[35].op = "DSRA"
      /\ DecodeChain[36].op = "DSLL32"
      /\ DecodeChain[37].op = "DSRL32"
      /\ DecodeChain[38].op = "DSRA32"
      /\ DecodeChain[39].op = "LUI"
      /\ DecodeChain[40].op = "ORI"
    BY DEF DecodeChain, Special, Mmi, Primary, Row
<1>7. /\ DecodeChain[41].op = "ANDI"
      /\ DecodeChain[42].op = "XORI"
      /\ DecodeChain[43].op = "ADDIU"
      /\ DecodeChain[44].op = "DADDIU"
      /\ DecodeChain[45].op = "SLTI"
      /\ DecodeChain[46].op = "SLTIU"
    BY DEF DecodeChain, Special, Mmi, Primary, Row
<1> HIDE DEF ops
<1> QED
    BY <1>1, <1>2, <1>3, <1>4, <1>5, <1>6, <1>7 DEF Encoders, SpecialFunction, MmiFunction, PrimaryOpcode, ops

-----------------------------------------------------------------------------
(* The decoder beside the reference model. *)

\* The decoder gives an operation to the zero word and to what a row matches.
LEMMA DecoderKnows ==
    ASSUME NEW w
    PROVE  Decode(w) # "NONE" <=> IsZeroWord(w) \/ Supported(Fields(w))
<1>1. \A k \in DOMAIN DecodeChain : DecodeChain[k].op # "NONE"
  <2>1. "NONE" \notin Encoders
      BY DEF Encoders, SpecialFunction, MmiFunction, PrimaryOpcode
  <2> QED
      BY <2>1, RowsAreEncoders DEF RowEncodes
<1>2. CASE IsZeroWord(w)
    BY <1>2 DEF Decode
<1>3. CASE ~IsZeroWord(w)
    BY <1>1, <1>3, DecodesByRow, RowEncodings
<1> QED
    BY <1>2, <1>3

\* The reference model has a successor for the zero word and what its dispatch supports.
LEMMA ReferenceKnows ==
    ASSUME NEW w, NEW st
    PROVE  ReferenceStep(st, w) # {} <=> IsZeroWord(w) \/ Supported(Fields(w))
<1> DEFINE f == Fields(w)
<1>1. StepSpecial(st, f) # {}
        <=> \/ f.rs = 0 /\ f.funct \in {0, 2, 3, 56, 58, 59, 60, 62, 63}
            \/ f.sa = 0 /\ f.funct \in {4, 6, 7, 20, 22, 23, 24, 25,
                                        33, 35, 36, 37, 38, 39, 42, 43, 45, 47}
            \/ f.rd = 0 /\ f.sa = 0 /\ f.funct \in {26, 27}
            \/ f.rs = 0 /\ f.rt = 0 /\ f.sa = 0 /\ f.funct \in {16, 18}
            \/ f.rt = 0 /\ f.rd = 0 /\ f.sa = 0 /\ f.funct \in {17, 19}
  <2> HIDE DEF f
  <2> QED
      BY DEF StepSpecial
<1>2. StepMmi(st, f) # {}
        <=> \/ f.sa = 0 /\ f.funct \in {24, 25}
            \/ f.rd = 0 /\ f.sa = 0 /\ f.funct \in {26, 27}
            \/ f.rs = 0 /\ f.rt = 0 /\ f.sa = 0 /\ f.funct = 16
  <2> HIDE DEF f
  <2> QED
      BY DEF StepMmi
<1>3. ReferenceStep(st, w) # {} <=> Dispatch(st, w) # {}
    BY DEF ReferenceStep
<1>4. Dispatch(st, w) =
        CASE IsZeroWord(w)                    -> {st}
          [] f.opcode \in {9, 25, 10, 11}     -> {StepSignedImmediateGroup(st, f)}
          [] f.opcode = 0 /\ ~IsZeroWord(w)   -> StepSpecial(st, f)
          [] f.opcode = 28                    -> StepMmi(st, f)
          [] f.opcode \in {12, 13, 14}        -> {StepLogicalImmediate(st, f)}
          [] f.opcode = 15 /\ f.rs = 0        -> {StepLui(st, f)}
          [] OTHER                            -> {}
    BY DEF Dispatch
<1> HIDE DEF f
<1>5. Dispatch(st, w) # {} <=> IsZeroWord(w) \/ Supported(f)
  <2>1. CASE IsZeroWord(w)
    <3>1. f.opcode = 0
        BY <2>1 DEF f, IsZeroWord, Fields
    <3> QED
        BY <1>4, <2>1, <3>1
  <2>2. CASE ~IsZeroWord(w)
      BY <1>1, <1>2, <1>4, <2>2 DEF Supported
  <2> QED
      BY <2>1, <2>2
<1> QED
    BY <1>3, <1>5 DEF f

\* The model raises exactly on the words on which the core reports a reserved
\* instruction (reference/ee/r5900.py:1005-1104, r5900_decode.sv:16-320), whatever its
\* state: no program the tests can build is checked on one side only.
THEOREM ModelSupportsWhatDecodes ==
    ASSUME NEW w, NEW st
    PROVE  ReferenceStep(st, w) = {} <=> Decode(w) = "NONE"
    BY DecoderKnows, ReferenceKnows

THEOREM SupportAgreement == LockstepSpec => []SupportAgrees
<1>1. SupportAgrees
    BY ModelSupportsWhatDecodes DEF SupportAgrees
<1> QED
    BY <1>1, PTL

-----------------------------------------------------------------------------
(* The encoders beside the decoder. *)

\* The greatest value of each field.
LEMMA WithinLimit ==
    ASSUME NEW name \in Names, NEW n \in 0 .. Limit(name)
    PROVE  /\ name # "imm" => n \in Index
           /\ name = "imm" => n \in Immediate
<1>1. CASE name = "imm"
  <2>1. Limit(name) \in Nat /\ \A m \in Nat : m <= Limit(name) => m < 65536
      BY <1>1 DEF Limit
  <2>2. n \in Nat /\ n <= Limit(name)
      BY <2>1
  <2> QED
      BY <1>1, <2>1, <2>2 DEF Immediate
<1>2. CASE name # "imm"
    BY <1>2 DEF Limit, Index
<1> QED
    BY <1>1, <1>2

\* An encoder that does not raise found every argument in range and placed it in its field.
LEMMA EncodedWord ==
    ASSUME NEW op \in Encoders, NEW args, Encode(op, args) \notin Errors
    PROVE  /\ Encode(op, args) = Word(op, Placed(op, args))
           /\ \A k \in 1 .. Len(Parameters(op)) : args[k] \in 0 .. Limit(Parameters(op)[k])
<1> DEFINE bad == {k \in 1 .. Len(Parameters(op)) : args[k] \notin 0 .. Limit(Parameters(op)[k])}
<1>1. Encode(op, args) = IF bad # {} THEN Refused(Parameters(op)[Min(bad)])
                         ELSE Word(op, Placed(op, args))
    BY DEF Encode, Placed, Names
<1>2. bad = {}
    BY <1>1 DEF Refused, Errors
<1> QED
    BY <1>1, <1>2

\* The arguments of such an encoder fit the fields of its format, as FieldsOfEncoded asks.
LEMMA PlacedFits ==
    ASSUME NEW op \in Encoders, NEW args,
           \A k \in 1 .. Len(Parameters(op)) : args[k] \in 0 .. Limit(Parameters(op)[k])
    PROVE  /\ \A name \in {"rs", "rt", "rd", "sa"} : Placed(op, args)[name] \in Index
           /\ Placed(op, args)["imm"] \in Immediate
           /\ IF op \in DOMAIN PrimaryOpcode
              THEN Placed(op, args)["rd"] = 0 /\ Placed(op, args)["sa"] = 0
              ELSE Placed(op, args)["imm"] = 0
<1>1. ASSUME NEW name \in Named(op)
      PROVE  name \in Names /\ Placed(op, args)[name] \in 0 .. Limit(name)
  <2>1. PICK k \in 1 .. Len(Parameters(op)) : Parameters(op)[k] = name
      BY DEF Named
  <2> QED
      BY <2>1, ArgumentsPlaced
<1>2. ASSUME NEW name \in Names \ Named(op)
      PROVE  Placed(op, args)[name] = 0
    BY ArgumentsPlaced
<1>3. 0 \in Index /\ 0 \in Immediate
    BY DEF Index, Immediate
<1>4. ASSUME NEW name \in {"rs", "rt", "rd", "sa"}
      PROVE  Placed(op, args)[name] \in Index
  <2>1. name \in Names /\ name # "imm"
      BY DEF Names
  <2>2. CASE name \in Named(op)
      BY <1>1, <2>1, <2>2, WithinLimit
  <2>3. CASE name \notin Named(op)
      BY <1>2, <1>3, <2>1, <2>3
  <2> QED
      BY <2>2, <2>3
<1>5. "imm" \in Names /\ "rd" \in Names /\ "sa" \in Names
    BY DEF Names
<1>6. Placed(op, args)["imm"] \in Immediate
  <2>1. CASE "imm" \in Named(op)
      BY <1>1, <1>5, <2>1, WithinLimit
  <2>2. CASE "imm" \notin Named(op)
      BY <1>2, <1>3, <1>5, <2>2
  <2> QED
      BY <2>1, <2>2
<1>7. CASE op \in DOMAIN PrimaryOpcode
  <2>1. "rd" \notin Named(op) /\ "sa" \notin Named(op)
      BY <1>7, ParametersOfFormat
  <2> QED
      BY <1>2, <1>4, <1>5, <1>6, <1>7, <2>1
<1>8. CASE op \notin DOMAIN PrimaryOpcode
  <2>1. "imm" \notin Named(op)
      BY <1>8, ParametersOfFormat
  <2> QED
      BY <1>2, <1>4, <1>5, <1>6, <1>8, <2>1
<1> QED
    BY <1>7, <1>8

\* The fields of an encoded word: its own codes, and its arguments in their places.
LEMMA EncodedFields ==
    ASSUME NEW op \in Encoders, NEW args, Encode(op, args) \notin Errors
    PROVE  LET f == Fields(Encode(op, args))
           IN  /\ f.opcode = EncodedOpcode(op)
               /\ op \notin DOMAIN PrimaryOpcode => f.funct = EncodedFunction(op)
               /\ \A k \in 1 .. Len(Parameters(op)) : f[Parameters(op)[k]] = args[k]
               /\ \A z \in (IF op \in DOMAIN PrimaryOpcode THEN {"rs"}
                            ELSE {"rs", "rt", "rd", "sa"}) \ Named(op) : f[z] = 0
<1> DEFINE value == Placed(op, args)
           f == Fields(Encode(op, args))
<1>1. /\ Encode(op, args) = Word(op, value)
      /\ \A k \in 1 .. Len(Parameters(op)) : args[k] \in 0 .. Limit(Parameters(op)[k])
    BY EncodedWord
<1>2. /\ \A name \in {"rs", "rt", "rd", "sa"} : value[name] \in Index
      /\ value["imm"] \in Immediate
      /\ IF op \in DOMAIN PrimaryOpcode THEN value["rd"] = 0 /\ value["sa"] = 0
         ELSE value["imm"] = 0
    BY <1>1, PlacedFits
<1>3. /\ \A k \in 1 .. Len(Parameters(op)) : value[Parameters(op)[k]] = args[k]
      /\ \A name \in Names \ Named(op) : value[name] = 0
    BY ArgumentsPlaced
<1> HIDE DEF value
<1>4. /\ f.opcode = EncodedOpcode(op)
      /\ f.rs = value["rs"] /\ f.rt = value["rt"]
      /\ IF op \in DOMAIN PrimaryOpcode THEN f.imm = value["imm"]
         ELSE f.funct = EncodedFunction(op) /\ f.rd = value["rd"] /\ f.sa = value["sa"]
    BY <1>1, <1>2, FieldsOfEncoded
<1> HIDE DEF f
<1>5. \A name \in IF op \in DOMAIN PrimaryOpcode THEN {"rs", "rt", "imm"}
                  ELSE {"rs", "rt", "rd", "sa"} : f[name] = value[name]
    BY <1>4
<1>6. \A k \in 1 .. Len(Parameters(op)) : Parameters(op)[k] \in Named(op)
    BY DEF Named
<1>7. \A name \in {"rs", "rt", "rd", "sa"} : name \in Names
    BY DEF Names
<1>8. CASE op \in DOMAIN PrimaryOpcode
  <2>1. \A k \in 1 .. Len(Parameters(op)) : Parameters(op)[k] \in {"rs", "rt", "imm"}
      BY <1>6, <1>8, ParametersOfFormat
  <2>2. \A k \in 1 .. Len(Parameters(op)) : f[Parameters(op)[k]] = args[k]
      BY <1>3, <1>5, <1>8, <2>1
  <2>3. \A z \in {"rs"} \ Named(op) : f[z] = 0
      BY <1>3, <1>5, <1>7, <1>8
  <2> QED
      BY <1>4, <1>8, <2>2, <2>3 DEF f
<1>9. CASE op \notin DOMAIN PrimaryOpcode
  <2>1. \A k \in 1 .. Len(Parameters(op)) : Parameters(op)[k] \in {"rs", "rt", "rd", "sa"}
      BY <1>6, <1>9, ParametersOfFormat
  <2>2. \A k \in 1 .. Len(Parameters(op)) : f[Parameters(op)[k]] = args[k]
      BY <1>3, <1>5, <1>9, <2>1
  <2>3. \A z \in {"rs", "rt", "rd", "sa"} \ Named(op) : f[z] = 0
      BY <1>3, <1>5, <1>7, <1>9
  <2> QED
      BY <1>4, <1>9, <2>2, <2>3 DEF f
<1> QED
    BY <1>8, <1>9

\* What an encoder makes decodes to its own operation; the zero word, which SLL makes of
\* zeros, decodes to NOP.
LEMMA EncodedDecodes ==
    ASSUME NEW op \in Encoders, NEW args, Encode(op, args) \notin Errors
    PROVE  \/ ~IsZeroWord(Encode(op, args)) /\ Decode(Encode(op, args)) = op
           \/ IsZeroWord(Encode(op, args)) /\ Decode(Encode(op, args)) = "NOP" /\ op = "SLL"
<1> DEFINE w == Encode(op, args)
           f == Fields(w)
           unnamed == (IF op \in DOMAIN PrimaryOpcode THEN {"rs"}
                       ELSE {"rs", "rt", "rd", "sa"}) \ Named(op)
<1>1. /\ f.opcode = EncodedOpcode(op)
      /\ op \notin DOMAIN PrimaryOpcode => f.funct = EncodedFunction(op)
      /\ \A z \in unnamed : f[z] = 0
    BY EncodedFields
<1> HIDE DEF w, f
<1>2. PICK own \in DOMAIN DecodeChain : DecodeChain[own].op = op
    BY EncodersAreRows
<1>3. Matches(DecodeChain[own], f)
  <2>1. RowEncodes(DecodeChain[own])
      BY RowsAreEncoders
  <2>2. CASE op \in DOMAIN PrimaryOpcode
      BY <1>1, <1>2, <2>1, <2>2 DEF RowEncodes, Matches
  <2>3. CASE op \notin DOMAIN PrimaryOpcode
      BY <1>1, <1>2, <2>1, <2>3 DEF RowEncodes, Matches
  <2> QED
      BY <2>2, <2>3
<1>4. ASSUME NEW k \in DOMAIN DecodeChain, Matches(DecodeChain[k], f)
      PROVE  DecodeChain[k].op = op
  <2> DEFINE other == DecodeChain[k].op
  <2>1. /\ other \in Encoders /\ EncodedOpcode(other) = f.opcode
        /\ other \notin DOMAIN PrimaryOpcode => EncodedFunction(other) \in {-1, f.funct}
      BY <1>4, RowsAreEncoders DEF RowEncodes, Matches
  <2>2. EncodedFunction(other) # -1
      BY <2>1, CodesInRange
  <2> HIDE DEF other
  <2>3. CASE op \in DOMAIN PrimaryOpcode
      BY <1>1, <2>1, <2>3, CodesDistinct DEF other
  <2>4. CASE other \in DOMAIN PrimaryOpcode
      BY <1>1, <2>1, <2>4, CodesDistinct DEF other
  <2>5. CASE op \notin DOMAIN PrimaryOpcode /\ other \notin DOMAIN PrimaryOpcode
      BY <1>1, <2>1, <2>2, <2>5, CodesDistinct DEF other
  <2> QED
      BY <2>3, <2>4, <2>5
<1>5. CASE ~IsZeroWord(w)
    BY <1>3, <1>4, <1>5, DecodesByRow DEF f, w
<1>6. CASE IsZeroWord(w)
  <2>1. f.opcode = 0 /\ f.rs = 0 /\ f.funct = 0
      BY <1>6 DEF f, IsZeroWord, Fields
  <2>2. 1 \in DOMAIN DecodeChain /\ DecodeChain[1] = Special("SLL", 0, {"rs"})
      BY DEF DecodeChain
  <2>3. Matches(DecodeChain[1], f)
      BY <2>1, <2>2 DEF Matches, Special, Row
  <2>4. op = "SLL"
      BY <1>4, <2>2, <2>3 DEF Special, Row
  <2> QED
      BY <1>6, <2>4 DEF Decode, w
<1> QED
    BY <1>5, <1>6 DEF w

\* The other way round, for words of four bytes: the fields are in range, and put together
\* again they are the bytes they were cut from.
ByteValue == 0 .. 255

LEMMA TwoBytes ==
    ASSUME NEW low \in ByteValue, NEW high \in ByteValue, NEW n, n = high * 256 + low
    PROVE  n \in Immediate /\ n % 256 = low /\ n \div 256 = high
<1>1. low \in Int /\ high \in Int /\ 0 <= low /\ low <= 255 /\ 0 <= high /\ high <= 255
    BY DEF ByteValue
<1>2. n \in Nat /\ n < 65536
    BY <1>1
<1>3. n % 256 = low
    BY <1>1
<1>4. n \div 256 = high
    BY <1>1
<1> QED
    BY <1>2, <1>3, <1>4 DEF Immediate

LEMMA FieldsInRange ==
    ASSUME NEW w \in [0 .. 3 -> ByteValue]
    PROVE  /\ \A name \in {"rs", "rt", "rd", "sa"} : Fields(w)[name] \in Index
           /\ Fields(w).imm \in Immediate
<1>1. w[0] \in 0 .. 255 /\ w[1] \in 0 .. 255 /\ w[2] \in 0 .. 255 /\ w[3] \in 0 .. 255
    BY DEF ByteValue
<1>2. /\ Fields(w).rs = (w[3] % 4) * 8 + w[2] \div 32
      /\ Fields(w).rt = w[2] % 32
      /\ Fields(w).rd = w[1] \div 8
      /\ Fields(w).sa = (w[1] % 8) * 4 + w[0] \div 64
      /\ Fields(w).imm = w[1] * 256 + w[0]
    BY DEF Fields
<1>3. Fields(w).rs \in 0 .. 31
    BY <1>1, <1>2
<1>4. Fields(w).rt \in 0 .. 31
    BY <1>1, <1>2
<1>5. Fields(w).rd \in 0 .. 31
    BY <1>1, <1>2
<1>6. Fields(w).sa \in 0 .. 31
    BY <1>1, <1>2
<1>7. Fields(w).imm \in Immediate
  <2>1. w[0] \in ByteValue /\ w[1] \in ByteValue
      OBVIOUS
  <2> QED
      BY <1>2, <2>1, TwoBytes
<1> QED
    BY <1>3, <1>4, <1>5, <1>6, <1>7 DEF Index

LEMMA SameBytes ==
    ASSUME NEW w \in [0 .. 3 -> ByteValue], NEW u, u = [k \in 0 .. 3 |-> u[k]],
           u[0] = w[0], u[1] = w[1], u[2] = w[2], u[3] = w[3]
    PROVE  u = w
<1>1. \A k \in 0 .. 3 : k \in {0, 1, 2, 3}
    OBVIOUS
<1>2. \A k \in 0 .. 3 : u[k] = w[k]
    BY <1>1
<1>3. w = [k \in 0 .. 3 |-> w[k]]
    OBVIOUS
<1>4. [k \in 0 .. 3 |-> u[k]] = [k \in 0 .. 3 |-> w[k]]
    BY <1>2
<1> QED
    BY <1>3, <1>4

LEMMA RegisterWord ==
    ASSUME NEW w \in [0 .. 3 -> ByteValue], NEW op \in Encoders, NEW value,
           op \notin DOMAIN PrimaryOpcode,
           Fields(w).opcode = EncodedOpcode(op), Fields(w).funct = EncodedFunction(op),
           \A name \in {"rs", "rt", "rd", "sa"} : value[name] = Fields(w)[name],
           value["imm"] = 0
    PROVE  Word(op, value) = w
<1>1. w[0] \in 0 .. 255 /\ w[1] \in 0 .. 255 /\ w[2] \in 0 .. 255 /\ w[3] \in 0 .. 255
    BY DEF ByteValue
<1>2. /\ value["rs"] = (w[3] % 4) * 8 + w[2] \div 32
      /\ value["rt"] = w[2] % 32
      /\ value["rd"] = w[1] \div 8
      /\ value["sa"] = (w[1] % 8) * 4 + w[0] \div 64
      /\ EncodedOpcode(op) = w[3] \div 4 /\ EncodedFunction(op) = w[0] % 64
    BY DEF Fields
<1>3. 0 % 256 = 0 /\ 0 \div 256 = 0
    OBVIOUS
<1>4. value["sa"] % 4 = w[0] \div 64 /\ value["sa"] \div 4 = w[1] % 8
    BY <1>1, <1>2
<1>5. value["rs"] % 8 = w[2] \div 32 /\ value["rs"] \div 8 = w[3] % 4
    BY <1>1, <1>2
<1>6. Word(op, value)[0] = (value["sa"] % 4) * 64 + (0 % 256) + EncodedFunction(op)
    BY DEF Word, EncodedFunction
<1>7. Word(op, value)[0] = w[0]
    BY <1>1, <1>2, <1>3, <1>4, <1>6
<1>8. Word(op, value)[1] = value["rd"] * 8 + (value["sa"] \div 4) + (0 \div 256)
    BY DEF Word
<1>9. Word(op, value)[1] = w[1]
    BY <1>1, <1>2, <1>3, <1>4, <1>8
<1>10. Word(op, value)[2] = (value["rs"] % 8) * 32 + value["rt"]
    BY DEF Word
<1>11. Word(op, value)[2] = w[2]
    BY <1>1, <1>2, <1>5, <1>10
<1>12. Word(op, value)[3] = (value["rs"] \div 8) + 4 * EncodedOpcode(op)
    BY DEF Word, EncodedOpcode
<1>13. Word(op, value)[3] = w[3]
  <2>1. Word(op, value)[3] = (w[3] % 4) + 4 * (w[3] \div 4)
      BY <1>2, <1>5, <1>12
  <2>2. \A b \in 0 .. 255 : b = (b % 4) + 4 * (b \div 4)
      OBVIOUS
  <2> QED
      BY <1>1, <2>1, <2>2
<1>14. Word(op, value) = [k \in 0 .. 3 |-> Word(op, value)[k]]
    BY DEF Word
<1> QED
    BY <1>7, <1>9, <1>11, <1>13, <1>14, SameBytes

LEMMA ImmediateWord ==
    ASSUME NEW w \in [0 .. 3 -> ByteValue], NEW op \in DOMAIN PrimaryOpcode, NEW value,
           Fields(w).opcode = EncodedOpcode(op),
           value["rs"] = Fields(w).rs, value["rt"] = Fields(w).rt,
           value["imm"] = Fields(w).imm, value["rd"] = 0, value["sa"] = 0
    PROVE  Word(op, value) = w
<1>1. w[0] \in 0 .. 255 /\ w[1] \in 0 .. 255 /\ w[2] \in 0 .. 255 /\ w[3] \in 0 .. 255
    BY DEF ByteValue
<1>2. /\ value["rs"] = (w[3] % 4) * 8 + w[2] \div 32
      /\ value["rt"] = w[2] % 32
      /\ value["imm"] = w[1] * 256 + w[0]
      /\ EncodedOpcode(op) = w[3] \div 4
    BY DEF Fields
<1>3. EncodedFunction(op) = 0
    BY CodesInRange DEF Encoders
<1>4. value["imm"] % 256 = w[0] /\ value["imm"] \div 256 = w[1]
  <2>1. w[0] \in ByteValue /\ w[1] \in ByteValue
      OBVIOUS
  <2> QED
      BY <1>2, <2>1, TwoBytes
<1>5. value["rs"] % 8 = w[2] \div 32 /\ value["rs"] \div 8 = w[3] % 4
    BY <1>1, <1>2
<1>6. Word(op, value)[0] = (0 % 4) * 64 + (value["imm"] % 256) + EncodedFunction(op)
    BY DEF Word, EncodedFunction
<1>7. Word(op, value)[0] = w[0]
    BY <1>1, <1>3, <1>4, <1>6
<1>8. Word(op, value)[1] = 0 * 8 + (0 \div 4) + (value["imm"] \div 256)
    BY DEF Word
<1>9. Word(op, value)[1] = w[1]
    BY <1>1, <1>4, <1>8
<1>10. Word(op, value)[2] = (value["rs"] % 8) * 32 + value["rt"]
    BY DEF Word
<1>11. Word(op, value)[2] = w[2]
    BY <1>1, <1>2, <1>5, <1>10
<1>12. Word(op, value)[3] = (value["rs"] \div 8) + 4 * EncodedOpcode(op)
    BY DEF Word, EncodedOpcode
<1>13. Word(op, value)[3] = w[3]
  <2>1. Word(op, value)[3] = (w[3] % 4) + 4 * (w[3] \div 4)
      BY <1>2, <1>5, <1>12
  <2>2. \A b \in 0 .. 255 : b = (b % 4) + 4 * (b \div 4)
      OBVIOUS
  <2> QED
      BY <1>1, <2>1, <2>2
<1>14. Word(op, value) = [k \in 0 .. 3 |-> Word(op, value)[k]]
    BY DEF Word
<1> QED
    BY <1>7, <1>9, <1>11, <1>13, <1>14, SameBytes

\* A legal word is what the encoder of its operation makes of the word's own fields.
LEMMA DecodedEncodes ==
    ASSUME NEW w \in [0 .. 3 -> ByteValue], NEW op, Decode(w) # "NONE",
           op = IF Decode(w) = "NOP" THEN "SLL" ELSE Decode(w)
    PROVE  op \in Encoders /\ Encode(op, Arguments(op, w)) = w
<1> DEFINE f == Fields(w)
           args == Arguments(op, w)
           value == Placed(op, args)
<1>1. PICK k \in DOMAIN DecodeChain : Matches(DecodeChain[k], f) /\ DecodeChain[k].op = op
  <2>1. CASE IsZeroWord(w)
    <3>1. op = "SLL"
        BY <2>1 DEF Decode
    <3>2. f.opcode = 0 /\ f.rs = 0 /\ f.funct = 0
        BY <2>1 DEF f, IsZeroWord, Fields
    <3>3. 1 \in DOMAIN DecodeChain /\ DecodeChain[1] = Special("SLL", 0, {"rs"})
        BY DEF DecodeChain
    <3> HIDE DEF f
    <3>4. Matches(DecodeChain[1], f) /\ DecodeChain[1].op = "SLL"
        BY <3>2, <3>3 DEF Matches, Special, Row
    <3> QED
        BY <3>1, <3>3, <3>4
  <2>2. CASE ~IsZeroWord(w)
    <3>1. PICK k \in DOMAIN DecodeChain : Matches(DecodeChain[k], f) /\ Decode(w) = DecodeChain[k].op
        BY <2>2, DecodesByRow
    <3>2. DecodeChain[k].op # "NOP"
      <4>1. "NOP" \notin Encoders
          BY DEF Encoders, SpecialFunction, MmiFunction, PrimaryOpcode
      <4> QED
          BY <4>1, RowsAreEncoders DEF RowEncodes
    <3> QED
        BY <3>1, <3>2
  <2> QED
      BY <2>1, <2>2
<1>2. RowEncodes(DecodeChain[k])
    BY RowsAreEncoders
<1>3. op \in Encoders /\ f.opcode = EncodedOpcode(op)
    BY <1>1, <1>2 DEF RowEncodes, Matches
<1>4. /\ \A name \in {"rs", "rt", "rd", "sa"} : f[name] \in Index
      /\ f.imm \in Immediate
    BY FieldsInRange
<1> HIDE DEF f
<1>5. \A j \in 1 .. Len(Parameters(op)) :
          /\ Parameters(op)[j] \in Names \cap Named(op)
          /\ args[j] = f[Parameters(op)[j]]
          /\ value[Parameters(op)[j]] = args[j]
    BY <1>3, ArgumentsPlaced DEF Named, Arguments, f
<1> HIDE DEF args, value
<1>6. \A name \in Named(op) : value[name] = f[name]
    BY <1>5 DEF Named
<1>7. \A name \in Names \ Named(op) : value[name] = 0
    BY <1>3, ArgumentsPlaced DEF value
<1>8. Encode(op, args) = Word(op, value)
  <2>1. ASSUME NEW name \in Names
        PROVE  f[name] \in 0 .. Limit(name)
    <3>1. CASE name = "imm"
      <4>1. Limit(name) \in Nat /\ \A n \in Immediate : n \in Nat /\ n <= Limit(name)
          BY <3>1 DEF Limit, Immediate
      <4>2. f[name] \in Nat /\ f[name] <= Limit(name)
          BY <1>4, <3>1, <4>1
      <4> QED
          BY <4>1, <4>2
    <3>2. CASE name # "imm"
        BY <1>4, <2>1, <3>2 DEF Names, Limit, Index
    <3> QED
        BY <3>1, <3>2
  <2>2. {j \in 1 .. Len(Parameters(op)) : args[j] \notin 0 .. Limit(Parameters(op)[j])} = {}
      BY <1>5, <2>1
  <2> QED
      BY <2>2 DEF Encode, Placed, Names, value
<1>9. CASE op \in DOMAIN PrimaryOpcode
  <2>1. {"rt", "imm"} \subseteq Named(op) /\ Named(op) \subseteq {"rs", "rt", "imm"}
      BY <1>3, <1>9, ParametersOfFormat
  <2>2. "rs" \notin Named(op) => f.rs = 0
      BY <1>1, <1>2, <1>9 DEF RowEncodes, Matches
  <2>3. value["rs"] = f.rs
      BY <1>6, <1>7, <2>2 DEF Names
  <2>4. value["rt"] = f.rt /\ value["imm"] = f.imm
      BY <1>6, <2>1
  <2>5. value["rd"] = 0 /\ value["sa"] = 0
      BY <1>7, <2>1 DEF Names
  <2> QED
      BY <1>3, <1>8, <1>9, <2>3, <2>4, <2>5, ImmediateWord DEF f, args
<1>10. CASE op \notin DOMAIN PrimaryOpcode
  <2>1. Named(op) \subseteq {"rs", "rt", "rd", "sa"}
      BY <1>3, <1>10, ParametersOfFormat
  <2>2. f.funct = EncodedFunction(op)
    <3>1. EncodedFunction(op) # -1
        BY <1>3, CodesInRange
    <3> QED
        BY <1>1, <1>2, <1>10, <3>1 DEF RowEncodes, Matches
  <2>3. \A name \in {"rs", "rt", "rd", "sa"} \ Named(op) : f[name] = 0
      BY <1>1, <1>2, <1>10 DEF RowEncodes, Matches
  <2>4. \A name \in {"rs", "rt", "rd", "sa"} : value[name] = f[name]
      BY <1>6, <1>7, <2>3 DEF Names
  <2>5. value["imm"] = 0
      BY <1>7, <2>1 DEF Names
  <2> QED
      BY <1>3, <1>8, <1>10, <2>2, <2>4, <2>5, RegisterWord DEF f, args
<1> QED
    BY <1>3, <1>9, <1>10 DEF args

-----------------------------------------------------------------------------
(* Every program, every argument. *)

\* A word that an encoder makes is taken by both decoders for its operation with these
\* operands, whatever the arguments are (reference/ee/r5900.py:104-463).
THEOREM EncodedWordsDecode ==
    ASSUME NEW op \in Encoders, NEW args, Encode(op, args) \notin Errors,
           args = [k \in 1 .. Len(Parameters(op)) |-> args[k]]
    PROVE  LET w == Encode(op, args)
           IN  /\ (IF Decode(w) = "NOP" THEN "SLL" ELSE Decode(w)) = op
               /\ Arguments(op, w) = args
               /\ \A st : ReferenceStep(st, w) # {}
<1> DEFINE w == Encode(op, args)
<1>1. \/ Decode(w) = op
      \/ Decode(w) = "NOP" /\ op = "SLL"
    BY EncodedDecodes
<1>2. "NOP" \notin Encoders /\ "NONE" \notin Encoders
    BY DEF Encoders, SpecialFunction, MmiFunction, PrimaryOpcode
<1>3. \A k \in 1 .. Len(Parameters(op)) : Fields(w)[Parameters(op)[k]] = args[k]
    BY EncodedFields
<1> HIDE DEF w
<1>4. Arguments(op, w) = args
    BY <1>3 DEF Arguments
<1>5. \A st : ReferenceStep(st, w) # {}
    BY <1>1, <1>2, ModelSupportsWhatDecodes
<1> QED
    BY <1>1, <1>2, <1>4, <1>5 DEF w

\* Memory holds bytes and the instruction register a word of four.
WordInv ==
    /\ mem \in [Address -> ByteValue]
    /\ ir = NoWord \/ ir \in [0 .. 3 -> ByteValue]

LEMMA StoreBytes ==
    ASSUME mem \in [Address -> ByteValue], Store
    PROVE  mem' \in [Address -> ByteValue]
    BY BytesAssumption DEF Store, ByteValue

THEOREM WordInvariant == LockstepSpec => []WordInv
<1>1. LockstepInit => WordInv
    BY BytesAssumption DEF LockstepInit, Init, WordInv, ByteValue
<1>2. WordInv /\ [LockstepNext]_<<vars, model>> => WordInv'
  <2> SUFFICES ASSUME WordInv, [LockstepNext]_<<vars, model>> PROVE WordInv'
      OBVIOUS
  <2>1. CASE FetchWord
    <3>1. /\ \A k \in 0 .. 3 : pc + k \in Address
          /\ ir' = [k \in 0 .. 3 |-> mem[pc + k]]
          /\ Store
        BY <2>1 DEF FetchWord, Fetch
    <3>2. \A k \in 0 .. 3 : mem[pc + k] \in ByteValue
        BY <3>1 DEF WordInv
    <3>3. mem' \in [Address -> ByteValue]
        BY <3>1, StoreBytes DEF WordInv
    <3> QED
        BY <3>1, <3>2, <3>3 DEF WordInv
  <2>2. CASE Execution
    <3>1. ir' = NoWord /\ Store
        BY <2>2 DEF Execution, Step
    <3> QED
        BY <3>1, StoreBytes DEF WordInv
  <2>3. CASE Hang \/ UNCHANGED <<vars, model>>
      BY <2>3 DEF Hang, vars, WordInv
  <2> QED
      BY <2>1, <2>2, <2>3 DEF LockstepNext
<1> QED
    BY <1>1, <1>2, PTL DEF LockstepSpec

\* The encoders invert the decoder, for every word of every program and every argument
\* the property tries.
THEOREM EncodersInvert == LockstepSpec => []EncodersInvertDecoder
<1>1. WordInv => EncodersInvertDecoder
  <2> SUFFICES ASSUME WordInv, ir # NoWord PROVE EncodersInvertDecoder
      BY DEF EncodersInvertDecoder
  <2> DEFINE encoder(w) == IF Decode(w) = "NOP" THEN "SLL" ELSE Decode(w)
             shaped(op, args) == args = [k \in 1 .. Len(Parameters(op)) |-> args[k]]
             sound(op, args) ==
                 LET w == Encode(op, args)
                 IN  w \notin Errors => /\ encoder(w) = op
                                        /\ Arguments(op, w) = args
                                        /\ ReferenceStep(model, w) # {}
             same(op) == Arguments(op, ir)
             top(op) == [k \in DOMAIN same(op) |-> Limit(Parameters(op)[k]) - same(op)[k]]
             past(op) == [k \in DOMAIN same(op) |->
                             IF same(op)[k] = 0 THEN Limit(Parameters(op)[k]) + 1 ELSE same(op)[k]]
  <2>1. Decode(ir) # "NONE" => Encode(encoder(ir), Arguments(encoder(ir), ir)) = ir
      BY DecodedEncodes DEF WordInv
  <2>2. ASSUME NEW op \in Encoders, NEW args, shaped(op, args)
        PROVE  sound(op, args)
      BY <2>2, EncodedWordsDecode
  <2>3. ASSUME NEW op \in Encoders, NEW args \in {same(op), top(op), past(op)}
        PROVE  shaped(op, args)
    <3>1. same(op) = [k \in 1 .. Len(Parameters(op)) |-> Fields(ir)[Parameters(op)[k]]]
        BY DEF Arguments
    <3> HIDE DEF same
    <3>2. DOMAIN same(op) = 1 .. Len(Parameters(op))
        BY <3>1
    <3>3. CASE args = same(op)
        BY <3>1, <3>3
    <3>4. CASE args = top(op)
        BY <3>2, <3>4
    <3>5. CASE args = past(op)
        BY <3>2, <3>5
    <3> QED
        BY <3>3, <3>4, <3>5
  <2>4. \A op \in Encoders : \A args \in {same(op), top(op), past(op)} : sound(op, args)
      BY <2>2, <2>3
  <2> HIDE DEF shaped
  <2> QED
      BY <2>1, <2>4 DEF EncodersInvertDecoder
<1> QED
    BY <1>1, WordInvariant, PTL

-----------------------------------------------------------------------------
(* The results of the two.  Both write a register, or a pair of HI/LO registers, or both: *)
(* that is an Outcome, and each operation has the same one on either side.               *)

\* A state of the reference model whose registers are in their widths.
StateShaped(st) ==
    /\ st = [gprs |-> st.gprs, pc |-> st.pc,
             hi |-> st.hi, lo |-> st.lo, hi1 |-> st.hi1, lo1 |-> st.lo1]
    /\ st.gprs = [r \in Index |-> [lo |-> st.gprs[r].lo, up |-> st.gprs[r].up]]
    /\ \A r \in Index : st.gprs[r].lo \in Scalar
    /\ st.hi \in Scalar /\ st.lo \in Scalar /\ st.hi1 \in Scalar /\ st.lo1 \in Scalar

NoPairs == [n \in {} |-> 0]

\* st with v in the low lane of register d, unless that is register zero, and with the
\* HI/LO registers of pairs.
Outcome(st, d, v, pairs) ==
    LET paired(n) == IF n \in DOMAIN pairs THEN pairs[n] ELSE st[n]
    IN  [gprs |-> [r \in Index |-> IF r = d /\ d # 0
                                   THEN [lo |-> v, up |-> st.gprs[r].up] ELSE st.gprs[r]],
         pc |-> st.pc,
         hi |-> paired("hi"), lo |-> paired("lo"),
         hi1 |-> paired("hi1"), lo1 |-> paired("lo1")]

\* Writing a scalar reduces it to the lane, and writing a word extends its sign over it.
LEMMA ScalarWritten ==
    ASSUME NEW st, StateShaped(st), NEW d \in Index, NEW x
    PROVE  WriteScalar(st, d, x) = Outcome(st, d, x % DOUBLE, NoPairs)
<1> DEFINE v == x % DOUBLE
           gprs == [r \in Index |-> IF r = d /\ d # 0
                                    THEN [lo |-> v, up |-> st.gprs[r].up] ELSE st.gprs[r]]
<1>1. Outcome(st, d, v, NoPairs) =
          [gprs |-> gprs, pc |-> st.pc, hi |-> st.hi, lo |-> st.lo, hi1 |-> st.hi1, lo1 |-> st.lo1]
    BY DEF Outcome, NoPairs
<1>2. MergeScalar(st.gprs[d], x) = [lo |-> v, up |-> st.gprs[d].up]
  <2>1. st.gprs[d] = [lo |-> st.gprs[d].lo, up |-> st.gprs[d].up]
      BY DEF StateShaped
  <2> QED
      BY <2>1 DEF MergeScalar
<1>3. st.gprs = [r \in Index |-> st.gprs[r]]
    BY DEF StateShaped
<1>4. CASE d = 0
  <2>1. gprs = st.gprs
      BY <1>3, <1>4
  <2>2. WriteScalar(st, d, x) = st
      BY <1>4 DEF WriteScalar, WriteGpr
  <2> QED
      BY <1>1, <2>1, <2>2 DEF StateShaped
<1>5. CASE d # 0
  <2>1. WriteScalar(st, d, x) = [st EXCEPT !.gprs[d] = [lo |-> v, up |-> st.gprs[d].up]]
      BY <1>2, <1>5 DEF WriteScalar, WriteGpr
  <2>2. [st.gprs EXCEPT ![d] = [lo |-> v, up |-> st.gprs[d].up]] = gprs
      BY <1>3, <1>5
  <2>3. WriteScalar(st, d, x) = [st EXCEPT !.gprs = gprs]
      BY <2>1, <2>2
  <2> HIDE DEF gprs
  <2> QED
      BY <1>1, <2>3 DEF StateShaped
<1> QED
    BY <1>4, <1>5

LEMMA WordWritten ==
    ASSUME NEW st, StateShaped(st), NEW d \in Index, NEW x \in Int
    PROVE  WriteWord(st, d, x) = Outcome(st, d, SignExtend(x), NoPairs)
<1> DEFINE w == x % WORD
           e == IF w >= WORD \div 2 THEN w + (DOUBLE - WORD) ELSE w
<1>1. WriteWord(st, d, x) = WriteScalar(st, d, e)
    BY DEF WriteWord, MergeScalarWord, WriteScalar
<1>2. e % DOUBLE = SignExtend(x)
  <2>1. /\ w \in Int /\ WORD \in Nat /\ DOUBLE \in Nat /\ DOUBLE >= 1
        /\ SignedWord(x) = IF w >= WORD \div 2 THEN w - WORD ELSE w
    <3>1. WORD \in Nat /\ WORD >= 1 /\ DOUBLE \in Nat /\ DOUBLE >= 1
        BY Widths
    <3> QED
        BY <3>1, Divides DEF SignedWord
  <2> HIDE DEF w
  <2>2. CASE w >= WORD \div 2
    <3> DEFINE a == w - WORD
               c == w + (DOUBLE - WORD)
    <3>1. a \in Int /\ c = a + DOUBLE
        BY <2>1
    <3>2. SignedWord(x) = a /\ e = c
        BY <2>1, <2>2 DEF w
    <3> HIDE DEF a, c, e
    <3>3. c % DOUBLE = a % DOUBLE
        BY <3>1, LaneWraps
    <3> QED
        BY <3>2, <3>3 DEF SignExtend
  <2>3. CASE ~(w >= WORD \div 2)
      BY <2>1, <2>3 DEF SignExtend
  <2> QED
      BY <2>2, <2>3
<1> QED
    BY <1>1, <1>2, ScalarWritten

\* Where the dispatch of the reference model leads, from the fields it looks at.
LEMMA DispatchByFields ==
    ASSUME NEW st, NEW w, ~IsZeroWord(w), NEW f, f = Fields(w)
    PROVE  /\ f.opcode = 0 /\ f.rs = 0 /\ f.funct \in {0, 2, 3}
                => Dispatch(st, w) = {StepImmediateShift(st, f)}
           /\ f.opcode = 0 /\ f.rs = 0 /\ f.funct \in {56, 58, 59, 60, 62, 63}
                => Dispatch(st, w) = {StepImmediateDoublewordShift(st, f)}
           /\ f.opcode = 0 /\ f.sa = 0 /\ f.funct \in {4, 6, 7, 20, 22, 23}
                => Dispatch(st, w) = {StepVariableShift(st, f)}
           /\ f.opcode = 0 /\ f.sa = 0 /\ f.funct \in {33, 45, 35, 47, 36, 37, 38, 39, 42, 43}
                => Dispatch(st, w) = {StepRegisterAlu(st, f)}
           /\ f.opcode \in {0, 28} /\ f.sa = 0 /\ f.funct \in {24, 25}
                => Dispatch(st, w) = {StepMultiply(st, f, Product_(st, f))}
           /\ f.opcode \in {0, 28} /\ f.rd = 0 /\ f.sa = 0 /\ f.funct \in {26, 27}
                => Dispatch(st, w) = {StepDivide(st, f)}
           /\ f.opcode = 0 /\ f.rs = 0 /\ f.rt = 0 /\ f.sa = 0 /\ f.funct \in {16, 18}
                => Dispatch(st, w) = {StepHiLoTransfer(st, f)}
           /\ f.opcode = 0 /\ f.rt = 0 /\ f.rd = 0 /\ f.sa = 0 /\ f.funct \in {17, 19}
                => Dispatch(st, w) = {StepHiLoTransfer(st, f)}
           /\ f.opcode = 28 /\ f.rs = 0 /\ f.rt = 0 /\ f.sa = 0 /\ f.funct = 16
                => Dispatch(st, w) = {WriteScalar(st, f.rd, st.hi1)}
           /\ f.opcode \in {12, 13, 14} => Dispatch(st, w) = {StepLogicalImmediate(st, f)}
           /\ f.opcode = 15 /\ f.rs = 0 => Dispatch(st, w) = {StepLui(st, f)}
           /\ f.opcode \in {9, 10, 11, 25}
                => Dispatch(st, w) = {StepSignedImmediateGroup(st, f)}
<1>1. f.opcode = 0 => Dispatch(st, w) = StepSpecial(st, f)
    BY DEF Dispatch
<1>2. f.opcode = 28 => Dispatch(st, w) = StepMmi(st, f)
    BY DEF Dispatch
<1>3. /\ f.opcode \in {12, 13, 14} => Dispatch(st, w) = {StepLogicalImmediate(st, f)}
      /\ f.opcode = 15 /\ f.rs = 0 => Dispatch(st, w) = {StepLui(st, f)}
      /\ f.opcode \in {9, 10, 11, 25} => Dispatch(st, w) = {StepSignedImmediateGroup(st, f)}
    BY DEF Dispatch
<1>4. /\ f.rs = 0 /\ f.funct \in {0, 2, 3}
           => StepSpecial(st, f) = {StepImmediateShift(st, f)}
      /\ f.rs = 0 /\ f.funct \in {56, 58, 59, 60, 62, 63}
           => StepSpecial(st, f) = {StepImmediateDoublewordShift(st, f)}
      /\ f.sa = 0 /\ f.funct \in {4, 6, 7, 20, 22, 23}
           => StepSpecial(st, f) = {StepVariableShift(st, f)}
      /\ f.sa = 0 /\ f.funct \in {33, 45, 35, 47, 36, 37, 38, 39, 42, 43}
           => StepSpecial(st, f) = {StepRegisterAlu(st, f)}
    BY DEF StepSpecial
<1>5. /\ f.sa = 0 /\ f.funct \in {24, 25}
           => StepSpecial(st, f) = {StepMultiply(st, f, Product_(st, f))}
      /\ f.rd = 0 /\ f.sa = 0 /\ f.funct \in {26, 27}
           => StepSpecial(st, f) = {StepDivide(st, f)}
      /\ f.rs = 0 /\ f.rt = 0 /\ f.sa = 0 /\ f.funct \in {16, 18}
           => StepSpecial(st, f) = {StepHiLoTransfer(st, f)}
      /\ f.rt = 0 /\ f.rd = 0 /\ f.sa = 0 /\ f.funct \in {17, 19}
           => StepSpecial(st, f) = {StepHiLoTransfer(st, f)}
    BY DEF StepSpecial
<1>6. /\ f.sa = 0 /\ f.funct \in {24, 25}
           => StepMmi(st, f) = {StepMultiply(st, f, Product_(st, f))}
      /\ f.rd = 0 /\ f.sa = 0 /\ f.funct \in {26, 27}
           => StepMmi(st, f) = {StepDivide(st, f)}
      /\ f.rs = 0 /\ f.rt = 0 /\ f.sa = 0 /\ f.funct = 16
           => StepMmi(st, f) = {WriteScalar(st, f.rd, st.hi1)}
    BY DEF StepMmi
<1> QED
    BY <1>1, <1>2, <1>3, <1>4, <1>5, <1>6

\* What the execute block has checked of the encoding.
LEMMA AcceptedEncoding ==
    ASSUME NEW op, NEW w, ExecuteAccepts(op, w), NEW f, f = Fields(w)
    PROVE  /\ op \in DOMAIN ShiftFunct =>
                  f.opcode = 0 /\ f.rs = 0 /\ f.funct = ShiftFunct[op]
           /\ op \in DOMAIN RegisterFunct =>
                  f.opcode = 0 /\ f.sa = 0 /\ f.funct = RegisterFunct[op]
           /\ op \in DOMAIN ImmediateOpcode =>
                  f.opcode = ImmediateOpcode[op] /\ (op = "LUI" => f.rs = 0)
           /\ op = "MULT1" => f.opcode = 28 /\ f.sa = 0 /\ f.funct = 24
           /\ op = "MULTU1" => f.opcode = 28 /\ f.sa = 0 /\ f.funct = 25
           /\ op = "DIV" => f.opcode = 0 /\ f.rd = 0 /\ f.sa = 0 /\ f.funct = 26
           /\ op = "DIVU" => f.opcode = 0 /\ f.rd = 0 /\ f.sa = 0 /\ f.funct = 27
           /\ op = "DIV1" => f.opcode = 28 /\ f.rd = 0 /\ f.sa = 0 /\ f.funct = 26
           /\ op = "DIVU1" => f.opcode = 28 /\ f.rd = 0 /\ f.sa = 0 /\ f.funct = 27
           /\ op = "MFHI" => f.opcode = 0 /\ f.rs = 0 /\ f.rt = 0 /\ f.sa = 0 /\ f.funct = 16
           /\ op = "MFLO" => f.opcode = 0 /\ f.rs = 0 /\ f.rt = 0 /\ f.sa = 0 /\ f.funct = 18
           /\ op = "MTHI" => f.opcode = 0 /\ f.rt = 0 /\ f.rd = 0 /\ f.sa = 0 /\ f.funct = 17
           /\ op = "MTLO" => f.opcode = 0 /\ f.rt = 0 /\ f.rd = 0 /\ f.sa = 0 /\ f.funct = 19
           /\ op = "MFHI1" => f.opcode = 28 /\ f.rs = 0 /\ f.rt = 0 /\ f.sa = 0 /\ f.funct = 16
<1> USE DEF ExecuteAccepts, ShiftFunct, RegisterFunct, ImmediateOpcode
<1>1. op \in DOMAIN ShiftFunct => f.opcode = 0 /\ f.rs = 0 /\ f.funct = ShiftFunct[op]
    OBVIOUS
<1>2. op \in DOMAIN RegisterFunct => f.opcode = 0 /\ f.sa = 0 /\ f.funct = RegisterFunct[op]
    OBVIOUS
<1>3. op \in DOMAIN ImmediateOpcode =>
          f.opcode = ImmediateOpcode[op] /\ (op = "LUI" => f.rs = 0)
    OBVIOUS
<1>4. /\ op = "MULT1" => f.opcode = 28 /\ f.sa = 0 /\ f.funct = 24
      /\ op = "MULTU1" => f.opcode = 28 /\ f.sa = 0 /\ f.funct = 25
    OBVIOUS
<1>5. /\ op = "DIV" => f.opcode = 0 /\ f.rd = 0 /\ f.sa = 0 /\ f.funct = 26
      /\ op = "DIVU" => f.opcode = 0 /\ f.rd = 0 /\ f.sa = 0 /\ f.funct = 27
      /\ op = "DIV1" => f.opcode = 28 /\ f.rd = 0 /\ f.sa = 0 /\ f.funct = 26
      /\ op = "DIVU1" => f.opcode = 28 /\ f.rd = 0 /\ f.sa = 0 /\ f.funct = 27
    OBVIOUS
<1>6. /\ op = "MFHI" => f.opcode = 0 /\ f.rs = 0 /\ f.rt = 0 /\ f.sa = 0 /\ f.funct = 16
      /\ op = "MFLO" => f.opcode = 0 /\ f.rs = 0 /\ f.rt = 0 /\ f.sa = 0 /\ f.funct = 18
      /\ op = "MTHI" => f.opcode = 0 /\ f.rt = 0 /\ f.rd = 0 /\ f.sa = 0 /\ f.funct = 17
      /\ op = "MTLO" => f.opcode = 0 /\ f.rt = 0 /\ f.rd = 0 /\ f.sa = 0 /\ f.funct = 19
      /\ op = "MFHI1" => f.opcode = 28 /\ f.rs = 0 /\ f.rt = 0 /\ f.sa = 0 /\ f.funct = 16
    OBVIOUS
<1> HIDE DEF ExecuteAccepts, ShiftFunct, RegisterFunct, ImmediateOpcode
<1> QED
    BY <1>1, <1>2, <1>3, <1>4, <1>5, <1>6

\* What the execute block makes of a state.
RtlOutcome(st, op, w, hl) ==
    LET f == Fields(w)
        e == Execute(op, w, st.gprs[f.rs].lo, st.gprs[f.rt].lo, hl)
    IN  Outcome(st, e.destination, e.scalar, e.hilo)

\* An instruction that executes: its word is not the zero word, whose operation is "NOP".
Running(st, w, op, hl) ==
    /\ StateShaped(st)
    /\ w \in [0 .. 3 -> ByteValue]
    /\ ~IsZeroWord(w)
    /\ ExecuteAccepts(op, w)
    /\ hl \in [HiLo -> Scalar]
    /\ \A n \in HiLo : hl[n] = st[n]

\* Both sides make the same of it.
Agree(st, w, op, hl) == Dispatch(st, w) = {RtlOutcome(st, op, w, hl)}

\* The operations with one result, a scalar.
Commits == DOMAIN ShiftFunct \cup DOMAIN ImmediateOpcode \cup MoveFrom
                \cup (DOMAIN RegisterFunct \ Multiply)

\* Their operands are scalars and their registers exist.
LEMMA RunningTyped ==
    ASSUME NEW st, NEW w, NEW op, NEW hl, Running(st, w, op, hl),
           NEW f, f = Fields(w)
    PROVE  /\ f.rs \in Index /\ f.rt \in Index /\ f.rd \in Index /\ f.sa \in 0 .. 31
           /\ f.imm \in Nat
           /\ st.gprs[f.rs].lo \in Scalar /\ st.gprs[f.rt].lo \in Scalar
           /\ st.gprs[f.rs].lo \in Nat /\ st.gprs[f.rt].lo \in Nat
           /\ st.gprs[f.rs].lo < DOUBLE /\ st.gprs[f.rt].lo < DOUBLE
           /\ StateShaped(st)
<1>1. /\ f.rs \in Index /\ f.rt \in Index /\ f.rd \in Index /\ f.sa \in 0 .. 31
      /\ f.imm \in Nat
    BY FieldRanges DEF Running, ByteValue, Index
<1>2. st.gprs[f.rs].lo \in Scalar /\ st.gprs[f.rt].lo \in Scalar
    BY <1>1 DEF Running, StateShaped
<1> QED
    BY <1>1, <1>2, ScalarRemainder DEF Running

\* What such an operation makes of a state is its result in its destination.
LEMMA CommitOutcome ==
    ASSUME NEW st, NEW w, NEW op \in Commits, NEW hl, Running(st, w, op, hl),
           NEW f, f = Fields(w)
    PROVE  RtlOutcome(st, op, w, hl) =
             Outcome(st, WritebackDestination(op, w),
                     ScalarResult(op, f, st.gprs[f.rs].lo, st.gprs[f.rt].lo, hl), NoPairs)
<1>1. WritebackCommit(op, w)
    BY DEF WritebackCommit, Commits
<1>2. op \notin Multiply \cup Divide \cup {"MTHI", "MTLO"}
    BY DEF Commits, ShiftFunct, ImmediateOpcode, MoveFrom, RegisterFunct, Multiply, Divide
<1>3. \A s, t : HiLoWrites(op, s, t) = NoPairs
    BY <1>2 DEF HiLoWrites, NoPairs, Multiply, Divide
<1> QED
    BY <1>1, <1>3 DEF RtlOutcome, Execute, Running

\* So the two agree when the model writes the same value, as a word or as a scalar.
LEMMA AgreeOnWord ==
    ASSUME NEW st, NEW w, NEW op \in Commits, NEW hl, Running(st, w, op, hl),
           NEW f, f = Fields(w), NEW d, NEW x \in Int,
           d = WritebackDestination(op, w),
           Dispatch(st, w) = {WriteWord(st, d, x)},
           ScalarResult(op, f, st.gprs[f.rs].lo, st.gprs[f.rt].lo, hl) = SignExtend(x)
    PROVE  Agree(st, w, op, hl)
<1>1. d \in Index /\ StateShaped(st)
    BY RunningTyped DEF WritebackDestination
<1>2. WriteWord(st, d, x) = Outcome(st, d, SignExtend(x), NoPairs)
    BY <1>1, WordWritten
<1>3. RtlOutcome(st, op, w, hl) =
          Outcome(st, d, ScalarResult(op, f, st.gprs[f.rs].lo, st.gprs[f.rt].lo, hl), NoPairs)
    BY CommitOutcome
<1> QED
    BY <1>2, <1>3 DEF Agree

LEMMA AgreeOnScalar ==
    ASSUME NEW st, NEW w, NEW op \in Commits, NEW hl, Running(st, w, op, hl),
           NEW f, f = Fields(w), NEW d, NEW x,
           d = WritebackDestination(op, w),
           Dispatch(st, w) = {WriteScalar(st, d, x)},
           ScalarResult(op, f, st.gprs[f.rs].lo, st.gprs[f.rt].lo, hl) = x % DOUBLE
    PROVE  Agree(st, w, op, hl)
<1>1. d \in Index /\ StateShaped(st)
    BY RunningTyped DEF WritebackDestination
<1>2. WriteScalar(st, d, x) = Outcome(st, d, x % DOUBLE, NoPairs)
    BY <1>1, ScalarWritten
<1>3. RtlOutcome(st, op, w, hl) =
          Outcome(st, d, ScalarResult(op, f, st.gprs[f.rs].lo, st.gprs[f.rt].lo, hl), NoPairs)
    BY CommitOutcome
<1> QED
    BY <1>2, <1>3 DEF Agree

\* Numbers that the operations compute with.
LEMMA OperandNumbers ==
    ASSUME NEW x \in Scalar
    PROVE  /\ x \in Nat /\ x < DOUBLE
           /\ x % WORD \in Nat /\ SignedWord(x) \in Int /\ SignedScalar(x) \in Int
           /\ AsSignedWord(x % WORD) = SignedWord(x)
           /\ AsSignedWord(x) = SignedWord(x)
           /\ AsSignedScalar(x) = SignedScalar(x)
<1>1. x \in Nat /\ x < DOUBLE
    BY ScalarRemainder
<1>2. WORD \in Nat /\ WORD >= 1
    BY Widths
<1>3. x % WORD \in Nat
    BY <1>1, <1>2, Divides
<1>4. SignedWord(x) \in Int /\ SignedScalar(x) \in Int /\ SignedWord(x % WORD) = SignedWord(x)
    BY <1>1, SignedRange, SignedOfWord
<1>5. \A n : AsSignedWord(n) = SignedWord(n) /\ AsSignedScalar(n) = SignedScalar(n)
    BY DEF AsSignedWord, SignedWord, AsSignedScalar, SignedScalar
<1> QED
    BY <1>1, <1>3, <1>4, <1>5

\* Shifting a number by an amount.
LEMMA Shifted ==
    ASSUME NEW n \in Nat
    PROVE  /\ \A x \in Int : x * Pow2[n] \in Int /\ x \div Pow2[n] \in Int
           /\ \A x \in Scalar : (x \div Pow2[n]) % DOUBLE = x \div Pow2[n]
<1>1. Pow2[n] \in Nat /\ Pow2[n] >= 1
    BY PowerOfTwo
<1>2. ASSUME NEW x \in Int PROVE x * Pow2[n] \in Int /\ x \div Pow2[n] \in Int
    BY <1>1, Divides
<1>3. ASSUME NEW x \in Scalar PROVE (x \div Pow2[n]) % DOUBLE = x \div Pow2[n]
  <2> DEFINE q == x \div Pow2[n]
  <2>1. x \in Nat /\ x < DOUBLE /\ DOUBLE \in Nat
      BY ScalarRemainder, Widths
  <2>2. q \in Nat /\ q <= x
      BY <1>1, <2>1, QuotientShrinks
  <2> HIDE DEF q
  <2>3. q \in Scalar
      BY <2>1, <2>2 DEF Scalar
  <2>4. q % DOUBLE = q
      BY <2>3, ScalarRemainder
  <2> QED
      BY <2>4 DEF q
<1> QED
    BY <1>2, <1>3

LEMMA Amounts ==
    ASSUME NEW n \in Nat
    PROVE  /\ n % WORD_BITS \in Nat /\ WORD_BITS + (n % WORD_BITS) \in Nat
           /\ n % (2 * WORD_BITS) \in Nat
           /\ WORD_BITS \in Nat
<1> DEFINE b == 2 * WORD_BITS
<1>1. WORD_BITS \in Nat /\ WORD_BITS >= 1 /\ b \in Nat /\ b >= 1
    BY WordBitsAssumption
<1> HIDE DEF b
<1>2. n % WORD_BITS \in Nat /\ n % b \in Nat
    BY <1>1, Divides
<1> QED
    BY <1>1, <1>2 DEF b

\* SLL, SRL and SRA.
LEMMA WordShiftsAgree ==
    ASSUME NEW st, NEW w, NEW hl, NEW op \in {"SLL", "SRL", "SRA"}, Running(st, w, op, hl)
    PROVE  Agree(st, w, op, hl)
<1> DEFINE f == Fields(w)
           s == st.gprs[f.rs].lo
           t == st.gprs[f.rt].lo
           n == Sa(f)
<1>1. op \in DOMAIN ShiftFunct /\ f.opcode = 0 /\ f.rs = 0 /\ f.funct = ShiftFunct[op]
  <2>1. op \in DOMAIN ShiftFunct
      BY DEF ShiftFunct
  <2> QED
      BY <2>1, AcceptedEncoding DEF Running
<1>2. t \in Scalar /\ f.sa \in Nat
    BY RunningTyped
<1>3. op \in Commits /\ WritebackDestination(op, w) = f.rd
    BY DEF Commits, ShiftFunct, ImmediateOpcode, WritebackDestination
<1> HIDE DEF f
<1>4. ~IsZeroWord(w) /\ f = Fields(w)
    BY DEF Running, f
<1>5. n \in Nat /\ n = f.sa % WORD_BITS
    BY <1>2, Amounts DEF Sa
<1> HIDE DEF n
<1> DEFINE left == (t % WORD) * Pow2[n]
           right == (t % WORD) \div Pow2[n]
           down == SignedWord(t) \div Pow2[n]
           after == StepImmediateShift(st, f)
<1>6. f.funct \in {0, 2, 3} /\ Dispatch(st, w) = {after}
  <2>1. f.funct \in {0, 2, 3}
      BY <1>1 DEF ShiftFunct
  <2> QED
      BY <1>1, <1>4, <2>1, DispatchByFields
<1>7. /\ f.funct = 0 => after = WriteWord(st, f.rd, left)
      /\ f.funct = 2 => after = WriteWord(st, f.rd, right)
      /\ f.funct = 3 => after = WriteWord(st, f.rd, down)
  <2>1. AsSignedWord(t % WORD) = SignedWord(t)
      BY <1>2, OperandNumbers
  <2> QED
      BY <1>5, <2>1 DEF StepImmediateShift
<1>8. left \in Int /\ right \in Int /\ down \in Int
  <2>1. t % WORD \in Int /\ SignedWord(t) \in Int
      BY <1>2, OperandNumbers
  <2> QED
      BY <1>5, <2>1, Shifted
<1>9. /\ ScalarResult("SLL", f, s, t, hl) = SignExtend(left)
      /\ ScalarResult("SRL", f, s, t, hl) = SignExtend(right)
      /\ ScalarResult("SRA", f, s, t, hl) = SignExtend(down)
    BY DEF ScalarResult, n
<1> HIDE DEF left, right, down, after
<1>10. PICK x \in Int :
          after = WriteWord(st, f.rd, x) /\ ScalarResult(op, f, s, t, hl) = SignExtend(x)
    BY <1>1, <1>6, <1>7, <1>8, <1>9 DEF ShiftFunct
<1> QED
    BY <1>3, <1>4, <1>6, <1>10, AgreeOnWord

\* The value shifted into the lane: left, right, and down from its sign.
ShiftedLane(x, n) == [left |-> x * Pow2[n], right |-> x \div Pow2[n],
                      down |-> SignedScalar(x) \div Pow2[n]]

\* DSLL, DSRL and DSRA, and the three that shift by a word more.
LEMMA DoublewordShiftsAgree ==
    ASSUME NEW st, NEW w, NEW hl,
           NEW op \in {"DSLL", "DSRL", "DSRA", "DSLL32", "DSRL32", "DSRA32"},
           Running(st, w, op, hl)
    PROVE  Agree(st, w, op, hl)
<1> DEFINE f == Fields(w)
           s == st.gprs[f.rs].lo
           t == st.gprs[f.rt].lo
           n == IF op \in {"DSLL", "DSRL", "DSRA"} THEN Sa(f) ELSE HighSa(f)
<1>1. op \in DOMAIN ShiftFunct /\ f.opcode = 0 /\ f.rs = 0 /\ f.funct = ShiftFunct[op]
  <2>1. op \in DOMAIN ShiftFunct
      BY DEF ShiftFunct
  <2> QED
      BY <2>1, AcceptedEncoding DEF Running
<1>2. t \in Scalar /\ f.sa \in Nat
    BY RunningTyped
<1>3. op \in Commits /\ WritebackDestination(op, w) = f.rd
    BY DEF Commits, ShiftFunct, ImmediateOpcode, WritebackDestination
<1> HIDE DEF f
<1>4. ~IsZeroWord(w) /\ f = Fields(w)
    BY DEF Running, f
<1>5. n \in Nat
    BY <1>2, Amounts DEF Sa, HighSa
<1>6. f.funct \in {56, 58, 59, 60, 62, 63}
    BY <1>1 DEF ShiftFunct
<1>7. n = (f.sa % WORD_BITS) + (IF f.funct \in {60, 62, 63} THEN WORD_BITS ELSE 0)
  <2>1. WORD_BITS \in Nat /\ f.sa % WORD_BITS \in Nat
      BY <1>2, Amounts
  <2>2. f.funct \in {60, 62, 63} <=> op \in {"DSLL32", "DSRL32", "DSRA32"}
      BY <1>1 DEF ShiftFunct
  <2> QED
      BY <2>1, <2>2 DEF Sa, HighSa
<1> DEFINE lane == ShiftedLane(t, n)
           after == StepImmediateDoublewordShift(st, f)
<1>8. Dispatch(st, w) = {after}
    BY <1>1, <1>4, <1>6, DispatchByFields
<1>9. /\ op \in {"DSLL", "DSLL32"} =>
             /\ after = WriteScalar(st, f.rd, lane.left)
             /\ ScalarResult(op, f, s, t, hl) = lane.left % DOUBLE
      /\ op \in {"DSRL", "DSRL32"} =>
             /\ after = WriteScalar(st, f.rd, lane.right)
             /\ ScalarResult(op, f, s, t, hl) = lane.right
      /\ op \in {"DSRA", "DSRA32"} =>
             /\ after = WriteScalar(st, f.rd, lane.down)
             /\ ScalarResult(op, f, s, t, hl) = lane.down % DOUBLE
  <2>1. AsSignedScalar(t) = SignedScalar(t)
      BY <1>2, OperandNumbers
  <2>2. /\ ScalarResult("DSLL", f, s, t, hl) = (t * Pow2[Sa(f)]) % DOUBLE
        /\ ScalarResult("DSLL32", f, s, t, hl) = (t * Pow2[HighSa(f)]) % DOUBLE
        /\ ScalarResult("DSRL", f, s, t, hl) = t \div Pow2[Sa(f)]
        /\ ScalarResult("DSRL32", f, s, t, hl) = t \div Pow2[HighSa(f)]
        /\ ScalarResult("DSRA", f, s, t, hl) = (SignedScalar(t) \div Pow2[Sa(f)]) % DOUBLE
        /\ ScalarResult("DSRA32", f, s, t, hl) = (SignedScalar(t) \div Pow2[HighSa(f)]) % DOUBLE
      BY DEF ScalarResult
  <2>3. /\ op \in {"DSLL", "DSLL32"} => ScalarResult(op, f, s, t, hl) = lane.left % DOUBLE
        /\ op \in {"DSRL", "DSRL32"} => ScalarResult(op, f, s, t, hl) = lane.right
        /\ op \in {"DSRA", "DSRA32"} => ScalarResult(op, f, s, t, hl) = lane.down % DOUBLE
      BY <2>2 DEF ShiftedLane
  <2> HIDE DEF n
  <2>4. /\ f.funct \in {56, 60} => after = WriteScalar(st, f.rd, lane.left)
        /\ f.funct \in {58, 62} => after = WriteScalar(st, f.rd, lane.right)
        /\ f.funct \in {59, 63} => after = WriteScalar(st, f.rd, lane.down)
      BY <1>7, <2>1 DEF StepImmediateDoublewordShift, ShiftedLane
  <2> QED
      BY <1>1, <2>3, <2>4 DEF ShiftFunct
<1>10. lane.right % DOUBLE = lane.right
  <2> HIDE DEF n
  <2> QED
      BY <1>2, <1>5, Shifted DEF ShiftedLane
<1> HIDE DEF lane, after, n
<1>11. PICK x :
          after = WriteScalar(st, f.rd, x) /\ ScalarResult(op, f, s, t, hl) = x % DOUBLE
    BY <1>9, <1>10
<1> QED
    BY <1>3, <1>4, <1>8, <1>11, AgreeOnScalar

\* SLLV, SRLV and SRAV.
LEMMA VariableShiftsAgree ==
    ASSUME NEW st, NEW w, NEW hl, NEW op \in {"SLLV", "SRLV", "SRAV"}, Running(st, w, op, hl)
    PROVE  Agree(st, w, op, hl)
<1> DEFINE f == Fields(w)
           s == st.gprs[f.rs].lo
           t == st.gprs[f.rt].lo
           n == s % WORD_BITS
<1>1. op \in DOMAIN RegisterFunct /\ f.opcode = 0 /\ f.sa = 0 /\ f.funct = RegisterFunct[op]
  <2>1. op \in DOMAIN RegisterFunct
      BY DEF RegisterFunct
  <2> QED
      BY <2>1, AcceptedEncoding DEF Running
<1>2. t \in Scalar /\ s \in Nat
    BY RunningTyped
<1>3. op \in Commits /\ WritebackDestination(op, w) = f.rd
    BY DEF Commits, RegisterFunct, ImmediateOpcode, WritebackDestination, Multiply
<1> HIDE DEF f
<1>4. ~IsZeroWord(w) /\ f = Fields(w)
    BY DEF Running, f
<1>5. n \in Nat
    BY <1>2, Amounts
<1> DEFINE left == (t % WORD) * Pow2[n]
           right == (t % WORD) \div Pow2[n]
           down == SignedWord(t) \div Pow2[n]
           after == StepVariableShift(st, f)
<1>6. f.funct \in {4, 6, 7} /\ Dispatch(st, w) = {after}
  <2>1. f.funct \in {4, 6, 7}
      BY <1>1 DEF RegisterFunct
  <2> QED
      BY <1>1, <1>4, <2>1, DispatchByFields
<1>7. /\ f.funct = 4 => after = WriteWord(st, f.rd, left)
      /\ f.funct = 6 => after = WriteWord(st, f.rd, right)
      /\ f.funct = 7 => after = WriteWord(st, f.rd, down)
  <2>1. AsSignedWord(t % WORD) = SignedWord(t)
      BY <1>2, OperandNumbers
  <2> QED
      BY <2>1 DEF StepVariableShift
<1>8. left \in Int /\ right \in Int /\ down \in Int
  <2>1. t % WORD \in Int /\ SignedWord(t) \in Int
      BY <1>2, OperandNumbers
  <2> HIDE DEF n
  <2> QED
      BY <1>5, <2>1, Shifted
<1>9. /\ ScalarResult("SLLV", f, s, t, hl) = SignExtend(left)
      /\ ScalarResult("SRLV", f, s, t, hl) = SignExtend(right)
      /\ ScalarResult("SRAV", f, s, t, hl) = SignExtend(down)
    BY DEF ScalarResult
<1> HIDE DEF left, right, down, after
<1>10. PICK x \in Int :
          after = WriteWord(st, f.rd, x) /\ ScalarResult(op, f, s, t, hl) = SignExtend(x)
    BY <1>1, <1>6, <1>7, <1>8, <1>9 DEF RegisterFunct
<1> QED
    BY <1>3, <1>4, <1>6, <1>10, AgreeOnWord

\* DSLLV, DSRLV and DSRAV.
LEMMA VariableDoublewordShiftsAgree ==
    ASSUME NEW st, NEW w, NEW hl, NEW op \in {"DSLLV", "DSRLV", "DSRAV"}, Running(st, w, op, hl)
    PROVE  Agree(st, w, op, hl)
<1> DEFINE f == Fields(w)
           s == st.gprs[f.rs].lo
           t == st.gprs[f.rt].lo
           n == s % (2 * WORD_BITS)
<1>1. op \in DOMAIN RegisterFunct /\ f.opcode = 0 /\ f.sa = 0 /\ f.funct = RegisterFunct[op]
  <2>1. op \in DOMAIN RegisterFunct
      BY DEF RegisterFunct
  <2> QED
      BY <2>1, AcceptedEncoding DEF Running
<1>2. t \in Scalar /\ s \in Nat
    BY RunningTyped
<1>3. op \in Commits /\ WritebackDestination(op, w) = f.rd
    BY DEF Commits, RegisterFunct, ImmediateOpcode, WritebackDestination, Multiply
<1> HIDE DEF f
<1>4. ~IsZeroWord(w) /\ f = Fields(w)
    BY DEF Running, f
<1>5. n \in Nat
    BY <1>2, Amounts
<1> DEFINE lane == ShiftedLane(t, n)
           after == StepVariableShift(st, f)
<1>6. f.funct \in {20, 22, 23} /\ Dispatch(st, w) = {after}
  <2>1. f.funct \in {20, 22, 23}
      BY <1>1 DEF RegisterFunct
  <2> QED
      BY <1>1, <1>4, <2>1, DispatchByFields
<1>7. /\ f.funct = 20 => after = WriteScalar(st, f.rd, lane.left)
      /\ f.funct = 22 => after = WriteScalar(st, f.rd, lane.right)
      /\ f.funct = 23 => after = WriteScalar(st, f.rd, lane.down)
  <2>1. AsSignedScalar(t) = SignedScalar(t)
      BY <1>2, OperandNumbers
  <2> QED
      BY <2>1 DEF StepVariableShift, ShiftedLane
<1>8. /\ ScalarResult("DSLLV", f, s, t, hl) = lane.left % DOUBLE
      /\ ScalarResult("DSRLV", f, s, t, hl) = lane.right
      /\ ScalarResult("DSRAV", f, s, t, hl) = lane.down % DOUBLE
    BY DEF ScalarResult, ShiftedLane
<1>9. lane.right % DOUBLE = lane.right
  <2> HIDE DEF n
  <2> QED
      BY <1>2, <1>5, Shifted DEF ShiftedLane
<1> HIDE DEF lane, after
<1>10. PICK x :
          after = WriteScalar(st, f.rd, x) /\ ScalarResult(op, f, s, t, hl) = x % DOUBLE
    BY <1>1, <1>6, <1>7, <1>8, <1>9 DEF RegisterFunct
<1> QED
    BY <1>3, <1>4, <1>6, <1>10, AgreeOnScalar

\* Numbers of the immediates.
LEMMA ImmediateNumbers ==
    ASSUME NEW f, f.imm \in Nat
    PROVE  /\ ZeroExtendedImm(f) \in Scalar /\ ZeroExtendedImm(f) \in Nat /\ HALF \in Nat
           /\ UnsignedImmediate(f) = ZeroExtendedImm(f)
           /\ SignedImm(f) \in Int
           /\ SignedImmediate(f) = SignedImm(f)
           /\ LET h == f.imm % HALF
              IN  (IF h >= HALF \div 2 THEN h + (DOUBLE - HALF) ELSE h) = SignedImm(f) % DOUBLE
<1> DEFINE h == f.imm % HALF
<1>1. /\ HALF \in Nat /\ HALF >= 1 /\ HALF \div 2 \in Nat
      /\ DOUBLE \in Nat /\ DOUBLE >= 1 /\ HALF <= DOUBLE
    BY Widths
<1>2. h \in Nat /\ h < HALF
    BY <1>1, Divides
<1>3. SignedImm(f) = (IF h >= HALF \div 2 THEN h - HALF ELSE h) /\ ZeroExtendedImm(f) = h
    BY DEF SignedImm, ZeroExtendedImm
<1>4. UnsignedImmediate(f) = ZeroExtendedImm(f) /\ SignedImmediate(f) = SignedImm(f)
    BY DEF UnsignedImmediate, SignedImmediate, SignedImm, ZeroExtendedImm
<1> HIDE DEF h
<1>5. h \in Scalar
    BY <1>1, <1>2 DEF Scalar
<1>6. CASE h >= HALF \div 2
  <2> DEFINE a == h - HALF
             c == h + (DOUBLE - HALF)
  <2>1. a \in Int /\ c = a + DOUBLE /\ c \in Scalar
      BY <1>1, <1>2 DEF Scalar
  <2>2. SignedImm(f) = a
      BY <1>3, <1>6
  <2> HIDE DEF a, c
  <2>3. c % DOUBLE = a % DOUBLE /\ c % DOUBLE = c
      BY <2>1, LaneWraps, ScalarRemainder
  <2>4. c = SignedImm(f) % DOUBLE
      BY <2>2, <2>3
  <2> QED
      BY <1>1, <1>2, <1>3, <1>4, <1>5, <1>6, <2>1, <2>2, <2>4 DEF h, c
<1>7. CASE ~(h >= HALF \div 2)
  <2>1. SignedImm(f) = h /\ h % DOUBLE = h
      BY <1>3, <1>5, <1>7, ScalarRemainder
  <2> QED
      BY <1>1, <1>2, <1>3, <1>4, <1>5, <1>7, <2>1 DEF h
<1> QED
    BY <1>6, <1>7

\* A flag is a scalar.
LEMMA FlagIsScalar ==
    ASSUME NEW condition
    PROVE  Flag(condition) % DOUBLE = Flag(condition)
    BY ScalarRemainder DEF Flag

\* The operations with an immediate operand.
LEMMA ImmediatesAgree ==
    ASSUME NEW st, NEW w, NEW hl, NEW op \in DOMAIN ImmediateOpcode, Running(st, w, op, hl)
    PROVE  Agree(st, w, op, hl)
<1> DEFINE f == Fields(w)
           s == st.gprs[f.rs].lo
           t == st.gprs[f.rt].lo
           z == ZeroExtendedImm(f)
           i == SignedImm(f)
<1>1. f.opcode = ImmediateOpcode[op] /\ (op = "LUI" => f.rs = 0)
    BY AcceptedEncoding DEF Running
<1>2. s \in Scalar /\ s \in Nat /\ f.imm \in Nat
    BY RunningTyped
<1>3. op \in Commits /\ WritebackDestination(op, w) = f.rt
    BY DEF Commits, WritebackDestination
<1>4. op \in {"LUI", "ORI", "ANDI", "XORI", "ADDIU", "DADDIU", "SLTI", "SLTIU"}
    BY DEF ImmediateOpcode
<1> HIDE DEF f
<1>5. ~IsZeroWord(w) /\ f = Fields(w)
    BY DEF Running, f
<1>6. /\ z \in Scalar /\ z \in Nat /\ HALF \in Nat /\ UnsignedImmediate(f) = z
      /\ i \in Int /\ SignedImmediate(f) = i
    BY <1>2, ImmediateNumbers
<1>7. AsSignedScalar(s) = SignedScalar(s) /\ s % WORD \in Nat
    BY <1>2, OperandNumbers
<1>8. CASE op = "LUI"
  <2>1. f.opcode = 15 /\ f.rs = 0
      BY <1>1, <1>8 DEF ImmediateOpcode
  <2>2. Dispatch(st, w) = {WriteWord(st, f.rt, z * HALF)}
      BY <1>5, <1>6, <2>1, DispatchByFields DEF StepLui
  <2>3. ScalarResult("LUI", f, s, t, hl) = SignExtend(z * HALF)
      BY DEF ScalarResult
  <2>4. z * HALF \in Int
      BY <1>6
  <2> QED
      BY <1>3, <1>5, <1>8, <2>2, <2>3, <2>4, AgreeOnWord
<1>9. CASE op \in {"ORI", "ANDI", "XORI"}
  <2>1. /\ f.opcode \in {12, 13, 14}
        /\ f.opcode = 13 <=> op = "ORI"
        /\ f.opcode = 12 <=> op = "ANDI"
        /\ f.opcode = 14 <=> op = "XORI"
      BY <1>1, <1>9 DEF ImmediateOpcode
  <2>2. Dispatch(st, w) = {StepLogicalImmediate(st, f)}
      BY <1>5, <2>1, DispatchByFields
  <2>3. /\ f.opcode = 13 => StepLogicalImmediate(st, f) = WriteScalar(st, f.rt, BitOr(s, z))
        /\ f.opcode = 12 => StepLogicalImmediate(st, f) = WriteScalar(st, f.rt, BitAnd(s, z))
        /\ f.opcode = 14 => StepLogicalImmediate(st, f) = WriteScalar(st, f.rt, BitXor(s, z))
      BY <1>6 DEF StepLogicalImmediate
  <2>4. /\ ScalarResult("ORI", f, s, t, hl) = BitOr(s, z)
        /\ ScalarResult("ANDI", f, s, t, hl) = BitAnd(s, z)
        /\ ScalarResult("XORI", f, s, t, hl) = BitXor(s, z)
      BY DEF ScalarResult
  <2>5. BitOr(s, z) \in Scalar /\ BitAnd(s, z) \in Scalar /\ BitXor(s, z) \in Scalar
      BY <1>2, <1>6, BitwiseInLane
  <2> HIDE DEF s, t, z
  <2>6. PICK x \in Scalar :
           StepLogicalImmediate(st, f) = WriteScalar(st, f.rt, x) /\ ScalarResult(op, f, s, t, hl) = x
      BY <1>9, <2>1, <2>3, <2>4, <2>5
  <2>7. ScalarResult(op, f, s, t, hl) = x % DOUBLE
      BY <2>6, ScalarRemainder
  <2> QED
      BY <1>3, <1>5, <2>2, <2>6, <2>7, AgreeOnScalar DEF s, t
<1>10. CASE op \in {"ADDIU", "DADDIU", "SLTI", "SLTIU"}
  <2>1. /\ f.opcode \in {9, 10, 11, 25}
        /\ f.opcode = 9 <=> op = "ADDIU"
        /\ f.opcode = 25 <=> op = "DADDIU"
        /\ f.opcode = 10 <=> op = "SLTI"
        /\ f.opcode = 11 <=> op = "SLTIU"
      BY <1>1, <1>10 DEF ImmediateOpcode
  <2> DEFINE after == StepSignedImmediateGroup(st, f)
             less == Flag(SignedScalar(s) < i)
             below == Flag(s < i % DOUBLE)
  <2>2. Dispatch(st, w) = {after}
      BY <1>5, <2>1, DispatchByFields
  <2>3. /\ f.opcode = 9 => after = WriteWord(st, f.rt, (s % WORD) + i)
        /\ f.opcode = 25 => after = WriteScalar(st, f.rt, s + i)
        /\ f.opcode = 10 => after = WriteScalar(st, f.rt, less)
        /\ f.opcode = 11 => after = WriteScalar(st, f.rt, below)
    <3>1. /\ f.opcode = 9 => after = WriteWord(st, f.rt, (s % WORD) + i)
          /\ f.opcode = 25 => after = WriteScalar(st, f.rt, s + i)
          /\ f.opcode = 10 => after = WriteScalar(st, f.rt, less)
        BY <1>6, <1>7 DEF StepSignedImmediateGroup
    <3> DEFINE h == f.imm % HALF
               e == IF h >= HALF \div 2 THEN h + (DOUBLE - HALF) ELSE h
    <3>2. e = i % DOUBLE
        BY <1>2, ImmediateNumbers
    <3>3. f.opcode = 11 => after = WriteScalar(st, f.rt, Flag(s < e))
        BY DEF StepSignedImmediateGroup
    <3> HIDE DEF e, after
    <3> QED
        BY <3>1, <3>2, <3>3
  <2>4. /\ ScalarResult("ADDIU", f, s, t, hl) = SignExtend((s % WORD) + i)
        /\ ScalarResult("DADDIU", f, s, t, hl) = (s + i) % DOUBLE
        /\ ScalarResult("SLTI", f, s, t, hl) = less
        /\ ScalarResult("SLTIU", f, s, t, hl) = below
      BY DEF ScalarResult
  <2>5. less % DOUBLE = less /\ below % DOUBLE = below
      BY FlagIsScalar
  <2> HIDE DEF after, less, below
  <2>6. CASE op = "ADDIU"
    <3>1. (s % WORD) + i \in Int
        BY <1>6, <1>7
    <3> HIDE DEF s, t, i
    <3>2. Dispatch(st, w) = {WriteWord(st, f.rt, (s % WORD) + i)}
        BY <2>1, <2>2, <2>3, <2>6
    <3> QED
        BY <1>3, <1>5, <2>4, <2>6, <3>1, <3>2, AgreeOnWord DEF s, t
  <2>7. CASE op # "ADDIU"
    <3> HIDE DEF s, t, i
    <3>1. PICK x : after = WriteScalar(st, f.rt, x) /\ ScalarResult(op, f, s, t, hl) = x % DOUBLE
        BY <1>10, <2>1, <2>3, <2>4, <2>5, <2>7
    <3> QED
        BY <1>3, <1>5, <2>2, <3>1, AgreeOnScalar DEF s, t
  <2> QED
      BY <2>6, <2>7
<1> QED
    BY <1>4, <1>8, <1>9, <1>10

\* The complement of a scalar.
LEMMA Complement ==
    ASSUME NEW x \in Scalar
    PROVE  (-x - 1) % DOUBLE = DOUBLE - 1 - x
<1> DEFINE a == -x - 1
           c == DOUBLE - 1 - x
<1>1. DOUBLE \in Nat /\ x \in Nat /\ x < DOUBLE
    BY Widths, ScalarRemainder
<1>2. a \in Int /\ c = a + DOUBLE /\ c \in Scalar
    BY <1>1 DEF Scalar
<1> HIDE DEF a, c
<1>3. c % DOUBLE = a % DOUBLE /\ c % DOUBLE = c
    BY <1>2, LaneWraps, ScalarRemainder
<1> QED
    BY <1>3 DEF a, c

\* The operations on two registers.
LEMMA RegisterOpsAgree ==
    ASSUME NEW st, NEW w, NEW hl,
           NEW op \in {"ADDU", "DADDU", "SUBU", "DSUBU", "AND", "OR", "XOR", "NOR", "SLT", "SLTU"},
           Running(st, w, op, hl)
    PROVE  Agree(st, w, op, hl)
<1> DEFINE f == Fields(w)
           s == st.gprs[f.rs].lo
           t == st.gprs[f.rt].lo
           after == StepRegisterAlu(st, f)
           less == Flag(SignedScalar(s) < SignedScalar(t))
           below == Flag(s < t)
<1>1. op \in DOMAIN RegisterFunct /\ f.opcode = 0 /\ f.sa = 0 /\ f.funct = RegisterFunct[op]
  <2>1. op \in DOMAIN RegisterFunct
      BY DEF RegisterFunct
  <2> QED
      BY <2>1, AcceptedEncoding DEF Running
<1>2. s \in Scalar /\ t \in Scalar
    BY RunningTyped
<1>3. op \in Commits /\ WritebackDestination(op, w) = f.rd
    BY DEF Commits, RegisterFunct, ImmediateOpcode, WritebackDestination, Multiply
<1> HIDE DEF f
<1>4. ~IsZeroWord(w) /\ f = Fields(w)
    BY DEF Running, f
<1>5. /\ f.funct = 33 <=> op = "ADDU"
      /\ f.funct = 45 <=> op = "DADDU"
      /\ f.funct = 35 <=> op = "SUBU"
      /\ f.funct = 47 <=> op = "DSUBU"
      /\ f.funct = 36 <=> op = "AND"
      /\ f.funct = 37 <=> op = "OR"
      /\ f.funct = 38 <=> op = "XOR"
      /\ f.funct = 39 <=> op = "NOR"
      /\ f.funct = 42 <=> op = "SLT"
      /\ f.funct = 43 <=> op = "SLTU"
    BY <1>1 DEF RegisterFunct
<1>6. Dispatch(st, w) = {after}
  <2>1. f.funct \in {33, 45, 35, 47, 36, 37, 38, 39, 42, 43}
      BY <1>5
  <2> QED
      BY <1>1, <1>4, <2>1, DispatchByFields
<1>7. /\ op = "ADDU" => after = WriteWord(st, f.rd, (s % WORD) + (t % WORD))
      /\ op = "SUBU" => after = WriteWord(st, f.rd, (s % WORD) - (t % WORD))
      /\ op = "DADDU" => after = WriteScalar(st, f.rd, s + t)
      /\ op = "DSUBU" => after = WriteScalar(st, f.rd, s - t)
      /\ op = "AND" => after = WriteScalar(st, f.rd, BitAnd(s, t))
      /\ op = "OR" => after = WriteScalar(st, f.rd, BitOr(s, t))
      /\ op = "XOR" => after = WriteScalar(st, f.rd, BitXor(s, t))
      /\ op = "NOR" => after = WriteScalar(st, f.rd, -BitOr(s, t) - 1)
      /\ op = "SLT" => after = WriteScalar(st, f.rd, less)
      /\ op = "SLTU" => after = WriteScalar(st, f.rd, below)
  <2>1. AsSignedScalar(s) = SignedScalar(s) /\ AsSignedScalar(t) = SignedScalar(t)
      BY <1>2, OperandNumbers
  <2> QED
      BY <1>5, <2>1 DEF StepRegisterAlu
<1>8. /\ ScalarResult("ADDU", f, s, t, hl) = SignExtend((s % WORD) + (t % WORD))
      /\ ScalarResult("SUBU", f, s, t, hl) = SignExtend((s % WORD) - (t % WORD))
      /\ ScalarResult("DADDU", f, s, t, hl) = (s + t) % DOUBLE
      /\ ScalarResult("DSUBU", f, s, t, hl) = (s - t) % DOUBLE
      /\ ScalarResult("AND", f, s, t, hl) = BitAnd(s, t)
      /\ ScalarResult("OR", f, s, t, hl) = BitOr(s, t)
      /\ ScalarResult("XOR", f, s, t, hl) = BitXor(s, t)
      /\ ScalarResult("NOR", f, s, t, hl) = DOUBLE - 1 - BitOr(s, t)
      /\ ScalarResult("SLT", f, s, t, hl) = less
      /\ ScalarResult("SLTU", f, s, t, hl) = below
    BY DEF ScalarResult
<1>9. less % DOUBLE = less /\ below % DOUBLE = below
    BY FlagIsScalar
<1>10. /\ BitAnd(s, t) % DOUBLE = BitAnd(s, t)
       /\ BitOr(s, t) % DOUBLE = BitOr(s, t)
       /\ BitXor(s, t) % DOUBLE = BitXor(s, t)
       /\ (-BitOr(s, t) - 1) % DOUBLE = DOUBLE - 1 - BitOr(s, t)
  <2>1. BitAnd(s, t) \in Scalar /\ BitOr(s, t) \in Scalar /\ BitXor(s, t) \in Scalar
      BY <1>2, BitwiseInLane
  <2> HIDE DEF s, t
  <2> QED
      BY <2>1, ScalarRemainder, Complement
<1>11. (s % WORD) + (t % WORD) \in Int /\ (s % WORD) - (t % WORD) \in Int
  <2>1. s % WORD \in Nat /\ t % WORD \in Nat
      BY <1>2, OperandNumbers
  <2> QED
      BY <2>1
<1> HIDE DEF after, less, below, s, t
<1>12. CASE op \in {"ADDU", "SUBU"}
  <2>1. PICK x \in Int :
           after = WriteWord(st, f.rd, x) /\ ScalarResult(op, f, s, t, hl) = SignExtend(x)
      BY <1>7, <1>8, <1>11, <1>12
  <2> QED
      BY <1>3, <1>4, <1>6, <2>1, AgreeOnWord DEF s, t
<1>13. CASE op \notin {"ADDU", "SUBU"}
  <2>1. PICK x :
           after = WriteScalar(st, f.rd, x) /\ ScalarResult(op, f, s, t, hl) = x % DOUBLE
    <3>1. CASE op \in {"DADDU", "DSUBU"}
        BY <1>7, <1>8, <3>1
    <3>2. CASE op \in {"AND", "OR", "XOR"}
        BY <1>7, <1>8, <1>10, <3>2
    <3>3. CASE op \in {"NOR", "SLT", "SLTU"}
        BY <1>7, <1>8, <1>9, <1>10, <3>3
    <3> QED
        BY <1>13, <3>1, <3>2, <3>3
  <2> QED
      BY <1>3, <1>4, <1>6, <2>1, AgreeOnScalar DEF s, t
<1> QED
    BY <1>12, <1>13

\* Reading a HI/LO register.
LEMMA MovesFromAgree ==
    ASSUME NEW st, NEW w, NEW hl, NEW op \in MoveFrom, Running(st, w, op, hl)
    PROVE  Agree(st, w, op, hl)
<1> DEFINE f == Fields(w)
           s == st.gprs[f.rs].lo
           t == st.gprs[f.rt].lo
<1>1. /\ op = "MFHI" => f.opcode = 0 /\ f.rs = 0 /\ f.rt = 0 /\ f.sa = 0 /\ f.funct = 16
      /\ op = "MFLO" => f.opcode = 0 /\ f.rs = 0 /\ f.rt = 0 /\ f.sa = 0 /\ f.funct = 18
      /\ op = "MFHI1" => f.opcode = 28 /\ f.rs = 0 /\ f.rt = 0 /\ f.sa = 0 /\ f.funct = 16
    BY AcceptedEncoding DEF Running
<1>2. op \in Commits /\ WritebackDestination(op, w) = f.rd
    BY DEF Commits, MoveFrom, ImmediateOpcode, WritebackDestination
<1> HIDE DEF f
<1>3. ~IsZeroWord(w) /\ f = Fields(w)
    BY DEF Running, f
<1>4. /\ op = "MFHI" => Dispatch(st, w) = {WriteScalar(st, f.rd, st.hi)}
      /\ op = "MFLO" => Dispatch(st, w) = {WriteScalar(st, f.rd, st.lo)}
      /\ op = "MFHI1" => Dispatch(st, w) = {WriteScalar(st, f.rd, st.hi1)}
    BY <1>1, <1>3, DispatchByFields DEF StepHiLoTransfer
<1>5. /\ ScalarResult("MFHI", f, s, t, hl) = st.hi
      /\ ScalarResult("MFLO", f, s, t, hl) = st.lo
      /\ ScalarResult("MFHI1", f, s, t, hl) = st.hi1
    BY DEF ScalarResult, Running, HiLo
<1>6. st.hi % DOUBLE = st.hi /\ st.lo % DOUBLE = st.lo /\ st.hi1 % DOUBLE = st.hi1
    BY ScalarRemainder DEF Running, StateShaped
<1> HIDE DEF s, t
<1>7. PICK x : Dispatch(st, w) = {WriteScalar(st, f.rd, x)}
                  /\ ScalarResult(op, f, s, t, hl) = x % DOUBLE
    BY <1>4, <1>5, <1>6 DEF MoveFrom
<1> QED
    BY <1>2, <1>3, <1>7, AgreeOnScalar DEF s, t

\* The pair of HI/LO registers an operation writes, on either side.
PairOf(op, high, low) ==
    IF op \in Secondary
    THEN [n \in {"hi1", "lo1"} |-> IF n = "hi1" THEN high ELSE low]
    ELSE [n \in {"hi", "lo"} |-> IF n = "hi" THEN high ELSE low]

WritePair(op, st, high, low) ==
    IF op \in Secondary THEN WriteSecondary(st, high, low) ELSE WritePrimary(st, high, low)

LEMMA PairsOfResults ==
    ASSUME NEW op, NEW s, NEW t
    PROVE  /\ op \in Multiply => HiLoWrites(op, s, t) =
                  PairOf(op, Product(op, s, t).high, Product(op, s, t).low)
           /\ op \in Divide => HiLoWrites(op, s, t) =
                  PairOf(op, Division(op, s, t).high, Division(op, s, t).low)
    BY DEF HiLoWrites, PairOf, Multiply, Divide

LEMMA PairWritten ==
    ASSUME NEW op, NEW st, StateShaped(st), NEW high \in Int, NEW low \in Int, NEW v
    PROVE  LET pairs == PairOf(op, high % DOUBLE, low % DOUBLE)
           IN  /\ WritePair(op, st, high, low) = Outcome(st, 0, v, pairs)
               /\ StateShaped(WritePair(op, st, high, low))
<1> DEFINE h == high % DOUBLE
           l == low % DOUBLE
           pairs == PairOf(op, h, l)
           gprs == [r \in Index |-> IF r = 0 /\ 0 # 0 THEN [lo |-> v, up |-> st.gprs[r].up]
                                    ELSE st.gprs[r]]
           after == WritePair(op, st, high, low)
<1>1. h \in Scalar /\ l \in Scalar
    BY ScalarRemainder
<1>2. gprs = st.gprs
  <2>1. st.gprs = [r \in Index |-> st.gprs[r]]
      BY DEF StateShaped
  <2>2. gprs = [r \in Index |-> st.gprs[r]]
      OBVIOUS
  <2> QED
      BY <2>1, <2>2
<1>3. CASE op \in Secondary
  <2>1. after = [gprs |-> st.gprs, pc |-> st.pc, hi |-> st.hi, lo |-> st.lo, hi1 |-> h, lo1 |-> l]
      BY <1>3 DEF WritePair, WriteSecondary, StateShaped
  <2>2. Outcome(st, 0, v, pairs) =
            [gprs |-> gprs, pc |-> st.pc, hi |-> st.hi, lo |-> st.lo, hi1 |-> h, lo1 |-> l]
      BY <1>3 DEF Outcome, PairOf
  <2> HIDE DEF gprs, h, l, after
  <2>3. StateShaped(after)
      BY <1>1, <2>1 DEF StateShaped
  <2> QED
      BY <1>2, <2>1, <2>2, <2>3 DEF after, h, l
<1>4. CASE op \notin Secondary
  <2>1. after = [gprs |-> st.gprs, pc |-> st.pc, hi |-> h, lo |-> l, hi1 |-> st.hi1, lo1 |-> st.lo1]
      BY <1>4 DEF WritePair, WritePrimary, StateShaped
  <2>2. Outcome(st, 0, v, pairs) =
            [gprs |-> gprs, pc |-> st.pc, hi |-> h, lo |-> l, hi1 |-> st.hi1, lo1 |-> st.lo1]
      BY <1>4 DEF Outcome, PairOf
  <2> HIDE DEF gprs, h, l, after
  <2>3. StateShaped(after)
      BY <1>1, <2>1 DEF StateShaped
  <2> QED
      BY <1>2, <2>1, <2>2, <2>3 DEF after, h, l
<1> QED
    BY <1>3, <1>4

\* A pair and then a scalar.
LEMMA PairAndScalarWritten ==
    ASSUME NEW op, NEW st, StateShaped(st), NEW high \in Int, NEW low \in Int,
           NEW d \in Index, NEW x
    PROVE  WriteScalar(WritePair(op, st, high, low), d, x) =
               Outcome(st, d, x % DOUBLE, PairOf(op, high % DOUBLE, low % DOUBLE))
<1> DEFINE pairs == PairOf(op, high % DOUBLE, low % DOUBLE)
           between == WritePair(op, st, high, low)
           v == x % DOUBLE
<1>1. between = Outcome(st, 0, v, pairs) /\ StateShaped(between)
    BY PairWritten
<1> HIDE DEF between, pairs, v
<1>2. WriteScalar(between, d, x) = Outcome(between, d, v, NoPairs)
    BY <1>1, ScalarWritten DEF v
<1>3. /\ between.gprs = [r \in Index |-> st.gprs[r]]
      /\ between.pc = st.pc
      /\ \A n \in HiLo : between[n] = IF n \in DOMAIN pairs THEN pairs[n] ELSE st[n]
    BY <1>1 DEF Outcome, HiLo
<1>4. Outcome(between, d, v, NoPairs) = Outcome(st, d, v, pairs)
  <2>1. [r \in Index |-> IF r = d /\ d # 0 THEN [lo |-> v, up |-> between.gprs[r].up]
                         ELSE between.gprs[r]]
        = [r \in Index |-> IF r = d /\ d # 0 THEN [lo |-> v, up |-> st.gprs[r].up]
                           ELSE st.gprs[r]]
      BY <1>3
  <2> QED
      BY <1>3, <2>1 DEF Outcome, NoPairs, HiLo
<1> QED
    BY <1>2, <1>4 DEF between, pairs, v

\* MTHI and MTLO.
LEMMA MovesToAgree ==
    ASSUME NEW st, NEW w, NEW hl, NEW op \in {"MTHI", "MTLO"}, Running(st, w, op, hl)
    PROVE  Agree(st, w, op, hl)
<1> DEFINE f == Fields(w)
           s == st.gprs[f.rs].lo
           t == st.gprs[f.rt].lo
           e == Execute(op, w, s, t, hl)
           gprs == [r \in Index |-> IF r = 0 /\ 0 # 0 THEN [lo |-> e.scalar, up |-> st.gprs[r].up]
                                    ELSE st.gprs[r]]
<1>1. /\ op = "MTHI" => f.opcode = 0 /\ f.rt = 0 /\ f.rd = 0 /\ f.sa = 0 /\ f.funct = 17
      /\ op = "MTLO" => f.opcode = 0 /\ f.rt = 0 /\ f.rd = 0 /\ f.sa = 0 /\ f.funct = 19
    BY AcceptedEncoding DEF Running
<1>2. /\ op = "MTHI" => HiLoWrites(op, s, t) = [n \in {"hi"} |-> s]
      /\ op = "MTLO" => HiLoWrites(op, s, t) = [n \in {"lo"} |-> s]
  <2> HIDE DEF s, t
  <2> QED
      BY Zenon DEF HiLoWrites, Multiply, Divide
<1>3. ~WritebackCommit(op, w) /\ op \notin Multiply
    BY DEF WritebackCommit, ShiftFunct, RegisterFunct, ImmediateOpcode, MoveFrom, Multiply
<1>4. e.destination = 0 /\ e.hilo = HiLoWrites(op, s, t)
    BY <1>3 DEF Execute, Running
<1>5. gprs = st.gprs
  <2>1. st.gprs = [r \in Index |-> st.gprs[r]]
      BY DEF Running, StateShaped
  <2>2. gprs = [r \in Index |-> st.gprs[r]]
      OBVIOUS
  <2> QED
      BY <2>1, <2>2
<1>6. RtlOutcome(st, op, w, hl) = Outcome(st, 0, e.scalar, e.hilo)
    BY <1>4 DEF RtlOutcome
<1> HIDE DEF e, f
<1>7. ~IsZeroWord(w) /\ f = Fields(w)
    BY DEF Running, f
<1>8. /\ op = "MTHI" => Dispatch(st, w) = {[st EXCEPT !.hi = s]}
      /\ op = "MTLO" => Dispatch(st, w) = {[st EXCEPT !.lo = s]}
    BY <1>1, <1>7, DispatchByFields DEF StepHiLoTransfer
<1> HIDE DEF s, t
<1>9. CASE op = "MTHI"
  <2>1. Outcome(st, 0, e.scalar, e.hilo) =
            [gprs |-> gprs, pc |-> st.pc, hi |-> s, lo |-> st.lo, hi1 |-> st.hi1, lo1 |-> st.lo1]
      BY <1>2, <1>4, <1>9 DEF Outcome
  <2> HIDE DEF gprs
  <2> QED
      BY <1>5, <1>6, <1>8, <1>9, <2>1 DEF Agree, Running, StateShaped
<1>10. CASE op = "MTLO"
  <2>1. Outcome(st, 0, e.scalar, e.hilo) =
            [gprs |-> gprs, pc |-> st.pc, hi |-> st.hi, lo |-> s, hi1 |-> st.hi1, lo1 |-> st.lo1]
      BY <1>2, <1>4, <1>10 DEF Outcome
  <2> HIDE DEF gprs
  <2> QED
      BY <1>5, <1>6, <1>8, <1>10, <2>1 DEF Agree, Running, StateShaped
<1> QED
    BY <1>9, <1>10

\* The multiplications.
LEMMA MultiplyAgrees ==
    ASSUME NEW st, NEW w, NEW hl, NEW op \in Multiply, Running(st, w, op, hl)
    PROVE  Agree(st, w, op, hl)
<1> DEFINE f == Fields(w)
           s == st.gprs[f.rs].lo
           t == st.gprs[f.rt].lo
           p == Operand(op, s) * Operand(op, t)
           e == Execute(op, w, s, t, hl)
<1>1. /\ f.opcode \in {0, 28} /\ f.sa = 0 /\ f.funct \in {24, 25}
      /\ f.opcode = 0 <=> op \notin Secondary
      /\ f.funct = 24 <=> op \in SignedOps
  <2>1. /\ "MULT" \in DOMAIN RegisterFunct /\ RegisterFunct["MULT"] = 24
        /\ "MULTU" \in DOMAIN RegisterFunct /\ RegisterFunct["MULTU"] = 25
      BY DEF RegisterFunct
  <2>2. /\ op \in {"MULT", "MULTU"} =>
               f.opcode = 0 /\ f.sa = 0 /\ f.funct = IF op = "MULT" THEN 24 ELSE 25
        /\ op \in {"MULT1", "MULTU1"} =>
               f.opcode = 28 /\ f.sa = 0 /\ f.funct = IF op = "MULT1" THEN 24 ELSE 25
      BY <2>1, AcceptedEncoding DEF Running
  <2> HIDE DEF f
  <2> QED
      BY <2>2 DEF Multiply, Secondary, SignedOps
<1>2. s \in Scalar /\ t \in Scalar /\ f.rd \in Index /\ StateShaped(st)
    BY RunningTyped
<1>3. /\ e.destination = f.rd
      /\ e.scalar = ScalarResult(op, f, s, t, hl)
      /\ e.hilo = HiLoWrites(op, s, t)
  <2>1. WritebackDestination(op, w) = f.rd
      BY DEF WritebackDestination, Multiply, ImmediateOpcode
  <2> QED
      BY <2>1 DEF Execute, Running
<1>4. RtlOutcome(st, op, w, hl) =
          Outcome(st, f.rd, ScalarResult(op, f, s, t, hl), HiLoWrites(op, s, t))
    BY <1>3 DEF RtlOutcome
<1> HIDE DEF f, e
<1>5. ~IsZeroWord(w) /\ f = Fields(w)
    BY DEF Running, f
<1>6. p \in Int
  <2>1. Operand(op, s) \in Int /\ Operand(op, t) \in Int
      BY <1>2, OperandNumbers DEF Operand
  <2> QED
      BY <2>1
<1>7. Dispatch(st, w) = {StepMultiply(st, f, p)}
  <2>1. Product_(st, f) = p
    <3>1. AsSignedWord(s) = SignedWord(s) /\ AsSignedWord(t) = SignedWord(t)
        BY <1>2, OperandNumbers
    <3> QED
        BY <1>1, <3>1 DEF Product_, SignedProduct, UnsignedProduct, Operand
  <2>2. Dispatch(st, w) = {StepMultiply(st, f, Product_(st, f))}
      BY <1>1, <1>5, DispatchByFields
  <2> QED
      BY <2>1, <2>2
<1>8. ScalarResult(op, f, s, t, hl) = SignExtend(p)
  <2> HIDE DEF s, t
  <2>1. op \in {"MULT", "MULT1"} =>
            ScalarResult(op, f, s, t, hl) = SignExtend(SignedWord(s) * SignedWord(t))
      BY DEF ScalarResult
  <2>2. op \in {"MULTU", "MULTU1"} =>
            ScalarResult(op, f, s, t, hl) = SignExtend((s % WORD) * (t % WORD))
      BY DEF ScalarResult
  <2> QED
      BY <2>1, <2>2 DEF Operand, SignedOps, Multiply
<1>9. HiLoWrites(op, s, t) = PairOf(op, SignExtend((p % DOUBLE) \div WORD), SignExtend(p))
  <2> HIDE DEF s, t
  <2>1. Product(op, s, t) = [high |-> SignExtend((p % DOUBLE) \div WORD), low |-> SignExtend(p)]
      BY DEF Product
  <2> HIDE DEF p
  <2> QED
      BY <2>1, PairsOfResults
<1> HIDE DEF p, s, t
<1> DEFINE high == HighHalf(p)
           low == LowHalf(p)
<1>10. high \in Int /\ low \in Int
       /\ high % DOUBLE = SignExtend((p % DOUBLE) \div WORD)
       /\ low % DOUBLE = SignExtend(p)
  <2>1. \A n : AsSignedWord(n) = SignedWord(n)
      BY DEF AsSignedWord, SignedWord
  <2>2. p \div WORD \in Int /\ SignExtend((p % DOUBLE) \div WORD) = SignExtend(p \div WORD)
      BY <1>6, UpperHalf
  <2>3. SignedWord(p) \in Int /\ SignedWord(p \div WORD) \in Int
      BY <1>6, <2>2, SignedRange
  <2> QED
      BY <2>1, <2>2, <2>3 DEF HighHalf, LowHalf, SignExtend
<1>11. StepMultiply(st, f, p) = WriteScalar(WritePair(op, st, high, low), f.rd, low)
    BY <1>1 DEF StepMultiply, WritePair
<1> HIDE DEF high, low
<1>12. StepMultiply(st, f, p) =
           Outcome(st, f.rd, low % DOUBLE, PairOf(op, high % DOUBLE, low % DOUBLE))
    BY <1>2, <1>10, <1>11, PairAndScalarWritten
<1>13. RtlOutcome(st, op, w, hl) =
           Outcome(st, f.rd, low % DOUBLE, PairOf(op, high % DOUBLE, low % DOUBLE))
    BY <1>4, <1>8, <1>9, <1>10
<1> QED
    BY <1>7, <1>12, <1>13 DEF Agree

\* The divisions: the model's pair is quotient and remainder, each taken to a scalar.
SamePair(pair, r) ==
    /\ pair[1] \in Int /\ pair[2] \in Int
    /\ pair[1] % DOUBLE = r.low
    /\ pair[2] % DOUBLE = r.high

LEMMA DivisionsEqual ==
    ASSUME NEW op \in Divide, NEW s \in Scalar, NEW t \in Scalar
    PROVE  LET a == Operand(op, s)
               b == Operand(op, t)
               pair == IF op \in SignedOps THEN SignedDivision(a, b) ELSE UnsignedDivision(a, b)
           IN  SamePair(pair, Division(op, s, t))
<1> DEFINE a == Operand(op, s)
           b == Operand(op, t)
           h == WORD \div 2
           pair == IF op \in SignedOps THEN SignedDivision(a, b) ELSE UnsignedDivision(a, b)
           rtl == Division(op, s, t)
<1>1. /\ WORD \in Nat /\ WORD >= 1 /\ h \in Nat /\ h >= 1 /\ WORD = 2 * h
      /\ DOUBLE \in Nat /\ DOUBLE >= 1
    BY Widths
<1>2. rtl = CASE op \in SignedOps /\ a = -h /\ b = -1 -> [high |-> 0, low |-> SignExtend(a)]
              [] b = 0 -> [high |-> SignExtend(a), low |-> IF a < 0 THEN 1 ELSE DOUBLE - 1]
              [] OTHER -> [high |-> SignExtend(Remainder(a, b)),
                           low |-> SignExtend(Quotient(a, b))]
    BY DEF Division
<1>3. 0 % DOUBLE = 0 /\ 1 % DOUBLE = 1 /\ (-1) % DOUBLE = DOUBLE - 1
  <2>1. 0 % DOUBLE = 0 /\ 1 % DOUBLE = 1 /\ (DOUBLE - 1) % DOUBLE = DOUBLE - 1
      BY ScalarRemainder
  <2> DEFINE m == -1
  <2>2. m \in Int /\ m + DOUBLE = DOUBLE - 1
      BY <1>1
  <2> HIDE DEF m
  <2>3. (m + DOUBLE) % DOUBLE = m % DOUBLE
      BY <2>2, LaneWraps
  <2> QED
      BY <2>1, <2>2, <2>3 DEF m
<1>4. CASE op \in SignedOps
  <2>1. a \in Int /\ b \in Int /\ -h <= a /\ a < h /\ -h <= b /\ b < h
    <3>1. a = SignedWord(s) /\ b = SignedWord(t) /\ s \in Int /\ t \in Int
        BY <1>4, OperandNumbers DEF Operand
    <3> QED
        BY <3>1, SignedRange
  <2>2. SignExtend(a) = a % DOUBLE
      BY <2>1, SignedOfSigned
  <2>3. pair = SignedDivision(a, b)
      BY <1>4
  <2> HIDE DEF a, b, pair, rtl
  <2>4. ASSUME a = -h /\ b = -1 PROVE SamePair(pair, rtl)
    <3>1. pair = <<a, 0>>
        BY <2>3, <2>4 DEF SignedDivision
    <3>2. rtl.low = SignExtend(a) /\ rtl.high = 0
        BY <1>2, <1>4, <2>4
    <3> QED
        BY <1>3, <2>1, <2>2, <3>1, <3>2 DEF SamePair
  <2>5. ASSUME b = 0 PROVE SamePair(pair, rtl)
    <3>1. pair = <<IF a < 0 THEN 1 ELSE -1, a>>
        BY <2>3, <2>5 DEF SignedDivision
    <3>2. rtl.high = SignExtend(a) /\ rtl.low = IF a < 0 THEN 1 ELSE DOUBLE - 1
        BY <1>2, <2>5
    <3> QED
        BY <1>3, <2>1, <2>2, <3>1, <3>2 DEF SamePair
  <2>6. ASSUME ~(a = -h /\ b = -1) /\ b # 0 PROVE SamePair(pair, rtl)
    <3> DEFINE q == Quotient(a, b)
               r == Remainder(a, b)
    <3>1. pair = <<q, r>>
        BY <2>1, <2>3, <2>6 DEF SignedDivision, Quotient, Remainder, Abs
    <3>2. rtl.high = SignExtend(r) /\ rtl.low = SignExtend(q)
        BY <1>2, <2>6
    <3>3. q \in Int /\ r \in Int
        BY <2>1, <2>6, QuotientType
    <3>4. -h <= q /\ q < h /\ -h <= r /\ r < h
        BY <1>1, <2>1, <2>6, SignedQuotientFits
    <3> HIDE DEF q, r
    <3>5. SignExtend(q) = q % DOUBLE /\ SignExtend(r) = r % DOUBLE
        BY <3>3, <3>4, SignedOfSigned
    <3> QED
        BY <3>1, <3>2, <3>3, <3>5 DEF SamePair
  <2>7. SamePair(pair, rtl)
      BY <2>4, <2>5, <2>6
  <2> QED
      BY <2>7 DEF a, b, pair, rtl
<1>5. CASE op \notin SignedOps
  <2>1. a \in Nat /\ b \in Nat /\ a < WORD
    <3>1. a = s % WORD /\ b = t % WORD /\ s \in Int /\ t \in Int
        BY <1>5, OperandNumbers DEF Operand
    <3> QED
        BY <1>1, <3>1, Divides
  <2>2. pair = UnsignedDivision(a, b)
      BY <1>5
  <2> HIDE DEF a, b, pair, rtl
  <2>3. \A n : AsSignedWord(n) % DOUBLE = SignExtend(n)
      BY DEF AsSignedWord, SignedWord, SignExtend
  <2>4. \A n \in Int : AsSignedWord(n) \in Int
    <3> TAKE n \in Int
    <3> QED
        BY SignedRange DEF AsSignedWord, SignedWord
  <2>5. ASSUME b = 0 PROVE SamePair(pair, rtl)
    <3>1. pair = <<AsSignedWord(WORD - 1), AsSignedWord(a)>>
        BY <2>2, <2>5 DEF UnsignedDivision
    <3>2. rtl.high = SignExtend(a) /\ rtl.low = DOUBLE - 1
        BY <1>2, <1>5, <2>1, <2>5
    <3>3. SignExtend(WORD - 1) = DOUBLE - 1
      <4>1. (WORD - 1) % WORD = WORD - 1
          BY <1>1, RemainderOfSmall
      <4>2. SignedWord(WORD - 1) = -1
          BY <1>1, <4>1 DEF SignedWord
      <4> QED
          BY <1>3, <4>2 DEF SignExtend
    <3> QED
        BY <1>1, <2>1, <2>3, <2>4, <3>1, <3>2, <3>3 DEF SamePair
  <2>6. ASSUME b # 0 PROVE SamePair(pair, rtl)
    <3> DEFINE q == a \div b
               r == a % b
    <3>1. pair = <<AsSignedWord(q), AsSignedWord(r)>>
        BY <2>2, <2>6 DEF UnsignedDivision
    <3>2. Quotient(a, b) = q /\ Remainder(a, b) = r
        BY <2>1, <2>6, UnsignedQuotient
    <3>3. q \in Int /\ r \in Int
        BY <2>1, <2>6, Divides
    <3> HIDE DEF q, r
    <3>4. rtl.high = SignExtend(r) /\ rtl.low = SignExtend(q)
        BY <1>2, <1>5, <2>6, <3>2
    <3> QED
        BY <2>3, <2>4, <3>1, <3>3, <3>4 DEF SamePair
  <2>7. SamePair(pair, rtl)
      BY <2>5, <2>6
  <2> QED
      BY <2>7 DEF a, b, pair, rtl
<1> QED
    BY <1>4, <1>5

LEMMA DivideAgrees ==
    ASSUME NEW st, NEW w, NEW hl, NEW op \in Divide, Running(st, w, op, hl)
    PROVE  Agree(st, w, op, hl)
<1> DEFINE f == Fields(w)
           s == st.gprs[f.rs].lo
           t == st.gprs[f.rt].lo
           a == Operand(op, s)
           b == Operand(op, t)
           e == Execute(op, w, s, t, hl)
           pair == IF op \in SignedOps THEN SignedDivision(a, b) ELSE UnsignedDivision(a, b)
           rtl == Division(op, s, t)
<1>1. /\ f.opcode \in {0, 28} /\ f.rd = 0 /\ f.sa = 0 /\ f.funct \in {26, 27}
      /\ f.opcode = 0 <=> op \notin Secondary
      /\ f.funct = 26 <=> op \in SignedOps
  <2>1. /\ op \in {"DIV", "DIVU"} =>
               f.opcode = 0 /\ f.rd = 0 /\ f.sa = 0 /\ f.funct = IF op = "DIV" THEN 26 ELSE 27
        /\ op \in {"DIV1", "DIVU1"} =>
               f.opcode = 28 /\ f.rd = 0 /\ f.sa = 0 /\ f.funct = IF op = "DIV1" THEN 26 ELSE 27
      BY AcceptedEncoding DEF Running
  <2> HIDE DEF f
  <2> QED
      BY <2>1 DEF Divide, Secondary, SignedOps
<1>2. s \in Scalar /\ t \in Scalar /\ StateShaped(st)
    BY RunningTyped
<1>3. e.destination = 0 /\ e.hilo = HiLoWrites(op, s, t)
  <2>1. ~WritebackCommit(op, w) /\ op \notin Multiply
      BY DEF WritebackCommit, ShiftFunct, RegisterFunct, ImmediateOpcode, MoveFrom, Multiply,
             Divide
  <2> QED
      BY <2>1 DEF Execute, Running
<1>4. RtlOutcome(st, op, w, hl) = Outcome(st, 0, e.scalar, HiLoWrites(op, s, t))
    BY <1>3 DEF RtlOutcome
<1> HIDE DEF f, e
<1>5. ~IsZeroWord(w) /\ f = Fields(w)
    BY DEF Running, f
<1>6. HiLoWrites(op, s, t) = PairOf(op, rtl.high, rtl.low)
    BY PairsOfResults
<1>7. SamePair(pair, rtl)
    BY <1>2, DivisionsEqual
<1>8. StepDivide(st, f) = WritePair(op, st, pair[2], pair[1])
  <2>1. op \in SignedOps => a = AsSignedWord(s) /\ b = AsSignedWord(t)
      BY <1>2, OperandNumbers DEF Operand
  <2>2. op \notin SignedOps => a = s % WORD /\ b = t % WORD
      BY DEF Operand
  <2>3. pair = IF f.funct = 26 THEN SignedDivision(AsSignedWord(s), AsSignedWord(t))
               ELSE UnsignedDivision(s % WORD, t % WORD)
    <3> HIDE DEF a, b
    <3> QED
        BY <1>1, <2>1, <2>2
  <2> HIDE DEF pair
  <2> QED
      BY <1>1, <2>3 DEF StepDivide, WritePair
<1>9. Dispatch(st, w) = {StepDivide(st, f)}
    BY <1>1, <1>5, DispatchByFields
<1> HIDE DEF pair, rtl
<1>10. pair[1] \in Int /\ pair[2] \in Int /\ pair[1] % DOUBLE = rtl.low /\ pair[2] % DOUBLE = rtl.high
    BY <1>7 DEF SamePair
<1>11. StepDivide(st, f) = Outcome(st, 0, e.scalar, PairOf(op, rtl.high, rtl.low))
    BY <1>2, <1>8, <1>10, PairWritten
<1> QED
    BY <1>4, <1>6, <1>9, <1>11 DEF Agree

\* The reference model makes of every legal word what the execute block makes of it,
\* whatever the registers hold (reference/ee/r5900.py:565-1104, r5900_execute.sv:167-1022):
\* the integers of the one, reduced when they are written back, are the fixed widths of
\* the other, and the two find the same operation, operands and destination in the word.
THEOREM SameOutcome ==
    ASSUME NEW st, StateShaped(st), NEW w \in [0 .. 3 -> ByteValue], Decode(w) # "NONE",
           NEW hl \in [HiLo -> Scalar], \A n \in HiLo : hl[n] = st[n]
    PROVE  Dispatch(st, w) = {RtlOutcome(st, Decode(w), w, hl)}
<1> DEFINE op == Decode(w)
<1>1. ExecuteAccepts(op, w)
    BY LegalWordsAccepted
<1>2. CASE IsZeroWord(w)
  <2>1. op = "NOP"
      BY <1>2 DEF Decode
  <2>2. Dispatch(st, w) = {st}
    <3>1. Fields(w).opcode = 0
        BY <1>2 DEF Fields, IsZeroWord
    <3> QED
        BY <1>2, <3>1 DEF Dispatch
  <2> HIDE DEF op
  <2>3. ~WritebackCommit(op, w) /\ op \notin Multiply
      BY <2>1 DEF WritebackCommit, ShiftFunct, RegisterFunct, ImmediateOpcode, MoveFrom, Multiply
  <2>4. \A s, t : HiLoWrites(op, s, t) = NoPairs
      BY <2>1 DEF HiLoWrites, NoPairs, Multiply, Divide
  <2>5. \E v : RtlOutcome(st, op, w, hl) = Outcome(st, 0, v, NoPairs)
      BY <1>1, <2>3, <2>4 DEF RtlOutcome, Execute
  <2>6. \A v : Outcome(st, 0, v, NoPairs) = st
    <3> TAKE v
    <3> DEFINE gprs == [r \in Index |-> IF r = 0 /\ 0 # 0 THEN [lo |-> v, up |-> st.gprs[r].up]
                                        ELSE st.gprs[r]]
    <3>1. st.gprs = [r \in Index |-> st.gprs[r]]
        BY DEF StateShaped
    <3>2. gprs = [r \in Index |-> st.gprs[r]]
        OBVIOUS
    <3>3. Outcome(st, 0, v, NoPairs) = [gprs |-> gprs, pc |-> st.pc, hi |-> st.hi,
                                        lo |-> st.lo, hi1 |-> st.hi1, lo1 |-> st.lo1]
        BY DEF Outcome, NoPairs
    <3> HIDE DEF gprs
    <3> QED
        BY <3>1, <3>2, <3>3 DEF StateShaped
  <2> QED
      BY <2>2, <2>5, <2>6 DEF op
<1>3. CASE ~IsZeroWord(w)
  <2> HIDE DEF op
  <2>1. Running(st, w, op, hl)
      BY <1>1, <1>3 DEF Running
  <2>2. op \in (DOMAIN ShiftFunct \cup DOMAIN RegisterFunct \cup DOMAIN ImmediateOpcode
                    \cup MoveFrom \cup Multiply \cup Divide \cup {"MTHI", "MTLO"})
    <3>1. \/ op \in DOMAIN ShiftFunct \/ op \in DOMAIN RegisterFunct
          \/ op \in DOMAIN ImmediateOpcode
          \/ op \in {"DIV", "DIVU", "MFHI", "MFLO", "MTHI", "MTLO", "MULT1", "MULTU1",
                     "DIV1", "DIVU1", "MFHI1"}
        BY <1>1, <1>3 DEF ExecuteAccepts
    <3> QED
        BY <3>1 DEF MoveFrom, Multiply, Divide
  <2>3. Agree(st, w, op, hl)
    <3>1. CASE op \in DOMAIN ShiftFunct
        BY <2>1, <3>1, WordShiftsAgree, DoublewordShiftsAgree DEF ShiftFunct
    <3>2. CASE op \in DOMAIN RegisterFunct \ Multiply
        BY <2>1, <3>2, VariableShiftsAgree, VariableDoublewordShiftsAgree, RegisterOpsAgree
           DEF RegisterFunct, Multiply
    <3>3. CASE op \in DOMAIN ImmediateOpcode
        BY <2>1, <3>3, ImmediatesAgree
    <3>4. CASE op \in MoveFrom
        BY <2>1, <3>4, MovesFromAgree
    <3>5. CASE op \in Multiply
        BY <2>1, <3>5, MultiplyAgrees
    <3>6. CASE op \in Divide
        BY <2>1, <3>6, DivideAgrees
    <3>7. CASE op \in {"MTHI", "MTLO"}
        BY <2>1, <3>7, MovesToAgree
    <3> QED
        BY <2>2, <3>1, <3>2, <3>3, <3>4, <3>5, <3>6, <3>7
  <2> QED
      BY <2>3 DEF Agree, op
<1> QED
    BY <1>2, <1>3

-----------------------------------------------------------------------------
(* The two in lockstep.  A word leaves the registers shaped for the next one, and the     *)
(* machine's writes of its register and of HI/LO are the Outcome of the reference model. *)

\* The machine's registers and pairs are in their widths and the two agree.
AgreeInv ==
    /\ gpr = [r \in Registers |-> [lo |-> gpr[r].lo, up |-> gpr[r].up]]
    /\ \A r \in Registers : gpr[r].lo \in Scalar
    /\ hilo \in [HiLo -> Scalar]
    /\ ModelsAgree

\* What does not commit has destination zero, a multiply into register zero included.
LEMMA NoCommitNoDestination ==
    ASSUME NEW op, NEW w, NEW s, NEW t, NEW hl, ~Execute(op, w, s, t, hl).commit
    PROVE  Execute(op, w, s, t, hl).destination = 0
<1>1. CASE ExecuteAccepts(op, w)
  <2>1. /\ Execute(op, w, s, t, hl).commit = WritebackCommit(op, w)
        /\ Execute(op, w, s, t, hl).destination =
               IF WritebackCommit(op, w) \/ op \in Multiply
               THEN WritebackDestination(op, w) ELSE 0
      BY <1>1 DEF Execute
  <2>2. op \in Multiply => Fields(w).rd = 0 /\ op \notin DOMAIN ImmediateOpcode
      BY <2>1 DEF WritebackCommit, Multiply, ImmediateOpcode
  <2> QED
      BY <2>1, <2>2 DEF WritebackDestination
<1>2. CASE ~ExecuteAccepts(op, w)
    BY <1>2 DEF Execute
<1> QED
    BY <1>1, <1>2

\* The machine's state is one of the reference model.
LEMMA MachineShaped ==
    ASSUME AgreeInv
    PROVE  /\ StateShaped(MachineState)
           /\ \A r \in Index : MachineState.gprs[r] = Read(r)
           /\ \A n \in HiLo : MachineState[n] = hilo[n]
           /\ MachineState.pc = pc
<1>1. \A r \in Index : MachineState.gprs[r] = Read(r)
    BY DEF MachineState, Index
<1>2. \A r \in Index : Read(r) = [lo |-> Read(r).lo, up |-> Read(r).up] /\ Read(r).lo \in Scalar
  <2> TAKE r \in Index
  <2>1. CASE r = 0
      BY <2>1, ScalarRemainder DEF Read
  <2>2. CASE r # 0
    <3>1. r \in Registers
        BY <2>2 DEF Registers, Index
    <3>2. gpr[r] = [lo |-> gpr[r].lo, up |-> gpr[r].up] /\ gpr[r].lo \in Scalar
        BY <3>1 DEF AgreeInv
    <3> QED
        BY <2>2, <3>2 DEF Read
  <2> QED
      BY <2>1, <2>2
<1>3. \A n \in HiLo : MachineState[n] = hilo[n]
    BY DEF MachineState, HiLo
<1>4. MachineState.gprs = [r \in Index |-> [lo |-> MachineState.gprs[r].lo,
                                            up |-> MachineState.gprs[r].up]]
  <2>1. MachineState.gprs = [r \in Index |-> Read(r)]
      BY DEF MachineState, Index
  <2> QED
      BY <1>2, <2>1
<1>5. MachineState = [gprs |-> MachineState.gprs, pc |-> MachineState.pc,
                      hi |-> MachineState.hi, lo |-> MachineState.lo,
                      hi1 |-> MachineState.hi1, lo1 |-> MachineState.lo1]
    BY DEF MachineState
<1>6. MachineState.hi \in Scalar /\ MachineState.lo \in Scalar
      /\ MachineState.hi1 \in Scalar /\ MachineState.lo1 \in Scalar
    BY DEF MachineState, AgreeInv, HiLo
<1>7. \A r \in Index : MachineState.gprs[r].lo \in Scalar
    BY <1>1, <1>2
<1>8. MachineState.pc = pc
    BY DEF MachineState
<1> QED
    BY <1>1, <1>3, <1>4, <1>5, <1>6, <1>7, <1>8 DEF StateShaped

\* The execute block's outputs are in their widths.
LEMMA EffectFits ==
    ASSUME AgreeInv, ir \in [0 .. 3 -> ByteValue]
    PROVE  /\ Effect.commit \in BOOLEAN
           /\ Effect.destination \in Index
           /\ ~Effect.commit => Effect.destination = 0
           /\ Effect.scalar \in Scalar
           /\ DOMAIN Effect.hilo \subseteq HiLo
           /\ \A n \in DOMAIN Effect.hilo : Effect.hilo[n] \in Scalar
           /\ RtlOutcome(MachineState, Decode(ir), ir, hilo) =
                  Outcome(MachineState, Effect.destination, Effect.scalar, Effect.hilo)
<1> DEFINE s == Read(Fields(ir).rs).lo
           t == Read(Fields(ir).rt).lo
<1>1. Effect = Execute(Decode(ir), ir, s, t, hilo)
    BY DEF Effect
<1>2. Fields(ir).rs \in Index /\ Fields(ir).rt \in Index
    BY FieldRanges DEF ByteValue, Index
<1>3. /\ MachineState.gprs[Fields(ir).rs].lo = s /\ s \in Scalar
      /\ MachineState.gprs[Fields(ir).rt].lo = t /\ t \in Scalar
    BY <1>2, MachineShaped DEF StateShaped
<1>4. RtlOutcome(MachineState, Decode(ir), ir, hilo) =
          Outcome(MachineState, Effect.destination, Effect.scalar, Effect.hilo)
    BY <1>1, <1>3 DEF RtlOutcome
<1> HIDE DEF s, t
<1>5. /\ Effect.commit \in BOOLEAN
      /\ Effect.destination \in 0 .. 31
      /\ Effect.scalar \in Scalar
      /\ DOMAIN Effect.hilo \subseteq HiLo
      /\ \A n \in DOMAIN Effect.hilo : Effect.hilo[n] \in Scalar
    BY <1>1, <1>3, ResultsFit DEF AgreeInv, ByteValue
<1>6. ~Effect.commit => Effect.destination = 0
    BY <1>1, NoCommitNoDestination
<1> QED
    BY <1>4, <1>5, <1>6 DEF Index

\* One instruction: the machine writes what the Outcome says, and it stays in its widths.
LEMMA StepAgrees ==
    ASSUME AgreeInv, WordInv, Execution
    PROVE  AgreeInv'
<1> DEFINE e == Effect
<1>1. /\ ir # NoWord /\ Decode(ir) # "NONE"
      /\ gpr' = GprAfter /\ hilo' = HiLoAfter /\ pc' = (pc + 4) % PcSpan
      /\ model' \in ReferenceStep(model, ir)
    BY DEF Execution, Step
<1>2. ir \in [0 .. 3 -> ByteValue]
    BY <1>1 DEF WordInv
<1>3. /\ e.commit \in BOOLEAN
      /\ e.destination \in Index
      /\ ~e.commit => e.destination = 0
      /\ e.scalar \in Scalar
      /\ DOMAIN e.hilo \subseteq HiLo
      /\ \A n \in DOMAIN e.hilo : e.hilo[n] \in Scalar
      /\ RtlOutcome(MachineState, Decode(ir), ir, hilo) =
             Outcome(MachineState, e.destination, e.scalar, e.hilo)
    BY <1>2, EffectFits
<1>4. /\ gpr' = IF e.destination # 0 THEN [gpr EXCEPT ![e.destination].lo = e.scalar] ELSE gpr
      /\ hilo' = [n \in HiLo |-> IF n \in DOMAIN e.hilo THEN e.hilo[n] ELSE hilo[n]]
    BY <1>1, <1>3 DEF GprAfter, HiLoAfter
<1>5. /\ StateShaped(MachineState)
      /\ \A r \in Index : MachineState.gprs[r] = Read(r)
      /\ \A n \in HiLo : MachineState[n] = hilo[n]
      /\ MachineState.pc = pc
    BY MachineShaped
<1>6. model' = [Outcome(MachineState, e.destination, e.scalar, e.hilo)
                    EXCEPT !.pc = (pc + 4) % PC_MODULUS]
  <2>1. model = MachineState
      BY DEF AgreeInv, ModelsAgree
  <2>2. Dispatch(MachineState, ir) = {RtlOutcome(MachineState, Decode(ir), ir, hilo)}
      BY <1>1, <1>2, <1>5, SameOutcome DEF AgreeInv
  <2> QED
      BY <1>1, <1>3, <1>5, <2>1, <2>2 DEF ReferenceStep
<1> HIDE DEF e
<1>7. \A r \in Registers :
          gpr'[r] = IF r = e.destination THEN [lo |-> e.scalar, up |-> gpr[r].up] ELSE gpr[r]
  <2> TAKE r \in Registers
  <2>1. gpr[r] = [lo |-> gpr[r].lo, up |-> gpr[r].up] /\ DOMAIN gpr = Registers /\ r # 0
      BY DEF AgreeInv, Registers
  <2>2. CASE e.destination = 0
      BY <1>4, <2>1, <2>2
  <2>3. CASE e.destination # 0
      BY <1>3, <1>4, <2>1, <2>3 DEF Registers, Index
  <2> QED
      BY <2>2, <2>3
<1>8. /\ gpr' = [r \in Registers |-> [lo |-> gpr'[r].lo, up |-> gpr'[r].up]]
      /\ \A r \in Registers : gpr'[r].lo \in Scalar
  <2>1. \A r \in Registers : /\ gpr'[r] = [lo |-> gpr'[r].lo, up |-> gpr'[r].up]
                             /\ gpr'[r].lo \in Scalar
    <3> TAKE r \in Registers
    <3>1. gpr[r] = [lo |-> gpr[r].lo, up |-> gpr[r].up] /\ gpr[r].lo \in Scalar
        BY DEF AgreeInv
    <3>2. e.scalar \in Scalar
        BY <1>3
    <3>3. CASE r = e.destination
      <4>1. gpr'[r] = [lo |-> e.scalar, up |-> gpr[r].up]
          BY <1>7, <3>3
      <4> QED
          BY <3>2, <4>1
    <3>4. CASE r # e.destination
      <4>1. gpr'[r] = gpr[r]
          BY <1>7, <3>4
      <4> QED
          BY <3>1, <4>1
    <3> QED
        BY <3>3, <3>4
  <2>2. gpr' = [r \in Registers |-> gpr'[r]]
    <3>1. gpr = [r \in Registers |-> gpr[r]]
        BY DEF AgreeInv
    <3> QED
        BY <1>4, <3>1
  <2> QED
      BY <2>1, <2>2
<1>9. hilo' \in [HiLo -> Scalar]
    BY <1>3, <1>4 DEF AgreeInv
<1>10. \A r \in Index : Read(r)' = IF r = e.destination /\ e.destination # 0
                                   THEN [lo |-> e.scalar, up |-> Read(r).up] ELSE Read(r)
  <2> TAKE r \in Index
  <2>1. CASE r = 0
      BY <2>1 DEF Read
  <2>2. CASE r # 0
    <3>1. r \in Registers
        BY <2>2 DEF Registers, Index
    <3> QED
        BY <1>7, <2>2, <3>1 DEF Read
  <2> QED
      BY <2>1, <2>2
<1>11. ModelsAgree'
  <2> DEFINE gprs == [r \in Index |-> IF r = e.destination /\ e.destination # 0
                                      THEN [lo |-> e.scalar, up |-> MachineState.gprs[r].up]
                                      ELSE MachineState.gprs[r]]
             paired(n) == IF n \in DOMAIN e.hilo THEN e.hilo[n] ELSE MachineState[n]
  <2>1. Outcome(MachineState, e.destination, e.scalar, e.hilo) =
            [gprs |-> gprs, pc |-> MachineState.pc, hi |-> paired("hi"), lo |-> paired("lo"),
             hi1 |-> paired("hi1"), lo1 |-> paired("lo1")]
      BY DEF Outcome
  <2>2. \A n \in HiLo : paired(n) = hilo'[n]
      BY <1>4, <1>5
  <2>3. gprs = [r \in Index |-> Read(r)']
      BY <1>5, <1>10
  <2>4. MachineState' = [gprs |-> [r \in Index |-> Read(r)'], pc |-> pc',
                         hi |-> hilo'["hi"], lo |-> hilo'["lo"],
                         hi1 |-> hilo'["hi1"], lo1 |-> hilo'["lo1"]]
      BY DEF MachineState, Index
  <2> HIDE DEF gprs, paired
  <2>5. paired("hi") = hilo'["hi"] /\ paired("lo") = hilo'["lo"]
        /\ paired("hi1") = hilo'["hi1"] /\ paired("lo1") = hilo'["lo1"]
      BY <2>2 DEF HiLo
  <2>6. pc' = (pc + 4) % PC_MODULUS
      BY <1>1, PcModulusAssumption
  <2> QED
      BY <1>6, <2>1, <2>3, <2>4, <2>5, <2>6 DEF ModelsAgree
<1> QED
    BY <1>8, <1>9, <1>11 DEF AgreeInv

\* The two agree on the registers, HI/LO and the program counter after every instruction of
\* every program, from every initial state: the words and the operands of the run are
\* examples of it (reference/ee/r5900.py:1059-1104, r5900_execute.sv:167-1022).
THEOREM ModelsAlwaysAgree == LockstepSpec => []ModelsAgree
<1>1. LockstepInit => AgreeInv
  <2> SUFFICES ASSUME LockstepInit PROVE AgreeInv
      OBVIOUS
  <2>1. gpr \in PowerUpRegisters /\ hilo \in PowerUpPairs /\ model = MachineState
      BY DEF LockstepInit, Init
  <2> QED
      BY <2>1, PowerUpAssumption DEF AgreeInv, ModelsAgree
<1>2. AgreeInv /\ WordInv /\ [LockstepNext]_<<vars, model>> => AgreeInv'
  <2> SUFFICES ASSUME AgreeInv, WordInv, [LockstepNext]_<<vars, model>> PROVE AgreeInv'
      OBVIOUS
  <2>1. CASE Execution
      BY <2>1, StepAgrees
  <2>2. CASE FetchWord \/ Hang \/ UNCHANGED <<vars, model>>
    <3>1. gpr' = gpr /\ pc' = pc /\ hilo' = hilo /\ model' = model
        BY <2>2 DEF FetchWord, Fetch, Hang, vars
    <3>2. MachineState' = MachineState
        BY <3>1 DEF MachineState, Read
    <3> QED
        BY <3>1, <3>2 DEF AgreeInv, ModelsAgree
  <2> QED
      BY <2>1, <2>2 DEF LockstepNext
<1>3. AgreeInv => ModelsAgree
    BY DEF AgreeInv
<1> QED
    BY <1>1, <1>2, <1>3, WordInvariant, PTL DEF LockstepSpec
===============================================================================
