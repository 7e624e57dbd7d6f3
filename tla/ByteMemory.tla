------------------------------ MODULE ByteMemory ------------------------------
(***************************************************************************)
(* The byte-addressed reference model of the tests                           *)
(* (reference/common/byte_memory.py, ByteMemoryModel).                        *)
(*                                                                         *)
(* The model's data is a function from its addresses to bytes.  A value of n   *)
(* bytes is its sixteen little-endian lanes: it is out of the range of an       *)
(* n-byte access when a lane from n up is not zero.  A strobe is a set of       *)
(* lanes.  An operation on valid arguments returns the new data, or the value    *)
(* read; every other one raises.                                            *)
(***************************************************************************)
EXTENDS Integers

CONSTANTS MemoryByte, MemoryZero, ValueError

WORD_BYTES == 4
DOUBLEWORD_BYTES == 8
QUADWORD_BYTES == 16

ValueLane == 0 .. QUADWORD_BYTES - 1

\* Mutant: alignment is not checked.
AccessValid_Misaligned(data, address, n) ==
    address >= 0 /\ address + n - 1 \in DOMAIN data

\* The checks that read32, read64, read128 and the writes of each width share.
AccessValid(data, address, n) ==
    /\ address % n = 0
    /\ address >= 0
    /\ address + n - 1 \in DOMAIN data

ValueValid(value, n) == \A lane \in ValueLane : lane >= n => value[lane] = MemoryZero
StrobeValid(strobe, n) == strobe \subseteq 0 .. n - 1

\* read32, read64, read128.
Read(data, address, n) ==
    IF AccessValid(data, address, n)
    THEN [lane \in ValueLane |-> IF lane < n THEN data[address + lane] ELSE MemoryZero]
    ELSE ValueError

\* Mutant: lanes that are not enabled are cleared.
WriteMasked_ClearsDisabled(data, address, n, value, strobe) ==
    IF AccessValid(data, address, n) /\ ValueValid(value, n) /\ StrobeValid(strobe, n)
    THEN [a \in DOMAIN data |->
             IF a - address \in strobe THEN value[a - address]
             ELSE IF a - address \in 0 .. n - 1 THEN MemoryZero ELSE data[a]]
    ELSE ValueError

\* write32_masked, write64_masked, write128_masked.
WriteMasked(data, address, n, value, strobe) ==
    IF AccessValid(data, address, n) /\ ValueValid(value, n) /\ StrobeValid(strobe, n)
    THEN [a \in DOMAIN data |->
             IF a - address \in strobe THEN value[a - address] ELSE data[a]]
    ELSE ValueError

\* write32, write64, write128.
Write(data, address, n, value) == WriteMasked(data, address, n, value, 0 .. n - 1)

\* write_byte.
WriteByte(data, address, value) ==
    IF address \in DOMAIN data /\ value \in MemoryByte
    THEN [data EXCEPT ![address] = value]
    ELSE ValueError
==============================================================================
