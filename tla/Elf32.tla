-------------------------------- MODULE Elf32 --------------------------------
(***************************************************************************)
(* The ELF32 container as the program loader reads it (sim/loaders/elf32.py).  *)
(*                                                                         *)
(* An image is a record: its size in bytes, the identification and header     *)
(* fields the loader examines, and the program-header table decoded at phoff.  *)
(* Reading a field in the declared byte order is abstracted: an image that     *)
(* declares another order is another record.                                 *)
(***************************************************************************)
EXTENDS Integers

CONSTANT ELF32_ADDRESS_SPACE_SIZE   \* 2^32 in the code

ASSUME AddressSpaceAssumption == ELF32_ADDRESS_SPACE_SIZE \in Nat

ELF_IDENT_SIZE == 16
ELF32_HEADER_SIZE == 52
ELF32_PROGRAM_HEADER_SIZE == 32
ELFCLASS32 == 1
ELFDATA2LSB == 1
ELFDATA2MSB == 2
EV_CURRENT == 1
ET_EXEC == 2
EM_MIPS == 8
PT_LOAD == 1

\* parse_elf32_header succeeds; every other image is an ElfFormatError.
WellFormed(e) ==
    /\ e.size >= ELF_IDENT_SIZE
    /\ e.magic
    /\ e.class = ELFCLASS32
    /\ e.data \in {ELFDATA2LSB, ELFDATA2MSB}
    /\ e.identVersion = EV_CURRENT
    /\ e.size >= ELF32_HEADER_SIZE
    /\ e.version = EV_CURRENT
    /\ e.headerSize = ELF32_HEADER_SIZE

\* validate_ee_elf32_header accepts; every other header is an ElfTargetError.
EeTarget(e) ==
    /\ e.type = ET_EXEC
    /\ e.machine = EM_MIPS
    /\ e.data = ELFDATA2LSB

\* _parse_program_headers returns the table.
TableReadable(e) ==
    LET end == e.phoff + e.phnum * ELF32_PROGRAM_HEADER_SIZE
    IN  e.phnum # 0 =>
            /\ e.phentsize = ELF32_PROGRAM_HEADER_SIZE
            /\ end <= ELF32_ADDRESS_SPACE_SIZE
            /\ e.phoff <= e.size /\ end <= e.size

IsPowerOfTwo(n) == \E k \in 0 .. n : n = 2 ^ k

\* Elf32SegmentLoad: what one PT_LOAD entry asks for.
SegmentLoad(e, i) ==
    LET h == e.table[i]
    IN  [index |-> i, offset |-> h.offset, start |-> h.vaddr,
         filesz |-> h.filesz, memsz |-> h.memsz]

FileEndAddress(load) == load.start + load.filesz
MemoryEndAddress(load) == load.start + load.memsz
FileEndOffset(load) == load.offset + load.filesz

\* RawBinaryLoad: the range one raw image fills.
RawLoad(address, size) ==
    [index |-> 1, offset |-> 0, start |-> address, filesz |-> size, memsz |-> size]

------------------------------------------------------------------------------
(* What applying segments means, cell by cell; memory's cells count from 1. *)

InFile(load, a) == load.start < a /\ a <= FileEndAddress(load)
InTail(load, a) == FileEndAddress(load) < a /\ a <= MemoryEndAddress(load)

\* memory with the file bytes of these segments of image n in place and, if the caller
\* wants their tails filled, this value in the tails.
Filled(memory, segments, n, tails, zero) ==
    [a \in DOMAIN memory |->
        IF \E k \in DOMAIN segments : InFile(segments[k], a)
        THEN LET load == segments[CHOOSE k \in DOMAIN segments : InFile(segments[k], a)]
             IN  <<n, load.offset + (a - 1 - load.start)>>
        ELSE IF tails /\ \E k \in DOMAIN segments : InTail(segments[k], a) THEN zero
        ELSE memory[a]]
==============================================================================
