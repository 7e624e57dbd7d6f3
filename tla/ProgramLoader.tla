---------------------------- MODULE ProgramLoader ----------------------------
(***************************************************************************)
(* The program loaders: ELF images (sim/loaders/elf32.py) and raw binaries    *)
(* (sim/loaders/raw_binary.py), called one after the other on one caller-owned *)
(* bytearray, while the file that load_raw_binary_file names may be rewritten   *)
(* or removed at any time.                                                   *)
(*                                                                         *)
(* The ELF loader plans one program header per step and then fills memory one  *)
(* slice per step.  Bytes are symbolic: <<n, k>> is byte k of the image of the  *)
(* n-th call.  Slices are Python's: they clamp to the length, and an assignment *)
(* of another length resizes the bytearray.                                  *)
(***************************************************************************)
EXTENDS Elf32, Sequences

CONSTANTS
    MemorySize,    \* len(memory) as the caller allocates it
    MaxCalls,      \* bound: loader calls on one memory
    Requests,      \* Requests[n]: what the n-th call may ask for
    FileSizes,     \* sizes the raw file may have
    Missing,       \* the raw file does not exist
    Blank,         \* what the bytearray holds before any call
    ZeroByte,      \* what zero-fill writes
    None

ASSUME LoaderAssumption == MemorySize \in Nat /\ MaxCalls \in Nat
ASSUME FileSizesAssumption == FileSizes \ {Missing} \subseteq Nat

VARIABLES
    memory,        \* the bytearray
    fileSize,      \* the file on disk: its size, or Missing
    call,          \* number of the current or last call
    request,       \* the call in progress, or None
    phase,
    index,         \* next program header, or next planned load
    loads,         \* the plan so far
    outcome        \* what the last call returned or raised

vars == <<memory, fileSize, call, request, phase, index, loads, outcome>>

ElfApis == {"load_ee_elf32_file_segments", "load_ee_elf32_segments", "load_ee_elf32_image"}
ZeroFills(api) == api # "load_ee_elf32_file_segments"

\* What the decoded arguments of a call are: 32-bit fields are naturals, a raw load
\* address is any integer.
ASSUME RequestsAssumption ==
    \A n \in 1 .. MaxCalls : \A r \in Requests[n] :
        /\ r # None
        /\ r.api \in ElfApis \cup {"load_raw_binary", "load_raw_binary_file"}
        /\ r.address \in Int
        /\ r.image.size \in Nat
        /\ r.api \in ElfApis =>
               /\ r.image.phnum \in Nat
               /\ \A i \in 1 .. r.image.phnum :
                      LET h == r.image.table[i]
                      IN  /\ h.offset \in Nat /\ h.vaddr \in Nat /\ h.align \in Nat
                          /\ h.filesz \in Nat /\ h.memsz \in Nat

------------------------------------------------------------------------------
(* Python slices. *)

Clamp(k, n) == IF k < 0 THEN (IF k + n < 0 THEN 0 ELSE k + n)
               ELSE IF k > n THEN n ELSE k

\* Bytes a up to b of the current call's image.
Bytes(a, b) == [k \in 1 .. b - a |-> <<call, a + k - 1>>]

\* payload[from:to] of an image of this size.
PayloadSlice(size, from, to) == Bytes(Clamp(from, size), Clamp(to, size))

\* s with the elements from a up to b replaced by t.
Splice(s, a, b, t) ==
    [k \in 1 .. Len(s) - (b - a) + Len(t) |->
        CASE k <= a -> s[k]
          [] k > a /\ k <= a + Len(t) -> t[k - a]
          [] OTHER -> s[k - Len(t) + (b - a)]]

\* s[from:to] = t.
SliceAssign(s, from, to, t) ==
    LET a == Clamp(from, Len(s))
        b == Clamp(to, Len(s))
    IN  Splice(s, a, IF b < a THEN a ELSE b, t)

------------------------------------------------------------------------------
(* Calls. *)

Init ==
    /\ memory = [k \in 1 .. MemorySize |-> Blank]
    /\ fileSize \in FileSizes
    /\ call = 0
    /\ request = None
    /\ phase = "idle"
    /\ index = 0
    /\ loads = <<>>
    /\ outcome = None

FirstPhase(api) == CASE api \in ElfApis -> "header"
                     [] api = "load_raw_binary_file" -> "stat"
                     [] OTHER -> "raw"

Call ==
    /\ phase = "idle"
    /\ call < MaxCalls
    /\ \E r \in Requests[call + 1] :
           /\ request' = r
           /\ phase' = FirstPhase(r.api)
    /\ call' = call + 1
    /\ outcome' = None
    /\ UNCHANGED <<memory, fileSize, index, loads>>

Finish(result) ==
    /\ request' = None
    /\ phase' = "idle"
    /\ index' = 0
    /\ loads' = <<>>
    /\ outcome' = result
    /\ UNCHANGED <<fileSize, call>>

Raise(error) == Finish([error |-> error]) /\ UNCHANGED memory

------------------------------------------------------------------------------
(* load_ee_elf32_*: header, plan, apply, publish. *)

\* Mutant: the target policy is applied before the header is known to be well formed.
ParseHeader_TargetFirst ==
    /\ phase = "header"
    /\ LET e == request.image
       IN  CASE ~EeTarget(e)      -> Raise("ElfTargetError")
             [] EeTarget(e) /\ ~(WellFormed(e) /\ TableReadable(e)) ->
                    Raise("ElfFormatError")
             [] OTHER -> /\ phase' = "plan"
                         /\ index' = 1
                         /\ UNCHANGED <<memory, fileSize, call, request, loads, outcome>>

ParseHeader ==
    /\ phase = "header"
    /\ LET e == request.image
       IN  CASE ~WellFormed(e) -> Raise("ElfFormatError")
             [] WellFormed(e) /\ ~EeTarget(e) -> Raise("ElfTargetError")
             [] WellFormed(e) /\ EeTarget(e) /\ ~TableReadable(e) ->
                    Raise("ElfFormatError")
             [] OTHER -> /\ phase' = "plan"
                         /\ index' = 1
                         /\ UNCHANGED <<memory, fileSize, call, request, loads, outcome>>

\* Mutant: the file range is not compared with the image.
SegmentValid_NoImageBound(h, memorySize, imageSize) ==
    /\ h.filesz <= h.memsz
    /\ h.align \notin {0, 1} =>
           IsPowerOfTwo(h.align) /\ h.vaddr % h.align = h.offset % h.align
    /\ h.vaddr <= memorySize /\ h.vaddr + h.memsz <= memorySize

\* _validate_file_segment_load.
SegmentValid(h, memorySize, imageSize) ==
    /\ h.filesz <= h.memsz
    /\ h.align \notin {0, 1} =>
           IsPowerOfTwo(h.align) /\ h.vaddr % h.align = h.offset % h.align
    /\ h.offset + h.filesz <= ELF32_ADDRESS_SPACE_SIZE
    /\ h.vaddr + h.memsz <= ELF32_ADDRESS_SPACE_SIZE
    /\ h.offset <= imageSize /\ h.offset + h.filesz <= imageSize
    /\ h.vaddr <= memorySize /\ h.vaddr + h.memsz <= memorySize

\* Mutant: only the file-backed parts are compared.
Overlap_FileOnly(load, existing) ==
    /\ load.start < FileEndAddress(existing)
    /\ existing.start < FileEndAddress(load)

Overlap(load, existing) ==
    /\ load.start < MemoryEndAddress(existing)
    /\ existing.start < MemoryEndAddress(load)

\* One iteration of _plan_file_segment_loads.
PlanSegment ==
    /\ phase = "plan"
    /\ index <= request.image.phnum
    /\ LET h == request.image.table[index]
           load == SegmentLoad(request.image, index)
           ordered == loads # <<>> => loads[Len(loads)].start <= h.vaddr
           planned == /\ index' = index + 1
                      /\ UNCHANGED <<memory, fileSize, call, request, phase, outcome>>
       IN  \/ /\ h.type # PT_LOAD
              /\ planned /\ UNCHANGED loads
           \/ /\ h.type = PT_LOAD
              /\ ordered
              /\ SegmentValid(h, Len(memory), request.image.size)
              /\ \A k \in 1 .. Len(loads) : ~Overlap(load, loads[k])
              /\ planned /\ loads' = Append(loads, load)
           \/ /\ h.type = PT_LOAD
              /\ \/ ~ordered
                 \/ ~SegmentValid(h, Len(memory), request.image.size)
                 \/ \E k \in 1 .. Len(loads) : Overlap(load, loads[k])
              /\ Raise("ElfFormatError")

BeginApply ==
    /\ phase = "plan"
    /\ index > request.image.phnum
    /\ phase' = "copy"
    /\ index' = 1
    /\ UNCHANGED <<memory, fileSize, call, request, loads, outcome>>

CopyFileBytes ==
    /\ phase = "copy"
    /\ index <= Len(loads)
    /\ LET load == loads[index]
       IN  memory' = SliceAssign(memory, load.start, FileEndAddress(load),
                         PayloadSlice(request.image.size, load.offset, FileEndOffset(load)))
    /\ IF ZeroFills(request.api) THEN phase' = "zero" /\ UNCHANGED index
       ELSE index' = index + 1 /\ UNCHANGED phase
    /\ UNCHANGED <<fileSize, call, request, loads, outcome>>

\* Mutant: the zero bytes start where the file bytes did.
ZeroFill_FromStart ==
    /\ phase = "zero"
    /\ LET load == loads[index]
       IN  memory' = SliceAssign(memory, load.start, load.start + load.memsz - load.filesz,
                         [k \in 1 .. load.memsz - load.filesz |-> ZeroByte])
    /\ phase' = "copy"
    /\ index' = index + 1
    /\ UNCHANGED <<fileSize, call, request, loads, outcome>>

ZeroFill ==
    /\ phase = "zero"
    /\ LET load == loads[index]
       IN  memory' = SliceAssign(memory, FileEndAddress(load), MemoryEndAddress(load),
                         [k \in 1 .. load.memsz - load.filesz |-> ZeroByte])
    /\ phase' = "copy"
    /\ index' = index + 1
    /\ UNCHANGED <<fileSize, call, request, loads, outcome>>

Published(r, segments) ==
    IF r.api = "load_ee_elf32_image"
    THEN [api |-> r.api, segments |-> segments, entry |-> r.image.entry]
    ELSE [api |-> r.api, segments |-> segments]

Return ==
    /\ phase = "copy"
    /\ index > Len(loads)
    /\ Finish(Published(request, loads))
    /\ UNCHANGED memory

------------------------------------------------------------------------------
(* load_raw_binary and load_raw_binary_file. *)

\* _validate_load_range.
RangeValid(address, size) ==
    address >= 0 /\ address <= Len(memory) /\ address + size <= Len(memory)

LoadRaw(size) ==
    \/ /\ RangeValid(request.address, size)
       /\ memory' = SliceAssign(memory, request.address, request.address + size,
                                PayloadSlice(size, 0, size))
       /\ Finish(Published(request, <<RawLoad(request.address, size)>>))
    \/ ~RangeValid(request.address, size) /\ Raise("ValueError")

LoadRawBytes == phase = "raw" /\ LoadRaw(request.image.size)

StatFile ==
    /\ phase = "stat"
    /\ CASE fileSize = Missing -> Raise("OSError")
         [] fileSize # Missing /\ ~RangeValid(request.address, fileSize) ->
                Raise("ValueError")
         [] OTHER -> /\ phase' = "read"
                     /\ UNCHANGED <<memory, fileSize, call, request, index, loads, outcome>>

\* Mutant: the range validated at stat is trusted.
ReadFile_TrustsStat ==
    /\ phase = "read"
    /\ IF fileSize = Missing THEN Raise("OSError")
       ELSE /\ memory' = SliceAssign(memory, request.address, request.address + fileSize,
                                     PayloadSlice(fileSize, 0, fileSize))
            /\ Finish(Published(request, <<RawLoad(request.address, fileSize)>>))

\* read_bytes, then the range is validated again for the bytes actually read.
ReadFile ==
    /\ phase = "read"
    /\ IF fileSize = Missing THEN Raise("OSError") ELSE LoadRaw(fileSize)

\* Another program rewrites or removes the file; the other calls never look at it.
RewriteFile ==
    /\ request # None => request.api = "load_raw_binary_file"
    /\ fileSize' \in FileSizes
    /\ UNCHANGED <<memory, call, request, phase, index, loads, outcome>>

------------------------------------------------------------------------------
Next ==
    \/ Call
    \/ ParseHeader
    \/ PlanSegment
    \/ BeginApply
    \/ CopyFileBytes
    \/ ZeroFill
    \/ Return
    \/ LoadRawBytes
    \/ StatFile
    \/ ReadFile
    \/ RewriteFile

Spec == Init /\ [][Next]_vars

------------------------------------------------------------------------------
Cells == {Blank, ZeroByte} \cup ((1 .. MaxCalls) \X Nat)

\* Every slice assigned has the length of the slice it replaces, so the bytearray is
\* never resized (elf32.py:328-341, raw_binary.py:56).
TypeOK ==
    /\ memory \in [1 .. MemorySize -> Cells]
    /\ fileSize \in FileSizes
    /\ call \in 0 .. MaxCalls
    /\ phase \in {"idle", "header", "plan", "copy", "zero", "raw", "stat", "read"}
    /\ request = None <=> phase = "idle"
    /\ index \in Nat
    /\ \A k \in 1 .. Len(loads) : MemoryEndAddress(loads[k]) <= MemorySize

\* A call that returns has put into memory exactly what its result describes: the
\* bytes of its own image in order from each start address, and zeros up to
\* memory_size_bytes unless it is the file-only API (elf32.py:320-371,
\* raw_binary.py:45-68).  No later segment has overwritten an earlier one.
PublishedIsInMemory ==
    (outcome # None /\ "segments" \in DOMAIN outcome) =>
        \A k \in 1 .. Len(outcome.segments) :
            LET load == outcome.segments[k]
            IN  /\ \A b \in 0 .. load.filesz - 1 :
                       memory[load.start + b + 1] = <<call, load.offset + b>>
                /\ ZeroFills(outcome.api) =>
                       \A b \in load.filesz .. load.memsz - 1 :
                           memory[load.start + b + 1] = ZeroByte

------------------------------------------------------------------------------
(* The inductive invariant of the proofs: the plan lies in memory and in the image, its *)
(* segments are apart, and the loads already applied are in memory.             *)

LoadRecord == [index : Nat, offset : Nat, start : Nat, filesz : Nat, memsz : Nat]

LoadFits(load) ==
    /\ load.filesz <= load.memsz
    /\ MemoryEndAddress(load) <= MemorySize
    /\ FileEndOffset(load) <= request.image.size

FileBytesStored(load) ==
    \A b \in 0 .. load.filesz - 1 : memory[load.start + b + 1] = <<call, load.offset + b>>
ZeroTailStored(load) ==
    \A b \in load.filesz .. load.memsz - 1 : memory[load.start + b + 1] = ZeroByte
LoadStored(load, api) == FileBytesStored(load) /\ (ZeroFills(api) => ZeroTailStored(load))

PhaseOfRequest ==
    /\ request # None => call \in 1 .. MaxCalls /\ request \in Requests[call] /\ outcome = None
    /\ phase \in {"header", "plan", "copy", "zero"} => request.api \in ElfApis
    /\ phase = "raw" => request.api = "load_raw_binary"
    /\ phase \in {"stat", "read"} => request.api = "load_raw_binary_file"
    /\ phase \in {"plan", "copy", "zero"} => index \in Nat \ {0}

PlanApart ==
    \A j, k \in 1 .. Len(loads) : j < k => ~Overlap(loads[k], loads[j])

PlanStored ==
    /\ phase \in {"copy", "zero"} =>
           /\ index <= Len(loads) + 1
           /\ \A k \in 1 .. Len(loads) : k < index => LoadStored(loads[k], request.api)
    /\ phase = "zero" =>
           index <= Len(loads) /\ FileBytesStored(loads[index]) /\ ZeroFills(request.api)

\* The plan is that of the headers before index: their loadable ones in the order of the
\* table, each valid and none before the one it follows.
PlanOfTable ==
    phase = "plan" =>
        LET e == request.image
        IN  /\ WellFormed(e) /\ EeTarget(e) /\ TableReadable(e)
            /\ index <= e.phnum + 1
            /\ \A k \in 1 .. Len(loads) :
                   LET i == loads[k].index
                   IN  /\ i \in 1 .. index - 1 /\ e.table[i].type = PT_LOAD
                       /\ loads[k] = SegmentLoad(e, i)
                       /\ SegmentValid(e.table[i], MemorySize, e.size)
            /\ \A i \in 1 .. index - 1 :
                   e.table[i].type = PT_LOAD => \E k \in 1 .. Len(loads) : loads[k].index = i
            /\ \A j, k \in 1 .. Len(loads) : j < k =>
                   loads[j].index < loads[k].index /\ loads[j].start <= loads[k].start

LoaderInv ==
    /\ memory \in Seq(Cells) /\ Len(memory) = MemorySize
    /\ TypeOK
    /\ loads \in Seq(LoadRecord)
    /\ phase \notin {"plan", "copy", "zero"} => loads = <<>>
    /\ \A k \in 1 .. Len(loads) : LoadFits(loads[k])
    /\ PhaseOfRequest
    /\ PlanApart
    /\ PlanStored
    /\ PublishedIsInMemory

------------------------------------------------------------------------------
(* The loader implements AtomicLoader: it commits when its plan is complete. *)

Applying == phase \in {"copy", "zero"}

\* Memory once the remaining loads are applied.
Completed ==
    Filled(memory, [k \in index .. Len(loads) |-> loads[k]], call, ZeroFills(request.api), ZeroByte)

Atomic == INSTANCE AtomicLoader WITH
    memory <- IF Applying THEN Completed ELSE memory,
    request <- IF Applying THEN None ELSE request,
    outcome <- IF Applying THEN Published(request, loads) ELSE outcome

\* Every call is all or nothing: its whole image is loaded as a declarative reading of
\* it says, or it raises and memory is what it was ("Atomically", elf32.py:348,358;
\* docs/SIMULATION_PLATFORM.md:137-147).  In particular a malformed later segment
\* never leaves an earlier one behind, and each error is raised on the images it names.
ImplementsAtomicLoader == Atomic!Spec
==============================================================================
