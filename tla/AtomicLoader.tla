----------------------------- MODULE AtomicLoader -----------------------------
(***************************************************************************)
(* What a loader call promises: it stores the whole of its image in one step,  *)
(* or it raises and stores nothing.  Which images are loadable is stated over   *)
(* the whole program-header table, not entry by entry.                       *)
(***************************************************************************)
EXTENDS Elf32, Sequences

CONSTANTS MemorySize, FileSizes, Missing, Blank, ZeroByte, None

VARIABLES memory, fileSize, call, request, outcome

vars == <<memory, fileSize, call, request, outcome>>

Loadable(e) == {i \in 1 .. e.phnum : e.table[i].type = PT_LOAD}

\* The addresses [from, to) of a range, together with its start.
Range(from, to) == {from} \cup from .. to - 1

\* An entry by itself: its ranges lie where they should, its file part fits its memory
\* part, and the two are congruent modulo the alignment it asks for.
EntryFits(h, size) ==
    /\ Range(h.offset, h.offset + h.filesz) \subseteq 0 .. size
    /\ h.offset + h.filesz <= size
    /\ Range(h.vaddr, h.vaddr + h.memsz) \subseteq 0 .. MemorySize
    /\ h.vaddr + h.memsz <= MemorySize
    /\ h.filesz <= h.memsz
    /\ h.offset + h.filesz <= ELF32_ADDRESS_SPACE_SIZE
    /\ h.vaddr + h.memsz <= ELF32_ADDRESS_SPACE_SIZE
    /\ h.align > 1 => \E k \in 1 .. h.align : h.align = 2 ^ k
                                               /\ (h.vaddr - h.offset) % h.align = 0

\* An entry g may follow the entry h: it starts no lower and shares no address with it.
MayFollow(h, g) ==
    /\ h.vaddr <= g.vaddr
    /\ \/ h.vaddr + h.memsz <= g.vaddr
       \/ h.vaddr = g.vaddr /\ g.memsz = 0

\* The whole table makes sense.
Consistent(e) ==
    /\ \A i \in Loadable(e) : EntryFits(e.table[i], e.size)
    /\ \A i, j \in Loadable(e) : i < j => MayFollow(e.table[i], e.table[j])

\* The loadable entries, one segment each, in the order of the table.
InTableOrder(e, segments) ==
    /\ segments \in Seq({SegmentLoad(e, i) : i \in Loadable(e)})
    /\ \A i \in Loadable(e) : \E k \in DOMAIN segments : segments[k].index = i
    /\ \A j, k \in DOMAIN segments : j < k => segments[j].index < segments[k].index

Returned(r, segments) ==
    IF r.api = "load_ee_elf32_image"
    THEN [api |-> r.api, segments |-> segments, entry |-> r.image.entry]
    ELSE [api |-> r.api, segments |-> segments]

ElfOutcome(r, result) ==
    LET e == r.image
        loadable == TableReadable(e) /\ Consistent(e)
    IN  \/ ~WellFormed(e) /\ result = [error |-> "ElfFormatError"]
        \/ WellFormed(e) /\ ~EeTarget(e) /\ result = [error |-> "ElfTargetError"]
        \/ WellFormed(e) /\ EeTarget(e) /\ ~loadable /\ result = [error |-> "ElfFormatError"]
        \/ /\ WellFormed(e) /\ EeTarget(e) /\ loadable
           /\ "segments" \in DOMAIN result
           /\ InTableOrder(e, result.segments)
           /\ result = Returned(r, result.segments)

RawOutcome(r, size, result) ==
    result = IF r.address \in 0 .. MemorySize - size
             THEN Returned(r, <<RawLoad(r.address, size)>>)
             ELSE [error |-> "ValueError"]

\* The outcome a call may have while the file is as it is now.
Outcome(r, result) ==
    CASE r.api = "load_raw_binary" -> RawOutcome(r, r.image.size, result)
      [] r.api = "load_raw_binary_file" ->
             IF fileSize = Missing THEN result = [error |-> "OSError"]
             ELSE RawOutcome(r, fileSize, result)
      [] OTHER -> ElfOutcome(r, result)

\* Memory with the segments of an outcome stored.
Stored(r, result) ==
    IF "segments" \notin DOMAIN result THEN memory
    ELSE Filled(memory, result.segments, call, r.api # "load_ee_elf32_file_segments", ZeroByte)

Init ==
    /\ memory = [k \in 1 .. MemorySize |-> Blank]
    /\ fileSize \in FileSizes
    /\ call = 0
    /\ request = None
    /\ outcome = None

Call ==
    /\ request = None
    /\ request' # None      \* whatever the caller asks for
    /\ call' = call + 1
    /\ outcome' = None
    /\ UNCHANGED <<memory, fileSize>>

Complete ==
    /\ request # None
    /\ request' = None
    /\ Outcome(request, outcome')
    /\ memory' = Stored(request, outcome')
    /\ UNCHANGED <<fileSize, call>>

RewriteFile ==
    /\ request # None => request.api = "load_raw_binary_file"
    /\ fileSize' \in FileSizes
    /\ UNCHANGED <<memory, call, request, outcome>>

Next == Call \/ Complete \/ RewriteFile

Spec == Init /\ [][Next]_vars
==============================================================================
