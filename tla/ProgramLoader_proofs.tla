------------------------- MODULE ProgramLoader_proofs -------------------------
(***************************************************************************)
(* Proofs about the program loaders, for every memory size, number of calls,    *)
(* request and behaviour of the raw file.                                     *)
(*                                                                         *)
(* LoaderInv is inductive.  A planned load lies in memory and in its image, so   *)
(* the slices are exact and the bytearray keeps its length; planned loads are     *)
(* apart, so applying one leaves those already applied alone.                  *)
(*                                                                         *)
(* The refinement commits an ELF load at BeginApply, the step after which it     *)
(* cannot fail.  PlanOfTable, inductive beside LoaderInv, says that the plan so    *)
(* far is what the table asks for, so the checks made one entry at a time decide   *)
(* what AtomicLoader asks of the whole table.  While the slices are applied,        *)
(* Completed is the memory with the rest of the plan filled in: no slice changes it.  *)
(***************************************************************************)
EXTENDS ProgramLoader, SequenceTheorems, TLAPS

USE DEF vars

-----------------------------------------------------------------------------
(* Python slices. *)

\* Assigning a slice that lies in the sequence and has the length of its replacement
\* changes the slice and nothing else.
LEMMA SliceExact ==
    ASSUME NEW S, NEW s \in Seq(S), NEW from \in Nat, NEW to \in Nat,
           NEW t, from <= to, to <= Len(s), Len(t) = to - from,
           \A k \in 1 .. to - from : t[k] \in S
    PROVE  /\ SliceAssign(s, from, to, t) \in Seq(S)
           /\ Len(SliceAssign(s, from, to, t)) = Len(s)
           /\ \A k \in 1 .. Len(s) :
                SliceAssign(s, from, to, t)[k] = IF from < k /\ k <= to THEN t[k - from] ELSE s[k]
<1>1. Len(s) \in Nat /\ \A k \in 1 .. Len(s) : s[k] \in S
    BY LenProperties, ElementOfSeq
<1>2. Clamp(from, Len(s)) = from /\ Clamp(to, Len(s)) = to
    BY <1>1 DEF Clamp
<1> DEFINE new == [k \in 1 .. Len(s) |->
                      IF k <= from THEN s[k] ELSE IF k <= to THEN t[k - from] ELSE s[k]]
<1>3. SliceAssign(s, from, to, t) = new
  <2>1. (IF to < from THEN from ELSE to) = to /\ Len(s) - (to - from) + Len(t) = Len(s)
      BY <1>1
  <2> DEFINE cell(k) == CASE k <= from -> s[k]
                          [] k > from /\ k <= from + Len(t) -> t[k - from]
                          [] OTHER -> s[k - Len(t) + (to - from)]
  <2>2. SliceAssign(s, from, to, t) = [k \in 1 .. Len(s) |-> cell(k)]
    <3>1. SliceAssign(s, from, to, t) = Splice(s, from, to, t)
        BY <1>2, <2>1 DEF SliceAssign
    <3> QED
        BY <2>1, <3>1 DEF Splice
  <2>3. ASSUME NEW k \in 1 .. Len(s)
        PROVE  cell(k) = IF k <= from THEN s[k] ELSE IF k <= to THEN t[k - from] ELSE s[k]
    <3>1. k - Len(t) + (to - from) = k /\ from + Len(t) = to
        BY <1>1
    <3>2. k > from <=> ~(k <= from)
        BY <1>1
    <3>3. CASE k <= from
        BY <3>2, <3>3
    <3>4. CASE k > from /\ k <= to
        BY <3>1, <3>2, <3>4
    <3>5. CASE k > from /\ ~(k <= to)
        BY <3>1, <3>2, <3>5
    <3> QED
        BY <3>2, <3>3, <3>4, <3>5
  <2> QED
      BY ONLY <2>2, <2>3
<1>4. \A k \in 1 .. Len(s) : new[k] \in S
    BY <1>1
<1>5. new \in Seq(S) /\ Len(new) = Len(s)
    BY <1>1, <1>4
<1> QED
    BY <1>1, <1>3, <1>5

\* What lies in memory is a function on its addresses.
LEMMA MemoryFunction ==
    ASSUME NEW m \in Seq(Cells), Len(m) = MemorySize
    PROVE  m \in [1 .. MemorySize -> Cells]
    BY LenProperties

-----------------------------------------------------------------------------
(* Calls that leave memory alone. *)

\* What the arguments of the call in progress are.
LEMMA RequestFacts ==
    ASSUME LoaderInv, request # None
    PROVE  /\ call \in 1 .. MaxCalls /\ call \in Nat
           /\ request.address \in Int /\ request.image.size \in Nat
           /\ request.api \in ElfApis =>
                 /\ request.image.phnum \in Nat
                 /\ \A i \in 1 .. request.image.phnum :
                       /\ request.image.table[i].offset \in Nat
                       /\ request.image.table[i].vaddr \in Nat
                       /\ request.image.table[i].align \in Nat
                       /\ request.image.table[i].filesz \in Nat
                       /\ request.image.table[i].memsz \in Nat
<1>1. call \in 1 .. MaxCalls /\ request \in Requests[call]
    BY DEF LoaderInv, PhaseOfRequest
<1> QED
    BY <1>1, RequestsAssumption, LoaderAssumption

\* Nothing is planned, nothing is published.
LEMMA InitLoaderInv == Init => LoaderInv
<1> SUFFICES ASSUME Init PROVE LoaderInv
    OBVIOUS
<1>1. memory \in Seq(Cells) /\ Len(memory) = MemorySize
    BY LoaderAssumption DEF Init, Cells
<1>2. loads = <<>> /\ loads \in Seq(LoadRecord) /\ Len(loads) = 0
    BY EmptySeq DEF Init
<1>3. request = None /\ phase = "idle" /\ outcome = None
    BY DEF Init
<1>4. TypeOK
    BY <1>1, <1>2, <1>3, MemoryFunction, LoaderAssumption DEF Init, TypeOK
<1>5. PhaseOfRequest /\ PlanStored /\ PublishedIsInMemory
    BY <1>3 DEF PhaseOfRequest, PlanStored, PublishedIsInMemory
<1>6. PlanApart /\ \A k \in 1 .. Len(loads) : LoadFits(loads[k])
    BY <1>2 DEF PlanApart
<1> QED
    BY <1>1, <1>2, <1>4, <1>5, <1>6 DEF LoaderInv

\* A call that raises leaves memory as it was and forgets its plan.
LEMMA RaiseLoaderInv ==
    ASSUME LoaderInv, NEW error, Raise(error)
    PROVE  LoaderInv'
<1>1. /\ memory' = memory /\ fileSize' = fileSize /\ call' = call
      /\ request' = None /\ phase' = "idle" /\ index' = 0 /\ loads' = <<>>
      /\ outcome' = [error |-> error]
    BY DEF Raise, Finish
<1>2. loads' \in Seq(LoadRecord) /\ Len(loads') = 0
    BY <1>1, EmptySeq
<1>3. PublishedIsInMemory'
  <2>1. DOMAIN outcome' = {"error"}
      BY <1>1
  <2> QED
      BY <2>1 DEF PublishedIsInMemory
<1>4. TypeOK'
    BY <1>1, <1>2 DEF LoaderInv, TypeOK
<1> QED
    BY <1>1, <1>2, <1>3, <1>4 DEF LoaderInv, PhaseOfRequest, PlanApart, PlanStored

LEMMA CallLoaderInv ==
    ASSUME LoaderInv, Call
    PROVE  LoaderInv'
<1>1. PICK r \in Requests[call + 1] :
        /\ phase = "idle" /\ call < MaxCalls
        /\ request' = r /\ phase' = FirstPhase(r.api) /\ call' = call + 1 /\ outcome' = None
        /\ memory' = memory /\ fileSize' = fileSize /\ index' = index /\ loads' = loads
    BY DEF Call
<1>2. call' \in 1 .. MaxCalls /\ call' \in 0 .. MaxCalls
    BY <1>1, LoaderAssumption DEF LoaderInv, TypeOK
<1>3. r # None /\ r.api \in ElfApis \cup {"load_raw_binary", "load_raw_binary_file"}
    BY <1>1, <1>2, RequestsAssumption
<1>4. /\ phase' \in {"header", "raw", "stat"}
      /\ phase' = "header" => r.api \in ElfApis
      /\ phase' = "raw" => r.api = "load_raw_binary"
      /\ phase' = "stat" => r.api = "load_raw_binary_file"
    BY <1>1, <1>3 DEF FirstPhase, ElfApis
<1>5. loads = <<>> /\ Len(loads) = 0
    BY <1>1, EmptySeq DEF LoaderInv
<1>6. TypeOK'
    BY <1>1, <1>2, <1>3, <1>4, <1>5 DEF LoaderInv, TypeOK
<1> QED
    BY <1>1, <1>2, <1>3, <1>4, <1>5, <1>6
       DEF LoaderInv, PhaseOfRequest, PlanApart, PlanStored, PublishedIsInMemory

\* A step that only moves on within a call in progress.
LEMMA MoveLoaderInv ==
    ASSUME LoaderInv, request # None,
           UNCHANGED <<memory, fileSize, call, request, loads, outcome>>,
           index' \in Nat, phase' \in {"plan", "copy", "read"},
           phase' = "read" => loads = <<>> /\ request.api = "load_raw_binary_file",
           phase' \in {"plan", "copy"} => request.api \in ElfApis /\ index' # 0,
           phase' = "copy" => index' = 1
    PROVE  LoaderInv'
<1>1. TypeOK'
    BY DEF LoaderInv, TypeOK
<1>2. Len(loads) \in Nat
    BY LenProperties DEF LoaderInv
<1>3. PlanStored'
    BY <1>2 DEF PlanStored
<1>4. (\A k \in 1 .. Len(loads) : LoadFits(loads[k]))'
    BY DEF LoaderInv, LoadFits, MemoryEndAddress, FileEndOffset
<1> QED
    BY <1>1, <1>3, <1>4 DEF LoaderInv, PhaseOfRequest, PlanApart, PublishedIsInMemory

LEMMA ParseLoaderInv ==
    ASSUME LoaderInv, ParseHeader
    PROVE  LoaderInv'
<1>1. phase = "header" /\ request # None /\ request.api \in ElfApis
    BY DEF ParseHeader, LoaderInv, TypeOK, PhaseOfRequest
<1>2. \/ \E error \in {"ElfFormatError", "ElfTargetError"} : Raise(error)
      \/ /\ phase' = "plan" /\ index' = 1
         /\ UNCHANGED <<memory, fileSize, call, request, loads, outcome>>
    BY DEF ParseHeader
<1> QED
    BY <1>1, <1>2, RaiseLoaderInv, MoveLoaderInv

LEMMA BeginApplyLoaderInv ==
    ASSUME LoaderInv, BeginApply
    PROVE  LoaderInv'
<1>1. request # None /\ request.api \in ElfApis
    BY DEF BeginApply, LoaderInv, TypeOK, PhaseOfRequest
<1> QED
    BY <1>1, MoveLoaderInv DEF BeginApply

LEMMA StatLoaderInv ==
    ASSUME LoaderInv, StatFile
    PROVE  LoaderInv'
<1>1. /\ phase = "stat" /\ request # None /\ loads = <<>> /\ index \in Nat
      /\ request.api = "load_raw_binary_file"
    BY DEF StatFile, LoaderInv, TypeOK, PhaseOfRequest
<1>2. \/ \E error \in {"OSError", "ValueError"} : Raise(error)
      \/ phase' = "read" /\ UNCHANGED <<memory, fileSize, call, request, index, loads, outcome>>
    BY DEF StatFile
<1> QED
    BY <1>1, <1>2, RaiseLoaderInv, MoveLoaderInv

LEMMA RewriteLoaderInv ==
    ASSUME LoaderInv, RewriteFile
    PROVE  LoaderInv'
<1>1. fileSize' \in FileSizes /\ UNCHANGED <<memory, call, request, phase, index, loads, outcome>>
    BY DEF RewriteFile
<1>2. TypeOK'
    BY <1>1 DEF LoaderInv, TypeOK
<1>3. (\A k \in 1 .. Len(loads) : LoadFits(loads[k]))'
    BY <1>1 DEF LoaderInv, LoadFits, MemoryEndAddress, FileEndOffset
<1>4. PlanStored'
    BY <1>1 DEF LoaderInv, PlanStored, LoadStored, FileBytesStored, ZeroTailStored
<1> QED
    BY <1>1, <1>2, <1>3, <1>4, ZenonT(90) DEF LoaderInv, PhaseOfRequest, PlanApart, PublishedIsInMemory

-----------------------------------------------------------------------------
(* The plan. *)

\* A load that was found valid joins a plan whose loads it does not overlap.
LEMMA PlanLoaderInv ==
    ASSUME LoaderInv, PlanSegment
    PROVE  LoaderInv'
<1> DEFINE h == request.image.table[index]
           load == SegmentLoad(request.image, index)
<1>1. /\ phase = "plan" /\ index <= request.image.phnum
      /\ request # None /\ request.api \in ElfApis /\ index \in Nat /\ index # 0
    BY DEF PlanSegment, LoaderInv, TypeOK, PhaseOfRequest
<1>2. /\ request.image.size \in Nat
      /\ h.offset \in Nat /\ h.vaddr \in Nat /\ h.filesz \in Nat /\ h.memsz \in Nat
    BY <1>1, RequestFacts
<1>3. CASE Raise("ElfFormatError")
    BY <1>3, RaiseLoaderInv
<1>4. CASE /\ index' = index + 1 /\ loads' = loads
           /\ UNCHANGED <<memory, fileSize, call, request, phase, outcome>>
    BY <1>1, <1>4, MoveLoaderInv
<1>5. CASE /\ SegmentValid(h, Len(memory), request.image.size)
           /\ \A k \in 1 .. Len(loads) : ~Overlap(load, loads[k])
           /\ index' = index + 1 /\ loads' = Append(loads, load)
           /\ UNCHANGED <<memory, fileSize, call, request, phase, outcome>>
  <2>1. load \in LoadRecord
      BY <1>1, <1>2 DEF SegmentLoad, LoadRecord
  <2>2. LoadFits(load)
      BY <1>2, <1>5 DEF LoaderInv, SegmentValid, SegmentLoad, LoadFits, MemoryEndAddress, FileEndOffset
  <2>3. /\ loads' \in Seq(LoadRecord) /\ Len(loads) \in Nat /\ Len(loads') = Len(loads) + 1
        /\ loads'[Len(loads) + 1] = load
        /\ \A k \in 1 .. Len(loads) : loads'[k] = loads[k]
      BY <1>5, <2>1, LenProperties DEF LoaderInv
  <2>4. \A k \in 1 .. Len(loads') : LoadFits(loads'[k])
      BY <2>2, <2>3 DEF LoaderInv
  <2>5. (\A k \in 1 .. Len(loads) : LoadFits(loads[k]))'
      BY <1>5, <2>4 DEF LoadFits
  <2>6. PlanApart'
    <3> SUFFICES ASSUME NEW j \in 1 .. Len(loads'), NEW k \in 1 .. Len(loads'), j < k
                 PROVE  ~Overlap(loads'[k], loads'[j])
        BY DEF PlanApart, Overlap, MemoryEndAddress
    <3>1. j \in 1 .. Len(loads) /\ loads'[j] = loads[j]
        BY <2>3
    <3>2. CASE k = Len(loads) + 1
        BY <1>5, <2>3, <3>1, <3>2
    <3>3. CASE k \in 1 .. Len(loads)
        BY <2>3, <3>1, <3>3 DEF LoaderInv, PlanApart
    <3> QED
        BY <2>3, <3>2, <3>3
  <2>7. TypeOK'
      BY <1>1, <1>5, <2>5 DEF LoaderInv, TypeOK, LoadFits
  <2>8. PhaseOfRequest' /\ PlanStored' /\ PublishedIsInMemory'
      BY <1>1, <1>5 DEF LoaderInv, PhaseOfRequest, PlanStored, PublishedIsInMemory
  <2> QED
      BY <1>1, <1>5, <2>3, <2>5, <2>6, <2>7, <2>8 DEF LoaderInv
<1> QED
    BY <1>3, <1>4, <1>5 DEF PlanSegment

-----------------------------------------------------------------------------
(* Applying the plan. *)

\* A planned load as the numbers that apply it.
LEMMA PlannedLoad ==
    ASSUME LoaderInv, request # None, NEW k \in 1 .. Len(loads)
    PROVE  /\ loads[k] \in LoadRecord
           /\ loads[k].start \in Nat /\ loads[k].filesz \in Nat /\ loads[k].memsz \in Nat
           /\ loads[k].offset \in Nat
           /\ FileEndAddress(loads[k]) = loads[k].start + loads[k].filesz
           /\ MemoryEndAddress(loads[k]) = loads[k].start + loads[k].memsz
           /\ FileEndOffset(loads[k]) = loads[k].offset + loads[k].filesz
           /\ loads[k].filesz <= loads[k].memsz
           /\ loads[k].start + loads[k].memsz <= MemorySize
           /\ loads[k].offset + loads[k].filesz <= request.image.size
           /\ request.image.size \in Nat /\ call \in 1 .. MaxCalls
<1>1. loads[k] \in LoadRecord
    BY ElementOfSeq DEF LoaderInv
<1>2. LoadFits(loads[k])
    BY DEF LoaderInv
<1> QED
    BY <1>1, <1>2, RequestFacts
       DEF LoadRecord, LoadFits, FileEndAddress, MemoryEndAddress, FileEndOffset

\* Loads that are apart share no address.
LEMMA ApartCells ==
    ASSUME LoaderInv, request # None, NEW j \in 1 .. Len(loads), NEW k \in 1 .. Len(loads), j < k,
           NEW b \in 0 .. loads[j].memsz - 1
    PROVE  ~(loads[k].start < loads[j].start + b + 1
             /\ loads[j].start + b + 1 <= loads[k].start + loads[k].memsz)
<1>1. ~Overlap(loads[k], loads[j])
    BY DEF LoaderInv, PlanApart
<1>2. /\ loads[k].start \in Nat /\ loads[k].memsz \in Nat
      /\ MemoryEndAddress(loads[k]) = loads[k].start + loads[k].memsz
    BY PlannedLoad
<1>3. /\ loads[j].start \in Nat /\ loads[j].memsz \in Nat
      /\ MemoryEndAddress(loads[j]) = loads[j].start + loads[j].memsz
    BY PlannedLoad
<1>4. ~(loads[k].start < loads[j].start + loads[j].memsz
        /\ loads[j].start < loads[k].start + loads[k].memsz)
    BY <1>1, <1>2, <1>3 DEF Overlap
<1> QED
    BY <1>2, <1>3, <1>4, SMTT(60)

\* A store inside one load leaves the loads before it stored.
LEMMA EarlierKept ==
    ASSUME LoaderInv, request # None, UNCHANGED <<call, request, loads>>,
           NEW k \in 1 .. Len(loads), NEW j \in 1 .. Len(loads), j < k,
           LoadStored(loads[j], request.api),
           \A a \in 1 .. MemorySize :
              memory'[a] # memory[a] => loads[k].start < a /\ a <= loads[k].start + loads[k].memsz
    PROVE  LoadStored(loads[j], request.api)'
<1>1. /\ loads[j].start \in Nat /\ loads[j].filesz \in Nat /\ loads[j].memsz \in Nat
      /\ loads[j].filesz <= loads[j].memsz /\ loads[j].start + loads[j].memsz <= MemorySize
    BY PlannedLoad
<1>2. ASSUME NEW b \in 0 .. loads[j].memsz - 1
      PROVE  memory'[loads[j].start + b + 1] = memory[loads[j].start + b + 1]
  <2>1. loads[j].start + b + 1 \in 1 .. MemorySize
      BY <1>1, LoaderAssumption, SMTT(60)
  <2> QED
      BY <2>1, ApartCells
<1>3. FileBytesStored(loads[j])'
  <2>1. \A b \in 0 .. loads[j].filesz - 1 : b \in 0 .. loads[j].memsz - 1
      BY <1>1
  <2> QED
      BY <1>2, <2>1 DEF LoadStored, FileBytesStored
<1>4. (ZeroFills(request.api) => ZeroTailStored(loads[j]))'
  <2>1. \A b \in loads[j].filesz .. loads[j].memsz - 1 : b \in 0 .. loads[j].memsz - 1
      BY <1>1
  <2> QED
      BY <1>2, <2>1 DEF LoadStored, ZeroTailStored
<1> QED
    BY <1>3, <1>4 DEF LoadStored

\* What storing a slice of memory does, for a slice that lies in memory.
LEMMA StoreExact ==
    ASSUME LoaderInv, NEW from \in Nat, NEW to \in Nat, NEW t,
           from <= to, to <= MemorySize, Len(t) = to - from,
           \A k \in 1 .. to - from : t[k] \in Cells,
           memory' = SliceAssign(memory, from, to, t)
    PROVE  /\ memory' \in Seq(Cells) /\ Len(memory') = MemorySize
           /\ \A a \in 1 .. MemorySize :
                memory'[a] = IF from < a /\ a <= to THEN t[a - from] ELSE memory[a]
<1>1. memory \in Seq(Cells) /\ Len(memory) = MemorySize
    BY DEF LoaderInv
<1>2. /\ SliceAssign(memory, from, to, t) \in Seq(Cells)
      /\ Len(SliceAssign(memory, from, to, t)) = Len(memory)
      /\ \A a \in 1 .. Len(memory) :
           SliceAssign(memory, from, to, t)[a] =
              IF from < a /\ a <= to THEN t[a - from] ELSE memory[a]
  <2>1. to <= Len(memory)
      BY <1>1
  <2> QED
      BY <1>1, <2>1, SliceExact, SMTT(90)
<1> QED
    BY <1>1, <1>2

\* Storing bytes of the image puts them there in order and changes nothing else.
LEMMA CopyExact ==
    ASSUME LoaderInv, call \in 1 .. MaxCalls,
           NEW size \in Nat, NEW offset \in Nat, NEW start \in Nat, NEW n \in Nat,
           NEW to, to = start + n, to <= MemorySize,
           NEW end, end = offset + n, end <= size,
           memory' = SliceAssign(memory, start, to, PayloadSlice(size, offset, end))
    PROVE  /\ memory' \in Seq(Cells) /\ Len(memory') = MemorySize
           /\ \A b \in 0 .. n - 1 : memory'[start + b + 1] = <<call, offset + b>>
           /\ \A a \in 1 .. MemorySize : memory'[a] # memory[a] => start < a /\ a <= start + n
<1> DEFINE t == PayloadSlice(size, offset, offset + n)
<1>1. Len(t) = n /\ \A k \in 1 .. n : t[k] = <<call, offset + k - 1>>
  <2>1. Clamp(offset, size) = offset /\ Clamp(offset + n, size) = offset + n
      BY DEF Clamp
  <2>2. t = [k \in 1 .. (offset + n) - offset |-> <<call, offset + k - 1>>]
      BY <2>1 DEF PayloadSlice, Bytes
  <2>3. (offset + n) - offset = n
      OBVIOUS
  <2> HIDE DEF t
  <2>4. t = [k \in 1 .. n |-> <<call, offset + k - 1>>]
      BY <2>2, <2>3
  <2> QED
      BY <2>4
<1>2. \A k \in 1 .. n : t[k] \in Cells
  <2> HIDE DEF t
  <2> SUFFICES ASSUME NEW k \in 1 .. n PROVE t[k] \in Cells
      OBVIOUS
  <2>1. offset + k - 1 \in Nat
      OBVIOUS
  <2>2. <<call, offset + k - 1>> \in (1 .. MaxCalls) \X Nat
      BY <2>1
  <2> QED
      BY <1>1, <2>2 DEF Cells
<1>3. start + n \in Nat /\ start <= start + n /\ (start + n) - start = n
    OBVIOUS
<1> HIDE DEF t
<1>4. /\ memory' \in Seq(Cells) /\ Len(memory') = MemorySize
      /\ \A a \in 1 .. MemorySize :
           memory'[a] = IF start < a /\ a <= start + n THEN t[a - start] ELSE memory[a]
  <2>1. memory' = SliceAssign(memory, start, start + n, t)
      BY DEF t
  <2>2. Len(t) = (start + n) - start /\ \A k \in 1 .. (start + n) - start : t[k] \in Cells
      BY <1>1, <1>2, <1>3
  <2>3. LoaderInv /\ start \in Nat /\ start + n <= MemorySize
      OBVIOUS
  <2> QED
      BY ONLY <1>3, <2>1, <2>2, <2>3, StoreExact, ZenonT(90)
<1>5. ASSUME NEW b \in 0 .. n - 1
      PROVE  memory'[start + b + 1] = <<call, offset + b>>
  <2>1. /\ start + b + 1 \in 1 .. MemorySize
        /\ start < start + b + 1 /\ start + b + 1 <= start + n
        /\ (start + b + 1) - start = b + 1 /\ b + 1 \in 1 .. n
        /\ offset + (b + 1) - 1 = offset + b
      BY LoaderAssumption
  <2> QED
      BY <1>1, <1>4, <2>1
<1> QED
    BY <1>4, <1>5

\* Storing zero bytes likewise.
LEMMA ZeroExact ==
    ASSUME LoaderInv, NEW from \in Nat, NEW n \in Nat, from + n <= MemorySize,
           memory' = SliceAssign(memory, from, from + n, [k \in 1 .. n |-> ZeroByte])
    PROVE  /\ memory' \in Seq(Cells) /\ Len(memory') = MemorySize
           /\ \A b \in 0 .. n - 1 : memory'[from + b + 1] = ZeroByte
           /\ \A a \in 1 .. MemorySize : memory'[a] # memory[a] => from < a /\ a <= from + n
<1> DEFINE t == [k \in 1 .. n |-> ZeroByte]
<1>1. Len(t) = n /\ (\A k \in 1 .. n : t[k] = ZeroByte) /\ ZeroByte \in Cells
    BY DEF Cells
<1>2. from + n \in Nat /\ from <= from + n /\ (from + n) - from = n
    OBVIOUS
<1>3. /\ memory' \in Seq(Cells) /\ Len(memory') = MemorySize
      /\ \A a \in 1 .. MemorySize :
           memory'[a] = IF from < a /\ a <= from + n THEN t[a - from] ELSE memory[a]
  <2> HIDE DEF t
  <2>1. memory' = SliceAssign(memory, from, from + n, t)
      BY DEF t
  <2>2. Len(t) = (from + n) - from /\ \A k \in 1 .. (from + n) - from : t[k] \in Cells
      BY <1>1, <1>2
  <2> QED
      BY <1>2, <2>1, <2>2, StoreExact, ZenonT(90)
<1>4. ASSUME NEW b \in 0 .. n - 1
      PROVE  memory'[from + b + 1] = ZeroByte
  <2>1. /\ from + b + 1 \in 1 .. MemorySize
        /\ from < from + b + 1 /\ from + b + 1 <= from + n
        /\ (from + b + 1) - from = b + 1 /\ b + 1 \in 1 .. n
      BY LoaderAssumption
  <2> HIDE DEF t
  <2> QED
      BY <1>1, <1>3, <2>1
<1> QED
    BY <1>3, <1>4

\* A store within the load at index, in a call that goes on, keeps everything but the
\* record of how far the plan is applied.
LEMMA ApplyFrame ==
    ASSUME LoaderInv, phase \in {"copy", "zero"}, phase' \in {"copy", "zero"},
           UNCHANGED <<fileSize, call, request, loads, outcome>>,
           memory' \in Seq(Cells), Len(memory') = MemorySize,
           index' \in Nat \ {0}, PlanStored'
    PROVE  LoaderInv'
<1>1. request # None /\ request.api \in ElfApis /\ outcome = None
    BY DEF LoaderInv, TypeOK, PhaseOfRequest
<1>2. memory' \in [1 .. MemorySize -> Cells]
    BY MemoryFunction
<1>3. TypeOK'
    BY <1>1, <1>2 DEF LoaderInv, TypeOK
<1>4. (\A k \in 1 .. Len(loads) : LoadFits(loads[k]))'
    BY DEF LoaderInv, LoadFits, MemoryEndAddress, FileEndOffset
<1>5. PhaseOfRequest' /\ PublishedIsInMemory'
    BY <1>1 DEF LoaderInv, PhaseOfRequest, PublishedIsInMemory
<1>6. PlanApart'
    BY DEF LoaderInv, PlanApart
<1> QED
    BY <1>3, <1>4, <1>5, <1>6 DEF LoaderInv

\* The file bytes of one load.
LEMMA CopyLoaderInv ==
    ASSUME LoaderInv, CopyFileBytes
    PROVE  LoaderInv'
<1> DEFINE load == loads[index]
<1>1. /\ phase = "copy" /\ request # None /\ index \in 1 .. Len(loads) /\ Len(loads) \in Nat
      /\ UNCHANGED <<fileSize, call, request, loads, outcome>>
      /\ memory' = SliceAssign(memory, load.start, FileEndAddress(load),
                       PayloadSlice(request.image.size, load.offset, FileEndOffset(load)))
      /\ IF ZeroFills(request.api) THEN phase' = "zero" /\ index' = index
         ELSE index' = index + 1 /\ phase' = "copy"
  <2>1. Len(loads) \in Nat
      BY LenProperties DEF LoaderInv
  <2> QED
      BY <2>1 DEF CopyFileBytes, LoaderInv, TypeOK, PhaseOfRequest
<1>2. /\ load.start \in Nat /\ load.filesz \in Nat /\ load.memsz \in Nat /\ load.offset \in Nat
      /\ FileEndAddress(load) = load.start + load.filesz
      /\ FileEndOffset(load) = load.offset + load.filesz
      /\ load.filesz <= load.memsz /\ load.start + load.memsz <= MemorySize
      /\ load.offset + load.filesz <= request.image.size
      /\ request.image.size \in Nat /\ call \in 1 .. MaxCalls
    BY <1>1, PlannedLoad
<1>3. /\ memory' \in Seq(Cells) /\ Len(memory') = MemorySize
      /\ \A b \in 0 .. load.filesz - 1 : memory'[load.start + b + 1] = <<call, load.offset + b>>
      /\ \A a \in 1 .. MemorySize :
           memory'[a] # memory[a] => load.start < a /\ a <= load.start + load.filesz
  <2>1. load.start + load.filesz <= MemorySize
      BY <1>2, LoaderAssumption
  <2>2. memory' = SliceAssign(memory, load.start, load.start + load.filesz,
                      PayloadSlice(request.image.size, load.offset, load.offset + load.filesz))
      BY <1>1, <1>2
  <2> HIDE DEF load
  <2> QED
      BY <1>2, <2>1, <2>2, CopyExact, ZenonT(90)
<1>4. ASSUME NEW j \in 1 .. Len(loads), j < index
      PROVE  LoadStored(loads[j], request.api)'
  <2>1. LoadStored(loads[j], request.api)
      BY <1>1, <1>4 DEF LoaderInv, PlanStored
  <2>2. \A a \in 1 .. MemorySize :
          memory'[a] # memory[a] => load.start < a /\ a <= load.start + load.memsz
      BY <1>2, <1>3, LoaderAssumption, SMTT(60)
  <2> QED
      BY <1>1, <1>4, <2>1, <2>2, EarlierKept
<1>5. PlanStored'
  <2>1. CASE ZeroFills(request.api)
    <3>1. index' = index /\ FileBytesStored(loads[index])'
        BY <1>1, <1>3, <2>1 DEF FileBytesStored
    <3> QED
        BY <1>1, <1>4, <2>1, <3>1 DEF PlanStored
  <2>2. CASE ~ZeroFills(request.api)
    <3>1. ASSUME NEW k \in 1 .. Len(loads), k = index
          PROVE  LoadStored(loads[k], request.api)'
        BY <1>1, <1>3, <2>2, <3>1, ZenonT(90) DEF LoadStored, FileBytesStored
    <3>2. \A k \in 1 .. Len(loads) : k < index + 1 => k < index \/ k = index
        BY <1>1
    <3> QED
        BY <1>1, <1>4, <2>2, <3>1, <3>2 DEF PlanStored
  <2> QED
      BY <2>1, <2>2
<1> QED
    BY <1>1, <1>3, <1>5, ApplyFrame

\* The zero bytes after them.
LEMMA ZeroLoaderInv ==
    ASSUME LoaderInv, ZeroFill
    PROVE  LoaderInv'
<1> DEFINE load == loads[index]
           n == load.memsz - load.filesz
<1>1. /\ phase = "zero" /\ request # None /\ index \in 1 .. Len(loads) /\ Len(loads) \in Nat
      /\ UNCHANGED <<fileSize, call, request, loads, outcome>>
      /\ memory' = SliceAssign(memory, FileEndAddress(load), MemoryEndAddress(load),
                       [k \in 1 .. load.memsz - load.filesz |-> ZeroByte])
      /\ phase' = "copy" /\ index' = index + 1
      /\ FileBytesStored(load) /\ ZeroFills(request.api)
  <2>1. Len(loads) \in Nat
      BY LenProperties DEF LoaderInv
  <2>2. index \in 1 .. Len(loads) /\ request # None
      BY <2>1 DEF ZeroFill, LoaderInv, TypeOK, PhaseOfRequest, PlanStored
  <2> QED
      BY <2>1, <2>2 DEF ZeroFill, LoaderInv, PlanStored
<1>2. /\ load.start \in Nat /\ load.filesz \in Nat /\ load.memsz \in Nat
      /\ FileEndAddress(load) = load.start + load.filesz
      /\ MemoryEndAddress(load) = load.start + load.memsz
      /\ load.filesz <= load.memsz /\ load.start + load.memsz <= MemorySize
    BY <1>1, PlannedLoad
<1>3. /\ load.start + load.filesz \in Nat /\ n \in Nat
      /\ (load.start + load.filesz) + n = load.start + load.memsz
    BY <1>2
<1>4. /\ memory' \in Seq(Cells) /\ Len(memory') = MemorySize
      /\ \A b \in 0 .. n - 1 : memory'[(load.start + load.filesz) + b + 1] = ZeroByte
      /\ \A a \in 1 .. MemorySize :
           memory'[a] # memory[a] =>
               load.start + load.filesz < a /\ a <= (load.start + load.filesz) + n
  <2>1. memory' = SliceAssign(memory, load.start + load.filesz, (load.start + load.filesz) + n,
                      [k \in 1 .. n |-> ZeroByte])
      BY <1>1, <1>2, <1>3
  <2>2. (load.start + load.filesz) + n <= MemorySize
      BY <1>2, <1>3
  <2> HIDE DEF load, n
  <2> QED
      BY <1>3, <2>1, <2>2, ZeroExact
<1>5. ASSUME NEW j \in 1 .. Len(loads), j < index
      PROVE  LoadStored(loads[j], request.api)'
  <2>1. LoadStored(loads[j], request.api)
      BY <1>1, <1>5 DEF LoaderInv, PlanStored
  <2>2. \A a \in 1 .. MemorySize :
          memory'[a] # memory[a] => load.start < a /\ a <= load.start + load.memsz
      BY <1>2, <1>3, <1>4, LoaderAssumption, SMTT(60)
  <2> QED
      BY <1>1, <1>5, <2>1, <2>2, EarlierKept
<1>6. ASSUME NEW b \in 0 .. load.filesz - 1
      PROVE  memory'[load.start + b + 1] = <<call, load.offset + b>>
  <2>1. /\ load.start + b + 1 \in 1 .. MemorySize
        /\ ~(load.start + load.filesz < load.start + b + 1)
      BY <1>2, LoaderAssumption
  <2> QED
      BY <1>1, <1>4, <2>1 DEF FileBytesStored
<1>7. ASSUME NEW b \in load.filesz .. load.memsz - 1
      PROVE  memory'[load.start + b + 1] = ZeroByte
  <2>1. /\ b - load.filesz \in 0 .. n - 1
        /\ (load.start + load.filesz) + (b - load.filesz) + 1 = load.start + b + 1
      BY <1>2
  <2> QED
      BY <1>4, <2>1
<1>8. PlanStored'
  <2>1. ASSUME NEW k \in 1 .. Len(loads), k = index
        PROVE  LoadStored(loads[k], request.api)'
      BY <1>1, <1>6, <1>7, <2>1, ZenonT(90) DEF LoadStored, FileBytesStored, ZeroTailStored
  <2>2. \A k \in 1 .. Len(loads) : k < index + 1 => k < index \/ k = index
      BY <1>1
  <2> QED
      BY <1>1, <1>5, <2>1, <2>2 DEF PlanStored
<1> QED
    BY <1>1, <1>4, <1>8, ApplyFrame

-----------------------------------------------------------------------------
(* Calls that return. *)

\* A result that describes what is in memory may be published.
LEMMA FinishLoaderInv ==
    ASSUME LoaderInv, NEW result, Finish(result),
           memory' \in Seq(Cells), Len(memory') = MemorySize,
           PublishedIsInMemory'
    PROVE  LoaderInv'
<1>1. /\ fileSize' = fileSize /\ call' = call /\ request' = None /\ phase' = "idle"
      /\ index' = 0 /\ loads' = <<>>
    BY DEF Finish
<1>2. loads' \in Seq(LoadRecord) /\ Len(loads') = 0
    BY <1>1, EmptySeq
<1>3. memory' \in [1 .. MemorySize -> Cells]
    BY MemoryFunction
<1>4. TypeOK'
    BY <1>1, <1>2, <1>3 DEF LoaderInv, TypeOK
<1> QED
    BY <1>1, <1>2, <1>4 DEF LoaderInv, PhaseOfRequest, PlanApart, PlanStored

\* What Published publishes.
LEMMA PublishedFacts ==
    ASSUME NEW r, NEW segments
    PROVE  Published(r, segments).api = r.api /\ Published(r, segments).segments = segments
    BY DEF Published

\* The plan is applied to its end, so its loads are what is published.
LEMMA ReturnLoaderInv ==
    ASSUME LoaderInv, Return
    PROVE  LoaderInv'
<1>1. /\ phase = "copy" /\ index > Len(loads) /\ memory' = memory /\ call' = call
      /\ Finish(Published(request, loads)) /\ outcome' = Published(request, loads)
    BY DEF Return, Finish
<1>2. \A k \in 1 .. Len(loads) : LoadStored(loads[k], request.api)
  <2>1. Len(loads) \in Nat /\ index \in Nat
      BY <1>1, LenProperties DEF LoaderInv, TypeOK
  <2> QED
      BY <1>1, <2>1 DEF LoaderInv, PlanStored
<1>3. outcome'.api = request.api /\ outcome'.segments = loads
    BY <1>1, PublishedFacts
<1>4. PublishedIsInMemory'
    BY <1>1, <1>2, <1>3
       DEF PublishedIsInMemory, LoadStored, FileBytesStored, ZeroTailStored
<1>5. memory' \in Seq(Cells) /\ Len(memory') = MemorySize
    BY <1>1 DEF LoaderInv
<1> QED
    BY <1>1, <1>4, <1>5, FinishLoaderInv

\* A whole image stored at an address.
LEMMA RawExact ==
    ASSUME LoaderInv, call \in 1 .. MaxCalls, NEW size \in Nat, NEW start \in Nat,
           start + size <= MemorySize,
           memory' = SliceAssign(memory, start, start + size, PayloadSlice(size, 0, size))
    PROVE  /\ memory' \in Seq(Cells) /\ Len(memory') = MemorySize
           /\ \A b \in 0 .. size - 1 : memory'[start + b + 1] = <<call, b>>
<1> DEFINE t == PayloadSlice(size, 0, size)
<1>1. Len(t) = size /\ \A k \in 1 .. size : t[k] = <<call, k - 1>>
  <2>1. Clamp(0, size) = 0 /\ Clamp(size, size) = size
      BY DEF Clamp
  <2>2. t = [k \in 1 .. size - 0 |-> <<call, 0 + k - 1>>]
      BY <2>1 DEF PayloadSlice, Bytes
  <2>3. size - 0 = size /\ \A k \in 1 .. size : 0 + k - 1 = k - 1
      OBVIOUS
  <2> HIDE DEF t
  <2>4. t = [k \in 1 .. size |-> <<call, k - 1>>]
      BY <2>2, <2>3
  <2> QED
      BY <2>4
<1> HIDE DEF t
<1>2. \A k \in 1 .. size : t[k] \in Cells
  <2> SUFFICES ASSUME NEW k \in 1 .. size PROVE t[k] \in Cells
      OBVIOUS
  <2>1. <<call, k - 1>> \in (1 .. MaxCalls) \X Nat
      OBVIOUS
  <2> QED
      BY <1>1, <2>1 DEF Cells
<1>3. start + size \in Nat /\ start <= start + size /\ (start + size) - start = size
    OBVIOUS
<1>4. /\ memory' \in Seq(Cells) /\ Len(memory') = MemorySize
      /\ \A a \in 1 .. MemorySize :
           memory'[a] = IF start < a /\ a <= start + size THEN t[a - start] ELSE memory[a]
  <2>1. memory' = SliceAssign(memory, start, start + size, t)
      BY DEF t
  <2>2. Len(t) = (start + size) - start /\ \A k \in 1 .. (start + size) - start : t[k] \in Cells
      BY <1>1, <1>2, <1>3
  <2>3. LoaderInv /\ start \in Nat /\ start + size <= MemorySize
      OBVIOUS
  <2> QED
      BY ONLY <1>3, <2>1, <2>2, <2>3, StoreExact, ZenonT(90)
<1>5. ASSUME NEW b \in 0 .. size - 1
      PROVE  memory'[start + b + 1] = <<call, b>>
  <2>1. /\ start + b + 1 \in 1 .. MemorySize
        /\ start < start + b + 1 /\ start + b + 1 <= start + size
        /\ (start + b + 1) - start = b + 1 /\ b + 1 \in 1 .. size /\ (b + 1) - 1 = b
      BY LoaderAssumption
  <2>2. memory'[start + b + 1] = t[b + 1]
      BY <1>4, <2>1
  <2> QED
      BY <1>1, <2>1, <2>2
<1> QED
    BY <1>4, <1>5

\* A raw image of a size that passes the range check.
LEMMA LoadRawInv ==
    ASSUME LoaderInv, request # None, NEW size \in Nat, LoadRaw(size)
    PROVE  LoaderInv'
<1>1. CASE Raise("ValueError")
    BY <1>1, RaiseLoaderInv
<1>2. CASE /\ RangeValid(request.address, size)
           /\ memory' = SliceAssign(memory, request.address, request.address + size,
                                    PayloadSlice(size, 0, size))
           /\ Finish(Published(request, <<RawLoad(request.address, size)>>))
  <2> DEFINE address == request.address
             load == RawLoad(address, size)
  <2>1. /\ address \in Nat /\ address + size <= MemorySize /\ call \in 1 .. MaxCalls
      BY <1>2, RequestFacts DEF RangeValid, LoaderInv
  <2>2. /\ memory' \in Seq(Cells) /\ Len(memory') = MemorySize
        /\ \A b \in 0 .. size - 1 : memory'[address + b + 1] = <<call, 0 + b>>
    <3>1. memory' = SliceAssign(memory, address, address + size, PayloadSlice(size, 0, size))
        BY <1>2
    <3> HIDE DEF address
    <3>2. /\ memory' \in Seq(Cells) /\ Len(memory') = MemorySize
          /\ \A b \in 0 .. size - 1 : memory'[address + b + 1] = <<call, b>>
        BY <2>1, <3>1, RawExact
    <3> QED
        BY <3>2
  <2>3. /\ call' = call /\ outcome' = Published(request, <<load>>)
        /\ outcome'.api = request.api /\ outcome'.segments = <<load>>
      BY <1>2, PublishedFacts DEF Finish
  <2>4. PublishedIsInMemory'
    <3>1. /\ load.start = address /\ load.filesz = size /\ load.memsz = size /\ load.offset = 0
        BY DEF RawLoad
    <3>2. \A k \in 1 .. Len(<<load>>) : <<load>>[k] = load
        OBVIOUS
    <3>3. \A b \in size .. size - 1 : FALSE
        OBVIOUS
    <3> HIDE DEF load, address
    <3> QED
        BY <2>2, <2>3, <3>1, <3>2, <3>3, SMTT(60) DEF PublishedIsInMemory
  <2> QED
      BY <1>2, <2>2, <2>4, FinishLoaderInv
<1> QED
    BY <1>1, <1>2 DEF LoadRaw

LEMMA RawLoaderInv ==
    ASSUME LoaderInv, LoadRawBytes \/ ReadFile
    PROVE  LoaderInv'
<1>1. request # None
    BY DEF LoadRawBytes, ReadFile, LoaderInv, TypeOK
<1>2. CASE LoadRawBytes
    BY <1>1, <1>2, RequestFacts, LoadRawInv DEF LoadRawBytes
<1>3. CASE ReadFile /\ fileSize = Missing
    BY <1>3, RaiseLoaderInv DEF ReadFile
<1>4. CASE ReadFile /\ fileSize # Missing
  <2>1. fileSize \in Nat
      BY <1>4, FileSizesAssumption DEF LoaderInv, TypeOK
  <2> QED
      BY <1>1, <1>4, <2>1, LoadRawInv DEF ReadFile
<1> QED
    BY <1>2, <1>3, <1>4

-----------------------------------------------------------------------------
(* The theorems. *)

\* Every step preserves the invariant.
LEMMA NextLoaderInv == LoaderInv /\ [Next]_vars => LoaderInv'
<1> SUFFICES ASSUME LoaderInv, [Next]_vars PROVE LoaderInv'
    OBVIOUS
<1>1. CASE Call
    BY <1>1, CallLoaderInv
<1>2. CASE ParseHeader
    BY <1>2, ParseLoaderInv
<1>3. CASE PlanSegment
    BY <1>3, PlanLoaderInv
<1>4. CASE BeginApply
    BY <1>4, BeginApplyLoaderInv
<1>5. CASE CopyFileBytes
    BY <1>5, CopyLoaderInv
<1>6. CASE ZeroFill
    BY <1>6, ZeroLoaderInv
<1>7. CASE Return
    BY <1>7, ReturnLoaderInv
<1>8. CASE LoadRawBytes \/ ReadFile
    BY <1>8, RawLoaderInv
<1>9. CASE StatFile
    BY <1>9, StatLoaderInv
<1>10. CASE RewriteFile
    BY <1>10, RewriteLoaderInv
<1>11. CASE UNCHANGED vars
  <2>1. UNCHANGED <<memory, fileSize, call, request, phase, index, loads, outcome>>
      BY <1>11
  <2>2. (\A k \in 1 .. Len(loads) : LoadFits(loads[k]))'
      BY <2>1 DEF LoaderInv, LoadFits, MemoryEndAddress, FileEndOffset
  <2>3. PlanStored'
      BY <2>1 DEF LoaderInv, PlanStored, LoadStored, FileBytesStored, ZeroTailStored
  <2>4. TypeOK' /\ PhaseOfRequest' /\ PlanApart' /\ PublishedIsInMemory'
      BY <2>1 DEF LoaderInv, TypeOK, PhaseOfRequest, PlanApart, PublishedIsInMemory
  <2> QED
      BY <2>1, <2>2, <2>3, <2>4 DEF LoaderInv
<1> QED
    BY <1>1, <1>2, <1>3, <1>4, <1>5, <1>6, <1>7, <1>8, <1>9, <1>10, <1>11 DEF Next

\* The invariant holds along every behaviour.
THEOREM LoaderInvariant == Spec => []LoaderInv
    BY InitLoaderInv, NextLoaderInv, PTL DEF Spec

\* No call ever resizes the caller's bytearray, whatever the image or the file
\* (elf32.py:328-341, raw_binary.py:56).
THEOREM LoaderTypeCorrect == Spec => []TypeOK
<1>1. LoaderInv => TypeOK
    BY DEF LoaderInv
<1> QED
    BY <1>1, LoaderInvariant, PTL

\* What a successful call reports is what memory holds (elf32.py:320-371,
\* raw_binary.py:45-70).
THEOREM LoaderPublishesMemory == Spec => []PublishedIsInMemory
<1>1. LoaderInv => PublishedIsInMemory
    BY DEF LoaderInv
<1> QED
    BY <1>1, LoaderInvariant, PTL
-----------------------------------------------------------------------------
(* The plan is that of the table. *)

\* Planning a header keeps the plan that of the headers before the next.
LEMMA PlanSegmentOfTable ==
    ASSUME LoaderInv, PlanOfTable, PlanSegment
    PROVE  PlanOfTable'
<1> DEFINE e == request.image
           h == e.table[index]
           load == SegmentLoad(e, index)
<1>1. /\ phase = "plan" /\ index \in Nat \ {0} /\ index <= e.phnum /\ e.phnum \in Nat
      /\ Len(memory) = MemorySize /\ loads \in Seq(LoadRecord) /\ Len(loads) \in Nat
  <2>1. phase = "plan" /\ index <= e.phnum /\ index \in Nat \ {0} /\ request # None
        /\ request.api \in ElfApis
      BY DEF PlanSegment, LoaderInv, TypeOK, PhaseOfRequest
  <2> QED
      BY <2>1, RequestFacts, LenProperties DEF LoaderInv
<1>2. /\ WellFormed(e) /\ EeTarget(e) /\ TableReadable(e)
      /\ \A k \in 1 .. Len(loads) :
             /\ loads[k].index \in 1 .. index - 1 /\ e.table[loads[k].index].type = PT_LOAD
             /\ loads[k] = SegmentLoad(e, loads[k].index)
             /\ SegmentValid(e.table[loads[k].index], MemorySize, e.size)
      /\ \A i \in 1 .. index - 1 :
             e.table[i].type = PT_LOAD => \E k \in 1 .. Len(loads) : loads[k].index = i
      /\ \A j, k \in 1 .. Len(loads) : j < k =>
             loads[j].index < loads[k].index /\ loads[j].start <= loads[k].start
    BY <1>1 DEF PlanOfTable
<1>3. /\ \A i \in 1 .. index - 1 : i \in 1 .. (index + 1) - 1
      /\ \A i \in 1 .. (index + 1) - 1 : i = index \/ i \in 1 .. index - 1
      /\ index \in 1 .. (index + 1) - 1
      /\ index + 1 <= e.phnum + 1
    BY <1>1
<1>4. CASE phase' # "plan"
    BY <1>4 DEF PlanOfTable
<1>5. CASE /\ h.type # PT_LOAD
           /\ index' = index + 1 /\ loads' = loads /\ phase' = phase /\ request' = request
    BY <1>2, <1>3, <1>5, ZenonT(60) DEF PlanOfTable
<1>6. CASE /\ h.type = PT_LOAD
           /\ loads # <<>> => loads[Len(loads)].start <= h.vaddr
           /\ SegmentValid(h, MemorySize, e.size)
           /\ index' = index + 1 /\ loads' = Append(loads, load)
           /\ phase' = phase /\ request' = request
  <2> DEFINE n == Len(loads)
  <2>1. load.index = index /\ load.start = h.vaddr /\ load = SegmentLoad(e, load.index)
      BY DEF SegmentLoad
  <2>2. /\ Len(loads') = n + 1 /\ loads'[n + 1] = load
        /\ \A k \in 1 .. n : loads'[k] = loads[k]
        /\ \A k \in 1 .. n + 1 : k = n + 1 \/ k \in 1 .. n
        /\ \A k \in 1 .. n : k \in 1 .. n + 1 /\ n + 1 \in 1 .. n + 1
      BY <1>1, <1>6
  <2>3. ASSUME NEW k \in 1 .. n
        PROVE  loads[k].start <= h.vaddr
    <3>1. loads # <<>> /\ n \in 1 .. n
        BY <1>1
    <3>2. loads[k].start \in Nat /\ loads[n].start \in Nat /\ h.vaddr \in Nat
      <4>1. loads[k] \in LoadRecord /\ loads[n] \in LoadRecord
          BY <1>1, <3>1, ElementOfSeq
      <4>2. request # None /\ request.api \in ElfApis /\ index \in 1 .. e.phnum
          BY <1>1 DEF LoaderInv, TypeOK, PhaseOfRequest
      <4> QED
          BY <4>1, <4>2, RequestFacts DEF LoadRecord
    <3>3. loads[k].start <= loads[n].start
        BY <1>1, <1>2, <3>1, <3>2
    <3> QED
        BY <1>6, <3>1, <3>2, <3>3
  <2>4. ASSUME NEW k \in 1 .. n
        PROVE  loads[k].index < index
    <3>1. loads[k].index \in 1 .. index - 1
        BY <1>2
    <3> QED
        BY <1>1, <3>1
  <2> HIDE DEF load, n, h, e
  <2>5. \A k \in 1 .. n + 1 :
            /\ loads'[k].index \in 1 .. (index + 1) - 1
            /\ e.table[loads'[k].index].type = PT_LOAD
            /\ loads'[k] = SegmentLoad(e, loads'[k].index)
            /\ SegmentValid(e.table[loads'[k].index], MemorySize, e.size)
    <3> SUFFICES ASSUME NEW k \in 1 .. n + 1
                 PROVE  /\ loads'[k].index \in 1 .. (index + 1) - 1
                        /\ e.table[loads'[k].index].type = PT_LOAD
                        /\ loads'[k] = SegmentLoad(e, loads'[k].index)
                        /\ SegmentValid(e.table[loads'[k].index], MemorySize, e.size)
        OBVIOUS
    <3>1. CASE k = n + 1
        BY <1>3, <1>6, <2>1, <2>2, <3>1 DEF h
    <3>2. CASE k \in 1 .. n
        BY <1>2, <1>3, <2>2, <3>2 DEF n
    <3> QED
        BY <2>2, <3>1, <3>2
  <2>6. ASSUME NEW i \in 1 .. (index + 1) - 1, e.table[i].type = PT_LOAD
        PROVE  \E k \in 1 .. n + 1 : loads'[k].index = i
    <3>1. CASE i = index
      <4>1. n + 1 \in 1 .. n + 1 /\ loads'[n + 1].index = i
          BY <1>1, <2>1, <2>2, <3>1 DEF n
      <4> QED
          BY <4>1
    <3>2. CASE i \in 1 .. index - 1
      <4>1. PICK k \in 1 .. n : loads[k].index = i
          BY <1>2, <2>6, <3>2 DEF n
      <4> QED
          BY <2>2, <4>1
    <3> QED
        BY <1>3, <3>1, <3>2
  <2>7. ASSUME NEW j \in 1 .. n + 1, NEW k \in 1 .. n + 1, j < k
        PROVE  loads'[j].index < loads'[k].index /\ loads'[j].start <= loads'[k].start
    <3>1. j \in 1 .. n /\ loads'[j] = loads[j]
        BY <1>1, <2>2, <2>7 DEF n
    <3>2. CASE k = n + 1
        BY <2>1, <2>2, <2>3, <2>4, <3>1, <3>2
    <3>3. CASE k \in 1 .. n
        BY <1>2, <2>2, <2>7, <3>1, <3>3 DEF n
    <3> QED
        BY <2>2, <3>2, <3>3
  <2> QED
      BY <1>2, <1>3, <1>6, <2>2, <2>5, <2>6, <2>7, ZenonT(60) DEF PlanOfTable, e
<1> QED
    BY <1>1, <1>4, <1>5, <1>6 DEF PlanSegment, Raise, Finish

\* Every step keeps the plan that of the table.
LEMMA NextPlanOfTable == LoaderInv /\ PlanOfTable /\ [Next]_vars => PlanOfTable'
<1> SUFFICES ASSUME LoaderInv, PlanOfTable, [Next]_vars PROVE PlanOfTable'
    OBVIOUS
<1>1. CASE PlanSegment
    BY <1>1, PlanSegmentOfTable
<1>2. CASE ParseHeader
  <2>1. CASE phase' # "plan"
      BY <2>1 DEF PlanOfTable
  <2>2. CASE /\ WellFormed(request.image) /\ EeTarget(request.image)
             /\ TableReadable(request.image)
             /\ phase = "header" /\ index' = 1 /\ request' = request /\ loads' = loads
    <3>1. loads' = <<>> /\ Len(loads') = 0
        BY <2>2, EmptySeq DEF LoaderInv
    <3>2. request.image.phnum \in Nat
        BY <2>2, RequestFacts DEF LoaderInv, TypeOK, PhaseOfRequest
    <3>3. \A i \in 1 .. 1 - 1 : FALSE
        OBVIOUS
    <3>4. \A k \in 1 .. Len(loads') : FALSE
        BY <3>1
    <3> QED
        BY <2>2, <3>2, <3>3, <3>4 DEF PlanOfTable
  <2> QED
      BY <1>2, <2>1, <2>2 DEF ParseHeader, Raise, Finish
<1>3. CASE Call \/ BeginApply \/ CopyFileBytes \/ ZeroFill \/ Return \/ LoadRawBytes
           \/ StatFile \/ ReadFile
  <2>1. phase' # "plan"
    <3>1. CASE Call
        BY <3>1 DEF Call, FirstPhase, ElfApis
    <3>2. CASE BeginApply \/ CopyFileBytes \/ ZeroFill \/ Return
        BY <3>2 DEF BeginApply, CopyFileBytes, ZeroFill, Return, Finish
    <3>3. CASE LoadRawBytes \/ StatFile \/ ReadFile
        BY <3>3 DEF LoadRawBytes, StatFile, ReadFile, LoadRaw, Raise, Finish
    <3> QED
        BY <1>3, <3>1, <3>2, <3>3
  <2> QED
      BY <2>1 DEF PlanOfTable
<1>4. CASE RewriteFile \/ UNCHANGED vars
    BY <1>4 DEF RewriteFile, PlanOfTable
<1> QED
    BY <1>1, <1>2, <1>3, <1>4 DEF Next
-----------------------------------------------------------------------------
(* What the loop over the headers accepts is what AtomicLoader calls consistent. *)

\* A remainder is known by its quotient.
LEMMA ModuloOfMultiple ==
    ASSUME NEW M \in Nat \ {0}, NEW q \in Int, NEW r \in 0 .. M - 1
    PROVE  ((M * q) + r) % M = r
    OBVIOUS

\* Two naturals leave the same remainder when their difference leaves none.
LEMMA Congruent ==
    ASSUME NEW M \in Nat \ {0}, NEW v \in Nat, NEW o \in Nat
    PROVE  v % M = o % M <=> (v - o) % M = 0
<1> DEFINE p == v \div M
           q == o \div M
           d == (v - o) \div M
           r == v % M
           s == o % M
           t == (v - o) % M
<1>1. /\ v = (M * p) + r /\ p \in Int /\ r \in 0 .. M - 1
      /\ o = (M * q) + s /\ q \in Int /\ s \in 0 .. M - 1
    OBVIOUS
<1>2. v - o = (M * d) + t /\ d \in Int /\ t \in 0 .. M - 1
    OBVIOUS
<1> HIDE DEF p, q, d, r, s, t
<1>3. r = s => t = 0
  <2> SUFFICES ASSUME r = s PROVE t = 0
      OBVIOUS
  <2>1. v - o = (M * (p - q)) + 0
      BY <1>1
  <2>2. (v - o) % M = 0
    <3>1. p - q \in Int /\ 0 \in 0 .. M - 1
        BY <1>1
    <3> QED
        BY <2>1, <3>1, ModuloOfMultiple
  <2> QED
      BY <2>2 DEF t
<1>4. t = 0 => r = s
  <2> SUFFICES ASSUME t = 0 PROVE r = s
      OBVIOUS
  <2>1. v = (M * (d + q)) + s
      BY <1>1, <1>2
  <2>2. v % M = s
    <3>1. d + q \in Int
        BY <1>1, <1>2
    <3> QED
        BY <1>1, <2>1, <3>1, ModuloOfMultiple
  <2> QED
      BY <2>2 DEF r
<1> QED
    BY <1>3, <1>4 DEF r, s, t

\* A header passes _validate_file_segment_load exactly when it fits by itself.
LEMMA HeaderFits ==
    ASSUME NEW h, NEW size \in Nat,
           h.offset \in Nat, h.vaddr \in Nat, h.filesz \in Nat, h.memsz \in Nat, h.align \in Nat
    PROVE  SegmentValid(h, MemorySize, size) <=> Atomic!EntryFits(h, size)
<1> DEFINE aligned == IsPowerOfTwo(h.align) /\ h.vaddr % h.align = h.offset % h.align
           congruent == \E k \in 1 .. h.align : h.align = 2 ^ k
                                                /\ (h.vaddr - h.offset) % h.align = 0
<1>1. ASSUME h.align > 1
      PROVE  aligned <=> congruent
  <2>1. h.vaddr % h.align = h.offset % h.align <=> (h.vaddr - h.offset) % h.align = 0
    <3> DEFINE M == h.align
               v == h.vaddr
               o == h.offset
    <3>1. M \in Nat \ {0} /\ v \in Nat /\ o \in Nat
        BY <1>1
    <3> HIDE DEF M, v, o
    <3>2. v % M = o % M <=> (v - o) % M = 0
        BY <3>1, Congruent
    <3> QED
        BY <3>2 DEF M, v, o
  <2>2. IsPowerOfTwo(h.align) <=> \E k \in 1 .. h.align : h.align = 2 ^ k
    <3>1. ASSUME NEW k \in 0 .. h.align, h.align = 2 ^ k
          PROVE  k \in 1 .. h.align
      <4>1. k # 0
        <5>1. k = 0 => 2 ^ k = 1
            OBVIOUS
        <5> QED
            BY <1>1, <3>1, <5>1
      <4> QED
          BY <4>1
    <3>2. \A k \in 1 .. h.align : k \in 0 .. h.align
        OBVIOUS
    <3> QED
        BY <3>1, <3>2 DEF IsPowerOfTwo
  <2> QED
      BY <2>1, <2>2
<1>2. h.align \notin {0, 1} <=> h.align > 1
    OBVIOUS
<1>3. \A a, n, b \in Nat : Atomic!Range(a, a + n) \subseteq 0 .. b /\ a + n <= b
                              <=> a <= b /\ a + n <= b
    BY DEF Atomic!Range
<1>4. MemorySize \in Nat
    BY LoaderAssumption
<1> HIDE DEF aligned, congruent
<1>5. SegmentValid(h, MemorySize, size) <=>
        /\ h.filesz <= h.memsz
        /\ h.align > 1 => aligned
        /\ h.offset + h.filesz <= ELF32_ADDRESS_SPACE_SIZE
        /\ h.vaddr + h.memsz <= ELF32_ADDRESS_SPACE_SIZE
        /\ h.offset <= size /\ h.offset + h.filesz <= size
        /\ h.vaddr <= MemorySize /\ h.vaddr + h.memsz <= MemorySize
    BY <1>2 DEF SegmentValid, aligned
<1>6. Atomic!EntryFits(h, size) <=>
        /\ h.filesz <= h.memsz
        /\ h.align > 1 => congruent
        /\ h.offset + h.filesz <= ELF32_ADDRESS_SPACE_SIZE
        /\ h.vaddr + h.memsz <= ELF32_ADDRESS_SPACE_SIZE
        /\ h.offset <= size /\ h.offset + h.filesz <= size
        /\ h.vaddr <= MemorySize /\ h.vaddr + h.memsz <= MemorySize
    BY <1>3, <1>4 DEF Atomic!EntryFits, congruent
<1> QED
    BY <1>1, <1>5, <1>6

\* A segment may be planned after another exactly when its entry may follow.
LEMMA FollowsOrdered ==
    ASSUME NEW f, NEW g, NEW e, NEW i, NEW j,
           f = SegmentLoad(e, i), g = SegmentLoad(e, j),
           e.table[i].vaddr \in Nat, e.table[i].memsz \in Nat,
           e.table[j].vaddr \in Nat, e.table[j].memsz \in Nat
    PROVE  f.start <= g.start /\ ~Overlap(g, f) <=> Atomic!MayFollow(e.table[i], e.table[j])
<1>1. /\ f.start = e.table[i].vaddr /\ g.start = e.table[j].vaddr
      /\ MemoryEndAddress(f) = e.table[i].vaddr + e.table[i].memsz
      /\ MemoryEndAddress(g) = e.table[j].vaddr + e.table[j].memsz
    BY DEF SegmentLoad, MemoryEndAddress
<1> QED
    BY <1>1 DEF Overlap, Atomic!MayFollow

\* AtomicLoader reads the container as the loader does.
LEMMA SameContainer ==
    ASSUME NEW e
    PROVE  /\ Atomic!WellFormed(e) <=> WellFormed(e)
           /\ Atomic!EeTarget(e) <=> EeTarget(e)
           /\ Atomic!TableReadable(e) <=> TableReadable(e)
           /\ \A i : Atomic!SegmentLoad(e, i) = SegmentLoad(e, i)
           /\ \A i : i \in Atomic!Loadable(e) <=> i \in 1 .. e.phnum /\ e.table[i].type = PT_LOAD
           /\ \A address, size : Atomic!RawLoad(address, size) = RawLoad(address, size)
<1>1. Atomic!WellFormed(e) <=> WellFormed(e)
    BY DEF Atomic!WellFormed, WellFormed, Atomic!ELF_IDENT_SIZE, ELF_IDENT_SIZE,
           Atomic!ELFCLASS32, ELFCLASS32, Atomic!ELFDATA2LSB, ELFDATA2LSB,
           Atomic!ELFDATA2MSB, ELFDATA2MSB, Atomic!EV_CURRENT, EV_CURRENT,
           Atomic!ELF32_HEADER_SIZE, ELF32_HEADER_SIZE
<1>2. Atomic!EeTarget(e) <=> EeTarget(e)
    BY DEF Atomic!EeTarget, EeTarget, Atomic!ET_EXEC, ET_EXEC, Atomic!EM_MIPS, EM_MIPS,
           Atomic!ELFDATA2LSB, ELFDATA2LSB
<1>3. Atomic!TableReadable(e) <=> TableReadable(e)
    BY DEF Atomic!TableReadable, TableReadable, Atomic!ELF32_PROGRAM_HEADER_SIZE,
           ELF32_PROGRAM_HEADER_SIZE
<1>4. \A i : Atomic!SegmentLoad(e, i) = SegmentLoad(e, i)
    BY DEF Atomic!SegmentLoad, SegmentLoad
<1>5. \A i : i \in Atomic!Loadable(e) <=> i \in 1 .. e.phnum /\ e.table[i].type = PT_LOAD
    BY DEF Atomic!Loadable, Atomic!PT_LOAD, PT_LOAD
<1>6. \A address, size : Atomic!RawLoad(address, size) = RawLoad(address, size)
    BY DEF Atomic!RawLoad, RawLoad
<1> QED
    BY <1>1, <1>2, <1>3, <1>4, <1>5, <1>6

\* A header that is refused makes the table inconsistent.
LEMMA RefusedInconsistent ==
    ASSUME LoaderInv, PlanOfTable, PlanSegment, phase' = "idle"
    PROVE  ~Atomic!Consistent(request.image)
<1> DEFINE e == request.image
           h == e.table[index]
           load == SegmentLoad(e, index)
<1>1. /\ phase = "plan" /\ index \in Nat \ {0} /\ index <= e.phnum /\ e.phnum \in Nat
      /\ request # None /\ request.api \in ElfApis
      /\ Len(memory) = MemorySize /\ loads \in Seq(LoadRecord) /\ Len(loads) \in Nat
  <2>1. phase = "plan" /\ index <= e.phnum /\ index \in Nat \ {0} /\ request # None
        /\ request.api \in ElfApis
      BY DEF PlanSegment, LoaderInv, TypeOK, PhaseOfRequest
  <2> QED
      BY <2>1, RequestFacts, LenProperties DEF LoaderInv
<1>2. /\ e.size \in Nat
      /\ \A i \in 1 .. e.phnum :
            /\ e.table[i].offset \in Nat /\ e.table[i].vaddr \in Nat /\ e.table[i].align \in Nat
            /\ e.table[i].filesz \in Nat /\ e.table[i].memsz \in Nat
    BY <1>1, RequestFacts
<1>3. /\ h.type = PT_LOAD
      /\ \/ ~(loads # <<>> => loads[Len(loads)].start <= h.vaddr)
         \/ ~SegmentValid(h, MemorySize, e.size)
         \/ \E k \in 1 .. Len(loads) : Overlap(load, loads[k])
    BY <1>1 DEF PlanSegment
<1>4. index \in Atomic!Loadable(e) /\ index \in 1 .. e.phnum
    BY <1>1, <1>3, SameContainer
<1>5. CASE ~SegmentValid(h, MemorySize, e.size)
  <2>1. ~Atomic!EntryFits(h, e.size)
      BY <1>2, <1>4, <1>5, HeaderFits
  <2> QED
      BY <1>4, <2>1 DEF Atomic!Consistent
<1>6. ASSUME NEW k \in 1 .. Len(loads), ~(loads[k].start <= load.start /\ ~Overlap(load, loads[k]))
      PROVE  ~Atomic!Consistent(e)
  <2> DEFINE i == loads[k].index
  <2>1. i \in 1 .. index - 1 /\ e.table[i].type = PT_LOAD /\ loads[k] = SegmentLoad(e, i)
      BY <1>1 DEF PlanOfTable
  <2>2. i \in 1 .. e.phnum /\ i < index /\ i \in Atomic!Loadable(e)
      BY <1>1, <2>1, SameContainer
  <2>3. ~Atomic!MayFollow(e.table[i], h)
      BY <1>2, <1>4, <1>6, <2>1, <2>2, FollowsOrdered
  <2> QED
      BY <1>4, <2>2, <2>3 DEF Atomic!Consistent
<1>7. CASE ~(loads # <<>> => loads[Len(loads)].start <= h.vaddr)
  <2>1. Len(loads) \in 1 .. Len(loads) /\ load.start = h.vaddr
      BY <1>1, <1>7 DEF SegmentLoad
  <2> QED
      BY <1>6, <1>7, <2>1
<1> QED
    BY <1>3, <1>5, <1>6, <1>7

\* A table planned to its end is consistent, and the plan is its loadable entries.
LEMMA PlannedConsistent ==
    ASSUME LoaderInv, PlanOfTable, BeginApply
    PROVE  Atomic!Consistent(request.image) /\ Atomic!InTableOrder(request.image, loads)
<1> DEFINE e == request.image
<1>1. /\ phase = "plan" /\ index \in Nat \ {0} /\ index > e.phnum /\ e.phnum \in Nat
      /\ request # None /\ request.api \in ElfApis
      /\ loads \in Seq(LoadRecord) /\ Len(loads) \in Nat /\ DOMAIN loads = 1 .. Len(loads)
  <2>1. phase = "plan" /\ index > e.phnum /\ index \in Nat \ {0} /\ request # None
        /\ request.api \in ElfApis
      BY DEF BeginApply, LoaderInv, TypeOK, PhaseOfRequest
  <2> QED
      BY <2>1, RequestFacts, LenProperties DEF LoaderInv
<1>2. /\ e.size \in Nat
      /\ \A i \in 1 .. e.phnum :
            /\ e.table[i].offset \in Nat /\ e.table[i].vaddr \in Nat /\ e.table[i].align \in Nat
            /\ e.table[i].filesz \in Nat /\ e.table[i].memsz \in Nat
    BY <1>1, RequestFacts
<1>3. index - 1 = e.phnum
    BY <1>1 DEF PlanOfTable
<1>4. ASSUME NEW k \in 1 .. Len(loads)
      PROVE  /\ loads[k].index \in Atomic!Loadable(e) /\ loads[k].index \in 1 .. e.phnum
             /\ loads[k] = SegmentLoad(e, loads[k].index)
             /\ SegmentValid(e.table[loads[k].index], MemorySize, e.size)
  <2>1. LET i == loads[k].index
        IN  /\ i \in 1 .. index - 1 /\ e.table[i].type = PT_LOAD
            /\ loads[k] = SegmentLoad(e, i)
            /\ SegmentValid(e.table[i], MemorySize, e.size)
      BY <1>1 DEF PlanOfTable
  <2> HIDE DEF e
  <2> QED
      BY <1>3, <2>1, SameContainer
<1>5. ASSUME NEW i \in Atomic!Loadable(e)
      PROVE  \E k \in 1 .. Len(loads) : loads[k].index = i
  <2>1. i \in 1 .. index - 1 /\ e.table[i].type = PT_LOAD
      BY <1>3, SameContainer
  <2> QED
      BY <1>1, <2>1 DEF PlanOfTable
<1>6. ASSUME NEW j \in 1 .. Len(loads), NEW k \in 1 .. Len(loads), j < k
      PROVE  loads[j].index < loads[k].index /\ loads[j].start <= loads[k].start
    BY <1>1, <1>6 DEF PlanOfTable
<1>7. ASSUME NEW i \in Atomic!Loadable(e)
      PROVE  Atomic!EntryFits(e.table[i], e.size)
  <2>1. PICK k \in 1 .. Len(loads) : loads[k].index = i
      BY <1>5
  <2> QED
      BY <1>2, <1>4, <2>1, HeaderFits
<1>8. ASSUME NEW i \in Atomic!Loadable(e), NEW j \in Atomic!Loadable(e), i < j
      PROVE  Atomic!MayFollow(e.table[i], e.table[j])
  <2>1. PICK k \in 1 .. Len(loads) : loads[k].index = i
      BY <1>5
  <2>2. PICK m \in 1 .. Len(loads) : loads[m].index = j
      BY <1>5
  <2>3. k < m
    <3>1. i \in Int /\ j \in Int
        BY SameContainer
    <3>2. m < k => j < i
        BY <1>6, <2>1, <2>2
    <3>3. m = k => j = i
        BY <2>1, <2>2
    <3> QED
        BY <1>1, <1>8, <3>1, <3>2, <3>3
  <2>4. loads[k].start <= loads[m].start /\ ~Overlap(loads[m], loads[k])
      BY <1>6, <2>3 DEF LoaderInv, PlanApart
  <2>5. /\ loads[k] = SegmentLoad(e, i) /\ loads[m] = SegmentLoad(e, j)
        /\ i \in 1 .. e.phnum /\ j \in 1 .. e.phnum
      BY <1>4, <2>1, <2>2
  <2> QED
      BY <1>2, <2>4, <2>5, FollowsOrdered
<1>9. loads \in Seq({Atomic!SegmentLoad(e, i) : i \in Atomic!Loadable(e)})
  <2>1. \A k \in 1 .. Len(loads) : loads[k] \in {Atomic!SegmentLoad(e, i) : i \in Atomic!Loadable(e)}
      BY <1>4, SameContainer
  <2>2. loads = [k \in 1 .. Len(loads) |-> loads[k]]
      BY <1>1
  <2> HIDE DEF e
  <2> QED
      BY <1>1, <2>1, <2>2, SeqDef
<1> QED
    BY <1>1, <1>5, <1>6, <1>7, <1>8, <1>9 DEF Atomic!Consistent, Atomic!InTableOrder

-----------------------------------------------------------------------------
(* Applying the plan does not change what memory will hold at its end. *)

\* A cell lies in one planned load at most.
LEMMA OneCover ==
    ASSUME LoaderInv, request # None, NEW a \in Int,
           NEW j \in 1 .. Len(loads), NEW k \in 1 .. Len(loads),
           InFile(loads[j], a) \/ InTail(loads[j], a),
           InFile(loads[k], a) \/ InTail(loads[k], a)
    PROVE  j = k
<1>1. ASSUME NEW n \in 1 .. Len(loads)
      PROVE  /\ loads[n].start \in Nat /\ MemoryEndAddress(loads[n]) \in Nat
             /\ InFile(loads[n], a) \/ InTail(loads[n], a) =>
                    loads[n].start < a /\ a <= MemoryEndAddress(loads[n])
  <2>1. /\ loads[n].start \in Nat /\ loads[n].filesz \in Nat /\ loads[n].memsz \in Nat
        /\ FileEndAddress(loads[n]) = loads[n].start + loads[n].filesz
        /\ MemoryEndAddress(loads[n]) = loads[n].start + loads[n].memsz
        /\ loads[n].filesz <= loads[n].memsz
      BY PlannedLoad
  <2> QED
      BY <2>1 DEF InFile, InTail
<1>2. ASSUME NEW m \in 1 .. Len(loads), NEW n \in 1 .. Len(loads), m < n,
             loads[m].start < a, a <= MemoryEndAddress(loads[m]),
             loads[n].start < a, a <= MemoryEndAddress(loads[n])
      PROVE  FALSE
  <2>1. ~Overlap(loads[n], loads[m])
      BY <1>2 DEF LoaderInv, PlanApart
  <2>2. /\ loads[m].start \in Nat /\ MemoryEndAddress(loads[m]) \in Nat
        /\ loads[n].start \in Nat /\ MemoryEndAddress(loads[n]) \in Nat
      BY <1>1
  <2> QED
      BY <1>2, <2>1, <2>2 DEF Overlap
<1>3. loads[j].start < a /\ a <= MemoryEndAddress(loads[j])
    BY <1>1
<1>4. loads[k].start < a /\ a <= MemoryEndAddress(loads[k])
    BY <1>1
<1> QED
    BY <1>2, <1>3, <1>4

\* Memory m with the loads from i on in place.
FilledFrom(m, i) ==
    Filled(m, [k \in i .. Len(loads) |-> loads[k]], call, ZeroFills(request.api), ZeroByte)

\* What a cell of it holds.
RestIn(filled, m, i) ==
    \A a \in 1 .. MemorySize :
        /\ \A k \in i .. Len(loads) : InFile(loads[k], a) =>
               filled[a] = <<call, loads[k].offset + (a - 1 - loads[k].start)>>
        /\ (\A k \in i .. Len(loads) : ~InFile(loads[k], a)) =>
               filled[a] = IF ZeroFills(request.api) /\ \E k \in i .. Len(loads) : InTail(loads[k], a)
                           THEN ZeroByte ELSE m[a]

LEMMA RestFilled ==
    ASSUME LoaderInv, request # None, NEW i \in Nat \ {0}, NEW m, DOMAIN m = 1 .. MemorySize
    PROVE  RestIn(FilledFrom(m, i), m, i)
<1> SUFFICES ASSUME NEW a \in 1 .. MemorySize
             PROVE  /\ \A k \in i .. Len(loads) : InFile(loads[k], a) =>
                           FilledFrom(m, i)[a] = <<call, loads[k].offset + (a - 1 - loads[k].start)>>
                    /\ (\A k \in i .. Len(loads) : ~InFile(loads[k], a)) =>
                           FilledFrom(m, i)[a] =
                               IF ZeroFills(request.api)
                                  /\ \E k \in i .. Len(loads) : InTail(loads[k], a)
                               THEN ZeroByte ELSE m[a]
    BY DEF RestIn
<1> DEFINE rest == [k \in i .. Len(loads) |-> loads[k]]
           filled == FilledFrom(m, i)
<1>1. /\ DOMAIN rest = i .. Len(loads) /\ \A k \in i .. Len(loads) : rest[k] = loads[k]
      /\ \A k \in i .. Len(loads) : k \in 1 .. Len(loads)
    BY LenProperties DEF LoaderInv
<1> HIDE DEF rest, filled
<1>2. filled[a] = IF \E k \in DOMAIN rest : InFile(rest[k], a)
                  THEN LET load == rest[CHOOSE k \in DOMAIN rest : InFile(rest[k], a)]
                       IN  <<call, load.offset + (a - 1 - load.start)>>
                  ELSE IF ZeroFills(request.api) /\ \E k \in DOMAIN rest : InTail(rest[k], a) THEN ZeroByte
                  ELSE m[a]
    BY DEF Filled, FilledFrom, rest, filled
<1>3. ASSUME NEW k \in i .. Len(loads), InFile(loads[k], a)
      PROVE  filled[a] = <<call, loads[k].offset + (a - 1 - loads[k].start)>>
  <2> DEFINE c == CHOOSE n \in DOMAIN rest : InFile(rest[n], a)
  <2>1. c \in DOMAIN rest /\ InFile(rest[c], a)
      BY <1>1, <1>3
  <2> HIDE DEF c
  <2>2. c = k
      BY <1>1, <1>3, <2>1, OneCover
  <2>3. filled[a] = <<call, rest[c].offset + (a - 1 - rest[c].start)>>
      BY <1>1, <1>2, <1>3 DEF c
  <2> QED
      BY <1>1, <2>2, <2>3
<1>4. ASSUME \A k \in i .. Len(loads) : ~InFile(loads[k], a)
      PROVE  filled[a] = IF ZeroFills(request.api) /\ \E k \in i .. Len(loads) : InTail(loads[k], a)
                         THEN ZeroByte ELSE m[a]
    BY <1>1, <1>2, <1>4
<1> QED
    BY <1>3, <1>4 DEF filled

\* Applying the load at index, and moving on to the next, leaves the rest to do.
LEMMA OneApplied ==
    ASSUME LoaderInv, request # None, index \in 1 .. Len(loads),
           UNCHANGED <<call, request, loads>>, index' = index + 1,
           memory' \in Seq(Cells), Len(memory') = MemorySize,
           \A a \in 1 .. MemorySize :
              memory'[a] =
                 IF InFile(loads[index], a)
                 THEN <<call, loads[index].offset + (a - 1 - loads[index].start)>>
                 ELSE IF ZeroFills(request.api) /\ InTail(loads[index], a) THEN ZeroByte
                 ELSE memory[a]
    PROVE  Completed' = Completed
<1> DEFINE before == FilledFrom(memory, index)
           after == FilledFrom(memory', index + 1)
<1>1. /\ Completed = before /\ Completed' = after
    BY DEF Completed, FilledFrom, Filled, InFile, InTail, FileEndAddress, MemoryEndAddress
<1>2. /\ memory \in Seq(Cells) /\ Len(memory) = MemorySize
      /\ DOMAIN memory = 1 .. MemorySize /\ DOMAIN memory' = 1 .. MemorySize
      /\ Len(loads) \in Nat /\ index \in 1 .. Len(loads) /\ index \in Nat \ {0}
      /\ index + 1 \in Nat \ {0}
    BY LenProperties DEF LoaderInv
<1>3. /\ before = [a \in 1 .. MemorySize |-> before[a]]
      /\ after = [a \in 1 .. MemorySize |-> after[a]]
    BY <1>2 DEF FilledFrom, Filled
<1>8. \A a \in 1 .. MemorySize :
         ~InFile(loads[index], a) /\ ~(ZeroFills(request.api) /\ InTail(loads[index], a)) => memory'[a] = memory[a]
    OBVIOUS
<1> HIDE DEF before, after
<1>4. ASSUME NEW a \in 1 .. MemorySize
      PROVE  /\ \A k \in index .. Len(loads) : InFile(loads[k], a) =>
                    before[a] = <<call, loads[k].offset + (a - 1 - loads[k].start)>>
             /\ (\A k \in index .. Len(loads) : ~InFile(loads[k], a)) =>
                    before[a] = IF ZeroFills(request.api) /\ \E k \in index .. Len(loads) : InTail(loads[k], a)
                                THEN ZeroByte ELSE memory[a]
  <2>1. RestIn(before, memory, index)
      BY <1>2, RestFilled DEF before
  <2> QED
      BY <2>1 DEF RestIn
<1>5. ASSUME NEW a \in 1 .. MemorySize
      PROVE  /\ \A k \in index + 1 .. Len(loads) : InFile(loads[k], a) =>
                    after[a] = <<call, loads[k].offset + (a - 1 - loads[k].start)>>
             /\ (\A k \in index + 1 .. Len(loads) : ~InFile(loads[k], a)) =>
                    after[a] = IF ZeroFills(request.api) /\ \E k \in index + 1 .. Len(loads) : InTail(loads[k], a)
                               THEN ZeroByte ELSE memory'[a]
  <2> DEFINE i == index + 1
  <2>1. RestIn(after, memory', i)
      BY <1>2, RestFilled DEF after
  <2> QED
      BY <2>1 DEF RestIn
<1>6. /\ \A k \in index + 1 .. Len(loads) :
             k \in index .. Len(loads) /\ k \in 1 .. Len(loads) /\ k # index
      /\ \A k \in index .. Len(loads) : k = index \/ k \in index + 1 .. Len(loads)
      /\ index \in index .. Len(loads)
    BY <1>2
<1>7. ASSUME NEW a \in 1 .. MemorySize
      PROVE  after[a] = before[a]
  <2>1. CASE InFile(loads[index], a)
    <3>1. \A k \in index + 1 .. Len(loads) : ~InFile(loads[k], a) /\ ~InTail(loads[k], a)
        BY <1>2, <1>6, <2>1, OneCover
    <3>2. after[a] = memory'[a]
        BY <1>5, <3>1
    <3>3. before[a] = <<call, loads[index].offset + (a - 1 - loads[index].start)>>
        BY <1>4, <1>6, <2>1
    <3> QED
        BY <2>1, <3>2, <3>3
  <2>2. CASE ~InFile(loads[index], a) /\ ZeroFills(request.api) /\ InTail(loads[index], a)
    <3>1. \A k \in index + 1 .. Len(loads) : ~InFile(loads[k], a) /\ ~InTail(loads[k], a)
        BY <1>2, <1>6, <2>2, OneCover
    <3>2. after[a] = memory'[a]
        BY <1>5, <3>1
    <3>3. \A k \in index .. Len(loads) : ~InFile(loads[k], a)
        BY <1>6, <2>2, <3>1
    <3>4. before[a] = ZeroByte
        BY <1>4, <1>6, <2>2, <3>3
    <3> QED
        BY <2>2, <3>2, <3>4
  <2>3. CASE ~InFile(loads[index], a) /\ ~(ZeroFills(request.api) /\ InTail(loads[index], a))
    <3>1. memory'[a] = memory[a]
        BY <1>8, <2>3
    <3>2. ASSUME NEW k \in index + 1 .. Len(loads), InFile(loads[k], a)
          PROVE  after[a] = before[a]
      <4>1. after[a] = <<call, loads[k].offset + (a - 1 - loads[k].start)>>
          BY <1>5, <3>2
      <4>2. before[a] = <<call, loads[k].offset + (a - 1 - loads[k].start)>>
          BY <1>4, <1>6, <3>2
      <4> QED
          BY <4>1, <4>2
    <3>3. CASE \A k \in index + 1 .. Len(loads) : ~InFile(loads[k], a)
      <4>1. \A k \in index .. Len(loads) : ~InFile(loads[k], a)
          BY <1>6, <2>3, <3>3
      <4>2. ZeroFills(request.api) => ((\E k \in index .. Len(loads) : InTail(loads[k], a))
                        <=> \E k \in index + 1 .. Len(loads) : InTail(loads[k], a))
          BY <1>6, <2>3
      <4> QED
          BY <1>4, <1>5, <3>1, <3>3, <4>1, <4>2
    <3> QED
        BY <3>2, <3>3
  <2> QED
      BY <2>1, <2>2, <2>3
<1> QED
    BY <1>1, <1>3, <1>7

\* Storing the file bytes of the load at index changes what it covers, if anything.
LEMMA CopyCompleted ==
    ASSUME LoaderInv, CopyFileBytes
    PROVE  Completed' = Completed
<1> DEFINE load == loads[index]
<1>1. /\ phase = "copy" /\ request # None /\ index \in 1 .. Len(loads) /\ Len(loads) \in Nat
      /\ UNCHANGED <<fileSize, call, request, loads, outcome>>
      /\ memory' = SliceAssign(memory, load.start, FileEndAddress(load),
                       PayloadSlice(request.image.size, load.offset, FileEndOffset(load)))
      /\ IF ZeroFills(request.api) THEN phase' = "zero" /\ index' = index
         ELSE index' = index + 1 /\ phase' = "copy"
      /\ DOMAIN memory = 1 .. MemorySize
  <2>1. Len(loads) \in Nat /\ DOMAIN memory = 1 .. MemorySize
      BY LenProperties DEF LoaderInv
  <2> QED
      BY <2>1 DEF CopyFileBytes, LoaderInv, TypeOK, PhaseOfRequest
<1>2. /\ load.start \in Nat /\ load.filesz \in Nat /\ load.memsz \in Nat /\ load.offset \in Nat
      /\ FileEndAddress(load) = load.start + load.filesz
      /\ FileEndOffset(load) = load.offset + load.filesz
      /\ load.filesz <= load.memsz /\ load.start + load.memsz <= MemorySize
      /\ load.offset + load.filesz <= request.image.size
      /\ request.image.size \in Nat /\ call \in 1 .. MaxCalls
    BY <1>1, PlannedLoad
<1>3. /\ memory' \in Seq(Cells) /\ Len(memory') = MemorySize
      /\ \A b \in 0 .. load.filesz - 1 : memory'[load.start + b + 1] = <<call, load.offset + b>>
      /\ \A a \in 1 .. MemorySize :
           memory'[a] # memory[a] => load.start < a /\ a <= load.start + load.filesz
  <2>1. load.start + load.filesz <= MemorySize
      BY <1>2, LoaderAssumption
  <2>2. memory' = SliceAssign(memory, load.start, load.start + load.filesz,
                      PayloadSlice(request.image.size, load.offset, load.offset + load.filesz))
      BY <1>1, <1>2
  <2> HIDE DEF load
  <2> QED
      BY <1>2, <2>1, <2>2, CopyExact, ZenonT(90)
<1>4. ASSUME NEW a \in 1 .. MemorySize
      PROVE  memory'[a] = IF InFile(load, a)
                          THEN <<call, load.offset + (a - 1 - load.start)>> ELSE memory[a]
  <2>1. CASE InFile(load, a)
    <3>1. /\ a - 1 - load.start \in 0 .. load.filesz - 1
          /\ load.start + (a - 1 - load.start) + 1 = a
        BY <1>2, <2>1 DEF InFile
    <3> HIDE DEF load
    <3> QED
        BY <1>3, <2>1, <3>1
  <2>2. CASE ~InFile(load, a)
      BY <1>2, <1>3, <2>2 DEF InFile
  <2> QED
      BY <2>1, <2>2
<1>5. CASE ~ZeroFills(request.api)
  <2> HIDE DEF load
  <2>1. index' = index + 1 /\ loads[index] = load
      BY <1>1, <1>5 DEF load
  <2> QED
      BY <1>1, <1>3, <1>4, <1>5, <2>1, OneApplied
<1>6. CASE ZeroFills(request.api)
  <2> DEFINE before == FilledFrom(memory, index)
             after == FilledFrom(memory', index)
  <2>1. /\ Completed = before /\ Completed' = after
      BY <1>1, <1>6 DEF Completed, FilledFrom, Filled, InFile, InTail, FileEndAddress, MemoryEndAddress
  <2>2. DOMAIN memory' = 1 .. MemorySize /\ index \in Nat \ {0} /\ index \in index .. Len(loads)
      BY <1>1, <1>3, LenProperties
  <2>3. /\ before = [a \in 1 .. MemorySize |-> before[a]]
        /\ after = [a \in 1 .. MemorySize |-> after[a]]
      BY <1>1, <2>2 DEF FilledFrom, Filled
  <2> HIDE DEF before, after
  <2>7. /\ request # None /\ index \in Nat \ {0} /\ index \in 1 .. Len(loads)
        /\ memory \in Seq(Cells) /\ Len(memory) = MemorySize /\ Len(loads) \in Nat
        /\ DOMAIN memory = 1 .. MemorySize /\ DOMAIN memory' = 1 .. MemorySize
      BY <1>1, <2>2 DEF LoaderInv
  <2>5. ASSUME NEW a \in 1 .. MemorySize
        PROVE  /\ \A k \in index .. Len(loads) : InFile(loads[k], a) =>
                      before[a] = <<call, loads[k].offset + (a - 1 - loads[k].start)>>
               /\ (\A k \in index .. Len(loads) : ~InFile(loads[k], a)) =>
                      before[a] =
                          IF ZeroFills(request.api) /\ \E k \in index .. Len(loads) : InTail(loads[k], a)
                          THEN ZeroByte ELSE memory[a]
    <3>1. RestIn(before, memory, index)
        BY <2>7, RestFilled DEF before
    <3> QED
        BY <3>1 DEF RestIn
  <2>6. ASSUME NEW a \in 1 .. MemorySize
        PROVE  /\ \A k \in index .. Len(loads) : InFile(loads[k], a) =>
                      after[a] = <<call, loads[k].offset + (a - 1 - loads[k].start)>>
               /\ (\A k \in index .. Len(loads) : ~InFile(loads[k], a)) =>
                      after[a] =
                          IF ZeroFills(request.api) /\ \E k \in index .. Len(loads) : InTail(loads[k], a)
                          THEN ZeroByte ELSE memory'[a]
    <3>1. RestIn(after, memory', index)
        BY <2>7, RestFilled DEF after
    <3> QED
        BY <3>1 DEF RestIn
  <2>4. ASSUME NEW a \in 1 .. MemorySize
        PROVE  after[a] = before[a]
    <3>1. CASE \E k \in index .. Len(loads) : InFile(loads[k], a)
      <4>1. PICK k \in index .. Len(loads) : InFile(loads[k], a)
          BY <3>1
      <4>2. before[a] = <<call, loads[k].offset + (a - 1 - loads[k].start)>>
          BY <2>5, <4>1
      <4>3. after[a] = <<call, loads[k].offset + (a - 1 - loads[k].start)>>
          BY <2>6, <4>1
      <4> QED
          BY <4>2, <4>3
    <3>2. CASE \A k \in index .. Len(loads) : ~InFile(loads[k], a)
      <4>1. memory'[a] = memory[a]
          BY <1>4, <2>2, <3>2
      <4>2. before[a] = IF ZeroFills(request.api) /\ \E k \in index .. Len(loads) : InTail(loads[k], a)
                        THEN ZeroByte ELSE memory[a]
          BY <2>5, <3>2
      <4>3. after[a] = IF ZeroFills(request.api) /\ \E k \in index .. Len(loads) : InTail(loads[k], a)
                       THEN ZeroByte ELSE memory'[a]
          BY <2>6, <3>2
      <4> QED
          BY <4>1, <4>2, <4>3
    <3> QED
        BY <3>1, <3>2
  <2> QED
      BY <2>1, <2>3, <2>4
<1> QED
    BY <1>5, <1>6

\* Storing the zero bytes after them completes the load.
LEMMA ZeroCompleted ==
    ASSUME LoaderInv, ZeroFill
    PROVE  Completed' = Completed
<1> DEFINE load == loads[index]
           n == load.memsz - load.filesz
<1>1. /\ phase = "zero" /\ request # None /\ index \in 1 .. Len(loads) /\ Len(loads) \in Nat
      /\ UNCHANGED <<fileSize, call, request, loads, outcome>>
      /\ memory' = SliceAssign(memory, FileEndAddress(load), MemoryEndAddress(load),
                       [k \in 1 .. load.memsz - load.filesz |-> ZeroByte])
      /\ index' = index + 1
      /\ FileBytesStored(load) /\ ZeroFills(request.api)
  <2>1. Len(loads) \in Nat
      BY LenProperties DEF LoaderInv
  <2>2. index \in 1 .. Len(loads) /\ request # None
      BY <2>1 DEF ZeroFill, LoaderInv, TypeOK, PhaseOfRequest, PlanStored
  <2> QED
      BY <2>1, <2>2 DEF ZeroFill, LoaderInv, PlanStored
<1>2. /\ load.start \in Nat /\ load.filesz \in Nat /\ load.memsz \in Nat
      /\ FileEndAddress(load) = load.start + load.filesz
      /\ MemoryEndAddress(load) = load.start + load.memsz
      /\ load.filesz <= load.memsz /\ load.start + load.memsz <= MemorySize
    BY <1>1, PlannedLoad
<1>3. /\ load.start + load.filesz \in Nat /\ n \in Nat
      /\ (load.start + load.filesz) + n = load.start + load.memsz
    BY <1>2
<1>4. /\ memory' \in Seq(Cells) /\ Len(memory') = MemorySize
      /\ \A b \in 0 .. n - 1 : memory'[(load.start + load.filesz) + b + 1] = ZeroByte
      /\ \A a \in 1 .. MemorySize :
           memory'[a] # memory[a] =>
               load.start + load.filesz < a /\ a <= (load.start + load.filesz) + n
  <2>1. memory' = SliceAssign(memory, load.start + load.filesz, (load.start + load.filesz) + n,
                      [k \in 1 .. n |-> ZeroByte])
      BY <1>1, <1>2, <1>3
  <2>2. (load.start + load.filesz) + n <= MemorySize
      BY <1>2, <1>3
  <2> HIDE DEF load, n
  <2> QED
      BY <1>3, <2>1, <2>2, ZeroExact
<1>5. ASSUME NEW a \in 1 .. MemorySize
      PROVE  memory'[a] = IF InFile(load, a)
                          THEN <<call, load.offset + (a - 1 - load.start)>>
                          ELSE IF InTail(load, a) THEN ZeroByte ELSE memory[a]
  <2>1. CASE InFile(load, a)
    <3>1. /\ a - 1 - load.start \in 0 .. load.filesz - 1
          /\ load.start + (a - 1 - load.start) + 1 = a
          /\ ~(load.start + load.filesz < a)
        BY <1>2, <2>1 DEF InFile
    <3>2. memory'[a] = memory[a]
        BY <1>4, <3>1
    <3>3. memory[a] = <<call, load.offset + (a - 1 - load.start)>>
      <4>1. \A b \in 0 .. load.filesz - 1 : memory[load.start + b + 1] = <<call, load.offset + b>>
          BY <1>1 DEF FileBytesStored
      <4> HIDE DEF load
      <4> QED
          BY <3>1, <4>1
    <3> QED
        BY <2>1, <3>2, <3>3
  <2>2. CASE ~InFile(load, a) /\ InTail(load, a)
    <3> DEFINE b == a - 1 - (load.start + load.filesz)
    <3>1. b \in 0 .. n - 1 /\ (load.start + load.filesz) + b + 1 = a
        BY <1>2, <2>2 DEF InTail
    <3>2. memory'[a] = ZeroByte
      <4> HIDE DEF b, n, load
      <4> QED
          BY <1>4, <3>1
    <3> QED
        BY <2>2, <3>2
  <2>3. CASE ~InFile(load, a) /\ ~InTail(load, a)
    <3>1. ~(load.start + load.filesz < a /\ a <= (load.start + load.filesz) + n)
        BY <1>2, <1>3, <2>3 DEF InTail
    <3> QED
        BY <1>4, <2>3, <3>1
  <2> QED
      BY <2>1, <2>2, <2>3
<1> QED
  <2>1. \A a \in 1 .. MemorySize :
           memory'[a] =
              IF InFile(loads[index], a)
              THEN <<call, loads[index].offset + (a - 1 - loads[index].start)>>
              ELSE IF ZeroFills(request.api) /\ InTail(loads[index], a) THEN ZeroByte
              ELSE memory[a]
      BY <1>1, <1>5
  <2> HIDE DEF load, n
  <2> QED
      BY <1>1, <1>4, <2>1, OneApplied

-----------------------------------------------------------------------------
(* The steps of AtomicLoader. *)

\* AtomicLoader stores segments as the loader completes them.
LEMMA SameFilled ==
    ASSUME NEW m, NEW segments, NEW n, NEW tails, NEW zero
    PROVE  Atomic!Filled(m, segments, n, tails, zero) = Filled(m, segments, n, tails, zero)
    BY DEF Atomic!Filled, Filled, Atomic!InFile, InFile, Atomic!InTail, InTail,
           Atomic!FileEndAddress, FileEndAddress, Atomic!MemoryEndAddress, MemoryEndAddress

\* A call that raises from a plan, a header or a file it never applied.
LEMMA RaiseCompletes ==
    ASSUME LoaderInv, ~Applying, request # None, NEW error, Raise(error),
           Atomic!Outcome(request, [error |-> error])
    PROVE  Atomic!Complete
<1>1. /\ request' = None /\ phase' = "idle" /\ outcome' = [error |-> error]
      /\ fileSize' = fileSize /\ call' = call /\ memory' = memory
    BY DEF Raise, Finish
<1>2. ~Applying'
    BY <1>1 DEF Applying
<1>3. "segments" \notin DOMAIN [error |-> error]
    OBVIOUS
<1>4. Atomic!Stored(request, [error |-> error]) = memory
    BY <1>3 DEF Atomic!Stored
<1> QED
    BY <1>1, <1>2, <1>4 DEF Atomic!Complete

\* A step before the plan is complete that changes nothing a caller can see.
LEMMA PrepareStutters ==
    ASSUME ~Applying, ~Applying', UNCHANGED <<memory, fileSize, call, request, outcome>>
    PROVE  UNCHANGED Atomic!vars
    BY DEF Atomic!vars

\* What the outcome of an ELF call may be.
LEMMA ElfOutcomes ==
    ASSUME NEW r, r.api \in ElfApis, NEW result
    PROVE  /\ Atomic!Outcome(r, result) <=> Atomic!ElfOutcome(r, result)
           /\ ~WellFormed(r.image) => Atomic!ElfOutcome(r, [error |-> "ElfFormatError"])
           /\ WellFormed(r.image) /\ ~EeTarget(r.image) =>
                  Atomic!ElfOutcome(r, [error |-> "ElfTargetError"])
           /\ WellFormed(r.image) /\ EeTarget(r.image)
              /\ ~(TableReadable(r.image) /\ Atomic!Consistent(r.image)) =>
                  Atomic!ElfOutcome(r, [error |-> "ElfFormatError"])
<1>1. r.api # "load_raw_binary" /\ r.api # "load_raw_binary_file"
    BY DEF ElfApis
<1>2. Atomic!Outcome(r, result) <=> Atomic!ElfOutcome(r, result)
    BY <1>1 DEF Atomic!Outcome
<1> QED
    BY <1>2, SameContainer DEF Atomic!ElfOutcome

LEMMA ParseRefines ==
    ASSUME LoaderInv, ParseHeader
    PROVE  Atomic!Complete \/ UNCHANGED Atomic!vars
<1>1. /\ phase = "header" /\ request # None /\ request.api \in ElfApis /\ ~Applying
    BY DEF ParseHeader, LoaderInv, TypeOK, PhaseOfRequest, Applying
<1>2. CASE ~WellFormed(request.image) /\ Raise("ElfFormatError")
    BY <1>1, <1>2, ElfOutcomes, RaiseCompletes
<1>3. CASE WellFormed(request.image) /\ ~EeTarget(request.image) /\ Raise("ElfTargetError")
    BY <1>1, <1>3, ElfOutcomes, RaiseCompletes
<1>4. CASE WellFormed(request.image) /\ EeTarget(request.image) /\ ~TableReadable(request.image)
           /\ Raise("ElfFormatError")
    BY <1>1, <1>4, ElfOutcomes, RaiseCompletes
<1>5. CASE phase' = "plan" /\ UNCHANGED <<memory, fileSize, call, request, loads, outcome>>
  <2>1. ~Applying'
      BY <1>5 DEF Applying
  <2> QED
      BY <1>1, <1>5, <2>1, PrepareStutters
<1> QED
    BY <1>2, <1>3, <1>4, <1>5 DEF ParseHeader

LEMMA PlanRefines ==
    ASSUME LoaderInv, PlanOfTable, PlanSegment
    PROVE  Atomic!Complete \/ UNCHANGED Atomic!vars
<1>1. /\ phase = "plan" /\ request # None /\ request.api \in ElfApis /\ ~Applying
    BY DEF PlanSegment, LoaderInv, TypeOK, PhaseOfRequest, Applying
<1>2. WellFormed(request.image) /\ EeTarget(request.image)
    BY <1>1 DEF PlanOfTable
<1>3. CASE Raise("ElfFormatError")
  <2>1. ~Atomic!Consistent(request.image)
      BY <1>3, RefusedInconsistent DEF Raise, Finish
  <2> QED
      BY <1>1, <1>2, <1>3, <2>1, ElfOutcomes, RaiseCompletes
<1>4. CASE UNCHANGED <<memory, fileSize, call, request, phase, outcome>>
  <2>1. ~Applying'
      BY <1>1, <1>4 DEF Applying
  <2> QED
      BY <1>1, <1>4, <2>1, PrepareStutters
<1> QED
    BY <1>3, <1>4 DEF PlanSegment

\* The plan is complete: the call commits to the whole of it.
LEMMA BeginApplyRefines ==
    ASSUME LoaderInv, PlanOfTable, BeginApply
    PROVE  Atomic!Complete
<1> DEFINE published == Published(request, loads)
<1>1. /\ phase = "plan" /\ request # None /\ request.api \in ElfApis /\ ~Applying /\ Applying'
      /\ index' = 1 /\ UNCHANGED <<memory, fileSize, call, request, loads, outcome>>
    BY DEF BeginApply, LoaderInv, TypeOK, PhaseOfRequest, Applying
<1>2. /\ WellFormed(request.image) /\ EeTarget(request.image) /\ TableReadable(request.image)
      /\ Atomic!Consistent(request.image) /\ Atomic!InTableOrder(request.image, loads)
    BY <1>1, PlannedConsistent DEF PlanOfTable
<1>3. /\ "segments" \in DOMAIN published /\ published.segments = loads
      /\ published = Atomic!Returned(request, loads)
    BY PublishedFacts DEF Published, Atomic!Returned
<1> HIDE DEF published
<1>4. Atomic!Outcome(request, published)
  <2>1. Atomic!ElfOutcome(request, published)
      BY <1>2, <1>3, SameContainer DEF Atomic!ElfOutcome
  <2> QED
      BY <1>1, <2>1, ElfOutcomes
<1>5. Completed' = Filled(memory, loads, call, ZeroFills(request.api), ZeroByte)
  <2>1. [k \in 1 .. Len(loads) |-> loads[k]] = loads
      BY LenProperties DEF LoaderInv
  <2>2. Completed' = Filled(memory, [k \in 1 .. Len(loads) |-> loads[k]], call,
                            ZeroFills(request.api), ZeroByte)
      BY <1>1 DEF Completed, Filled, InFile, InTail, FileEndAddress, MemoryEndAddress
  <2> QED
      BY <2>1, <2>2
<1>6. Atomic!Stored(request, published) = Completed'
  <2>1. Atomic!Stored(request, published)
          = Atomic!Filled(memory, loads, call, request.api # "load_ee_elf32_file_segments", ZeroByte)
      BY <1>1, <1>3 DEF Atomic!Stored
  <2> QED
      BY <1>5, <2>1, SameFilled DEF ZeroFills
<1>7. Published(request, loads)' = published
    BY <1>1 DEF published, Published
<1> QED
    BY <1>1, <1>4, <1>6, <1>7 DEF Atomic!Complete

\* Applying it is invisible.
LEMMA ApplyRefines ==
    ASSUME LoaderInv, CopyFileBytes \/ ZeroFill
    PROVE  UNCHANGED Atomic!vars
<1>1. Applying /\ Applying' /\ UNCHANGED <<fileSize, call, request, loads, outcome>>
    BY DEF Applying, CopyFileBytes, ZeroFill
<1>2. Completed' = Completed
    BY CopyCompleted, ZeroCompleted
<1>3. Published(request, loads)' = Published(request, loads)
    BY <1>1 DEF Published
<1> QED
    BY <1>1, <1>2, <1>3 DEF Atomic!vars

LEMMA ReturnRefines ==
    ASSUME LoaderInv, Return
    PROVE  UNCHANGED Atomic!vars
<1>1. /\ Applying /\ ~Applying' /\ index > Len(loads) /\ memory' = memory
      /\ request' = None /\ outcome' = Published(request, loads)
      /\ fileSize' = fileSize /\ call' = call /\ index \in Nat /\ Len(loads) \in Nat
      /\ DOMAIN memory = 1 .. MemorySize /\ phase = "copy" /\ request # None
    BY LenProperties DEF Return, Finish, Applying, LoaderInv, TypeOK, PhaseOfRequest
<1>2. \A k \in index .. Len(loads) : FALSE
    BY <1>1
<1>3. Completed = memory
  <2>1. Completed = FilledFrom(memory, index)
      BY DEF Completed, FilledFrom
  <2>2. index \in Nat \ {0}
      BY <1>1 DEF LoaderInv, PhaseOfRequest
  <2>6. /\ request # None /\ index \in Nat \ {0} /\ index \in Int /\ Len(loads) \in Nat
        /\ DOMAIN memory = 1 .. MemorySize
      BY <1>1, <2>2
  <2>3. ASSUME NEW a \in 1 .. MemorySize
        PROVE  FilledFrom(memory, index)[a] = memory[a]
    <3>1. FilledFrom(memory, index)[a] =
              IF ZeroFills(request.api) /\ \E k \in index .. Len(loads) : InTail(loads[k], a)
              THEN ZeroByte ELSE memory[a]
      <4>1. RestIn(FilledFrom(memory, index), memory, index)
          BY <2>6, RestFilled
      <4> QED
          BY <1>2, <4>1 DEF RestIn
    <3> QED
        BY <1>2, <3>1
  <2>4. FilledFrom(memory, index) = [a \in 1 .. MemorySize |-> FilledFrom(memory, index)[a]]
      BY <1>1 DEF FilledFrom, Filled
  <2>5. memory = [a \in 1 .. MemorySize |-> memory[a]]
      BY <1>1 DEF LoaderInv, TypeOK
  <2> QED
      BY <2>1, <2>3, <2>4, <2>5
<1> QED
    BY <1>1, <1>3 DEF Atomic!vars

\* A raw image that is stored is the only segment of its call.
LEMMA RawStored ==
    ASSUME LoaderInv, request # None, NEW size \in Nat, NEW address \in Nat,
           address + size <= MemorySize, NEW tails,
           memory' = SliceAssign(memory, address, address + size, PayloadSlice(size, 0, size))
    PROVE  memory' = Filled(memory, <<RawLoad(address, size)>>, call, tails, ZeroByte)
<1> DEFINE load == RawLoad(address, size)
           filled == Filled(memory, <<load>>, call, tails, ZeroByte)
<1>1. /\ memory' \in Seq(Cells) /\ Len(memory') = MemorySize
      /\ \A b \in 0 .. size - 1 : memory'[address + b + 1] = <<call, 0 + b>>
      /\ \A a \in 1 .. MemorySize : memory'[a] # memory[a] => address < a /\ a <= address + size
  <2>1. call \in 1 .. MaxCalls
      BY RequestFacts
  <2>2. 0 \in Nat /\ size = 0 + size /\ size <= size
      OBVIOUS
  <2> QED
      BY <2>1, <2>2, CopyExact, ZenonT(90)
<1>2. DOMAIN memory = 1 .. MemorySize /\ DOMAIN memory' = 1 .. MemorySize
    BY <1>1, LenProperties DEF LoaderInv
<1>3. memory' = [a \in 1 .. MemorySize |-> memory'[a]]
  <2>1. memory' \in [1 .. MemorySize -> Cells]
      BY <1>1, MemoryFunction
  <2> QED
      BY <2>1
<1>4. filled = [a \in 1 .. MemorySize |-> filled[a]]
    BY <1>2 DEF Filled
<1>5. ASSUME NEW a \in 1 .. MemorySize
      PROVE  memory'[a] = filled[a]
  <2>1. /\ load.start = address /\ load.offset = 0
        /\ FileEndAddress(load) = address + size /\ MemoryEndAddress(load) = address + size
      BY DEF RawLoad, FileEndAddress, MemoryEndAddress
  <2>2. DOMAIN <<load>> = {1} /\ <<load>>[1] = load
      OBVIOUS
  <2> HIDE DEF load
  <2>3. ~InTail(load, a)
      BY <2>1 DEF InTail
  <2>4. CASE InFile(load, a)
    <3>1. filled[a] = <<call, load.offset + (a - 1 - load.start)>>
        BY <1>2, <2>2, <2>4 DEF Filled
    <3>2. /\ a - 1 - address \in 0 .. size - 1
          /\ address + (a - 1 - address) + 1 = a
          /\ load.offset + (a - 1 - load.start) = 0 + (a - 1 - address)
        BY <2>1, <2>4 DEF InFile
    <3>3. memory'[a] = <<call, 0 + (a - 1 - address)>>
        BY <1>1, <3>2
    <3> QED
        BY <3>1, <3>2, <3>3
  <2>5. CASE ~InFile(load, a)
    <3>1. filled[a] = memory[a]
        BY <1>2, <2>2, <2>3, <2>5 DEF Filled
    <3>2. memory'[a] = memory[a]
        BY <1>1, <2>1, <2>5 DEF InFile
    <3> QED
        BY <3>1, <3>2
  <2> QED
      BY <2>4, <2>5
<1> HIDE DEF filled
<1> QED
    BY <1>3, <1>4, <1>5 DEF filled

\* The range check of a raw load is the condition AtomicLoader puts on its outcome.
LEMMA RawOutcomes ==
    ASSUME LoaderInv, request # None, NEW size \in Nat
    PROVE  /\ ~RangeValid(request.address, size) =>
                  Atomic!RawOutcome(request, size, [error |-> "ValueError"])
           /\ RangeValid(request.address, size) =>
                  /\ request.address \in Nat /\ request.address + size <= MemorySize
                  /\ Atomic!RawOutcome(request, size,
                         Published(request, <<RawLoad(request.address, size)>>))
<1>1. request.address \in Int /\ MemorySize \in Nat /\ Len(memory) = MemorySize
    BY RequestFacts, LoaderAssumption DEF LoaderInv
<1>2. RangeValid(request.address, size) <=> request.address \in 0 .. MemorySize - size
    BY <1>1 DEF RangeValid
<1>3. RangeValid(request.address, size) =>
          request.address \in Nat /\ request.address + size <= MemorySize
    BY <1>1 DEF RangeValid
<1>4. Atomic!Returned(request, <<Atomic!RawLoad(request.address, size)>>)
        = Published(request, <<RawLoad(request.address, size)>>)
  <2>1. Atomic!RawLoad(request.address, size) = RawLoad(request.address, size)
      BY SameContainer
  <2> QED
      BY <2>1 DEF Atomic!Returned, Published
<1> QED
    BY <1>2, <1>3, <1>4 DEF Atomic!RawOutcome

LEMMA LoadRawRefines ==
    ASSUME LoaderInv, request # None, ~Applying, NEW size \in Nat, LoadRaw(size),
           \A result : Atomic!RawOutcome(request, size, result) => Atomic!Outcome(request, result)
    PROVE  Atomic!Complete
<1>1. CASE ~RangeValid(request.address, size) /\ Raise("ValueError")
    BY <1>1, RawOutcomes, RaiseCompletes
<1>2. CASE /\ RangeValid(request.address, size)
           /\ memory' = SliceAssign(memory, request.address, request.address + size,
                                    PayloadSlice(size, 0, size))
           /\ Finish(Published(request, <<RawLoad(request.address, size)>>))
  <2> DEFINE segments == <<RawLoad(request.address, size)>>
             published == Published(request, segments)
  <2>1. /\ request' = None /\ ~Applying' /\ outcome' = published
        /\ fileSize' = fileSize /\ call' = call
      BY <1>2 DEF Finish, Applying
  <2>2. Atomic!Outcome(request, published)
      BY <1>2, RawOutcomes
  <2>3. "segments" \in DOMAIN published /\ published.segments = segments
    <3> HIDE DEF segments
    <3> QED
        BY PublishedFacts DEF Published
  <2>4. memory' = Filled(memory, segments, call, request.api # "load_ee_elf32_file_segments",
                         ZeroByte)
      BY <1>2, RawOutcomes, RawStored
  <2> HIDE DEF published, segments
  <2>5. Atomic!Stored(request, published) = memory'
    <3>1. Atomic!Stored(request, published)
            = Atomic!Filled(memory, segments, call,
                            request.api # "load_ee_elf32_file_segments", ZeroByte)
        BY <2>3 DEF Atomic!Stored
    <3> QED
        BY <2>4, <3>1, SameFilled
  <2> QED
      BY <2>1, <2>2, <2>5 DEF Atomic!Complete
<1> QED
    BY <1>1, <1>2 DEF LoadRaw

LEMMA RawRefines ==
    ASSUME LoaderInv, LoadRawBytes \/ StatFile \/ ReadFile
    PROVE  Atomic!Complete \/ UNCHANGED Atomic!vars
<1>1. request # None /\ ~Applying /\ phase \in {"raw", "stat", "read"}
    BY DEF LoadRawBytes, StatFile, ReadFile, LoaderInv, TypeOK, Applying
<1>2. request.image.size \in Nat /\ (fileSize # Missing => fileSize \in Nat)
    BY <1>1, RequestFacts, FileSizesAssumption DEF LoaderInv, TypeOK
<1>3. CASE LoadRawBytes
  <2>1. request.api = "load_raw_binary" /\ LoadRaw(request.image.size)
      BY <1>3 DEF LoadRawBytes, LoaderInv, PhaseOfRequest
  <2>2. \A result :
          Atomic!RawOutcome(request, request.image.size, result) => Atomic!Outcome(request, result)
      BY <2>1 DEF Atomic!Outcome
  <2> QED
      BY <1>1, <1>2, <2>1, <2>2, LoadRawRefines
<1>4. CASE StatFile \/ ReadFile
  <2>1. request.api = "load_raw_binary_file"
      BY <1>4 DEF StatFile, ReadFile, LoaderInv, PhaseOfRequest
  <2>2. fileSize = Missing => Atomic!Outcome(request, [error |-> "OSError"])
      BY <2>1 DEF Atomic!Outcome
  <2>3. fileSize # Missing =>
          \A result : Atomic!RawOutcome(request, fileSize, result) => Atomic!Outcome(request, result)
      BY <2>1 DEF Atomic!Outcome
  <2>4. CASE fileSize = Missing /\ Raise("OSError")
      BY <1>1, <2>2, <2>4, RaiseCompletes
  <2>5. CASE fileSize # Missing /\ ~RangeValid(request.address, fileSize) /\ Raise("ValueError")
      BY <1>1, <1>2, <2>3, <2>5, RawOutcomes, RaiseCompletes
  <2>6. CASE phase' = "read" /\ UNCHANGED <<memory, fileSize, call, request, index, loads, outcome>>
    <3>1. ~Applying'
        BY <2>6 DEF Applying
    <3> QED
        BY <1>1, <2>6, <3>1, PrepareStutters
  <2>7. CASE fileSize # Missing /\ LoadRaw(fileSize)
      BY <1>1, <1>2, <2>3, <2>7, LoadRawRefines
  <2> QED
      BY <1>4, <2>4, <2>5, <2>6, <2>7 DEF StatFile, ReadFile
<1> QED
    BY <1>3, <1>4 DEF LoadRawBytes, StatFile, ReadFile

\* A call is a call, a rewrite a rewrite, even while a committed call is being applied.
LEMMA CallRefines ==
    ASSUME LoaderInv, Call
    PROVE  Atomic!Call
<1>1. PICK r \in Requests[call + 1] :
        /\ phase = "idle" /\ call < MaxCalls
        /\ request' = r /\ phase' = FirstPhase(r.api) /\ call' = call + 1 /\ outcome' = None
        /\ memory' = memory /\ fileSize' = fileSize
    BY DEF Call
<1>2. call + 1 \in 1 .. MaxCalls
    BY <1>1, LoaderAssumption DEF LoaderInv, TypeOK
<1>3. r # None /\ r.api \in ElfApis \cup {"load_raw_binary", "load_raw_binary_file"}
    BY <1>2, RequestsAssumption
<1>4. ~Applying /\ ~Applying' /\ request = None
    BY <1>1, <1>3 DEF Applying, FirstPhase, ElfApis, LoaderInv, TypeOK
<1> QED
    BY <1>1, <1>3, <1>4 DEF Atomic!Call

LEMMA RewriteRefines ==
    ASSUME LoaderInv, RewriteFile
    PROVE  Atomic!RewriteFile
<1>1. /\ request # None => request.api = "load_raw_binary_file"
      /\ fileSize' \in FileSizes /\ UNCHANGED <<memory, call, request, phase, index, loads, outcome>>
    BY DEF RewriteFile
<1>2. Completed' = Completed /\ Applying' = Applying
    BY <1>1 DEF Completed, Applying, Filled, InFile, InTail, FileEndAddress, MemoryEndAddress
<1>3. Published(request, loads)' = Published(request, loads)
    BY <1>1 DEF Published
<1> QED
    BY <1>1, <1>2, <1>3 DEF Atomic!RewriteFile

\* Every step of the loader is a step of AtomicLoader, or invisible to its callers.
LEMMA NextRefines == LoaderInv /\ PlanOfTable /\ [Next]_vars => [Atomic!Next]_(Atomic!vars)
<1> SUFFICES ASSUME LoaderInv, PlanOfTable, [Next]_vars
             PROVE  Atomic!Next \/ UNCHANGED Atomic!vars
    OBVIOUS
<1>1. Atomic!Call \/ Atomic!Complete \/ Atomic!RewriteFile => Atomic!Next
    BY DEF Atomic!Next
<1>2. CASE Call
    BY <1>1, <1>2, CallRefines
<1>3. CASE ParseHeader
    BY <1>1, <1>3, ParseRefines
<1>4. CASE PlanSegment
    BY <1>1, <1>4, PlanRefines
<1>5. CASE BeginApply
    BY <1>1, <1>5, BeginApplyRefines
<1>6. CASE CopyFileBytes \/ ZeroFill
    BY <1>6, ApplyRefines
<1>7. CASE Return
    BY <1>7, ReturnRefines
<1>8. CASE LoadRawBytes \/ StatFile \/ ReadFile
    BY <1>1, <1>8, RawRefines
<1>9. CASE RewriteFile
    BY <1>1, <1>9, RewriteRefines
<1>10. CASE UNCHANGED vars
  <2>1. UNCHANGED <<memory, fileSize, call, request, phase, index, loads, outcome>>
      BY <1>10
  <2>2. Completed' = Completed /\ Applying' = Applying
      BY <2>1 DEF Completed, Applying, Filled, InFile, InTail, FileEndAddress, MemoryEndAddress
  <2>3. Published(request, loads)' = Published(request, loads)
      BY <2>1 DEF Published
  <2> QED
      BY <2>1, <2>2, <2>3 DEF Atomic!vars
<1> QED
    BY <1>2, <1>3, <1>4, <1>5, <1>6, <1>7, <1>8, <1>9, <1>10 DEF Next

LEMMA InitRefines == Init => Atomic!Init
<1> SUFFICES ASSUME Init PROVE Atomic!Init
    OBVIOUS
<1>1. ~Applying
    BY DEF Init, Applying
<1> QED
    BY <1>1 DEF Init, Atomic!Init

\* Every loader call is all or nothing (elf32.py:348,358; docs/SIMULATION_PLATFORM.md:137-147):
\* whatever the image, the memory and the moment the raw file is rewritten, it stores the
\* image a declarative reading of the program-header table describes, or raises the error
\* that table or range deserves and stores nothing.
THEOREM LoaderImplementsAtomicLoader == Spec => ImplementsAtomicLoader
<1>1. Init => PlanOfTable
    BY DEF Init, PlanOfTable
<1>2. Spec => []PlanOfTable
    BY <1>1, LoaderInvariant, NextPlanOfTable, PTL DEF Spec
<1> QED
    BY <1>2, InitRefines, NextRefines, LoaderInvariant, PTL
       DEF Spec, ImplementsAtomicLoader, Atomic!Spec
===============================================================================
