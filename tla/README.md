# Formal model of the PS2_fpga simulation platform and R5900 core

TLA+ modules, TLC configurations and TLAPS proofs for the implemented part of the
repository: the memory bus and its behavioural RAM, the R5900 fetch path, the
multi-cycle R5900 core, the instruction set as the RTL and as the Python
reference model each define it, the simulation platform (watchdog, termination,
traces), the program loaders and the gate over the project's milestone register. Line references are to the repository.

## 1. The system

The repository is a PlayStation 2 FPGA project at an early milestone. Most of
`rtl/` (GS, VU, IOP, DMAC, ...) is empty directories; what exists is a synchronous,
single-clock design with one bus, one memory and one processor core, a simulation
platform around them, and a Python model used by the differential tests.

### Components, state and operations

| Component | Source | State | Operations | Modelled by |
|---|---|---|---|---|
| Memory bus | `rtl/memory/memory_bus_if.sv` | wires only | ready/valid request and response channels | the `bus` records |
| Behavioural RAM | `sim/models/behavioral_system_ram.sv` | storage; response valid, data, error; pending flag and countdown | accept a request, count down, offer and release a response, backdoor store, reset | `SystemRam` |
| Protocol checker | `rtl/memory/memory_bus_protocol_checker.sv` | outstanding flag; what was stalled at the last edge | observe, assert, reset | `BusProtocolChecker` |
| Fetch path | `rtl/ee/r5900/r5900_fetch_{path,request,response}.sv` | pending address; acceptance register; armed flag; captured word | start, acceptance, arming, capture, consumption, reset | `R5900FetchPath` |
| Core sequencing | `r5900_core.sv`, `r5900_control.sv`, `r5900_pc.sv`, `r5900_writeback.sv`, `r5900_hilo_state.sv`, `r5900_gpr_*.sv`, `r5900_decode_dispatch.sv` | phase; program counter; instruction, operation; retirement and writeback registers; registers; HI/LO | the five phases, commit, HI/LO write, reset | `R5900Core` |
| Decoder, execute block | `r5900_decode.sv`, `r5900_execute.sv`, `r5900_instruction_fields.sv` | none | decode, execute | `R5900Isa` |
| Python reference model | `reference/ee/r5900.py` | registers, HI/LO, pc | `step`; the instruction encoders | `R5900Reference`, `R5900Encoders` |
| Byte memory reference model | `reference/common/byte_memory.py` | bytes | read, write, masked write of each width | `ByteMemory` |
| Simulation top | `sim/ps2_sim_top.sv` | none of its own | selects one of three bus masters | `MemoryPort`, `FetchRam`, `CoreRam`, `SimTop` |
| Simulation control | `sim/models/sim_{reset,cycle_timeout,termination}.sv` | cycle counter, result latches | count, time out, latch one result | `SimTop` |
| Trace sinks | `sim/debug/*_trace*.sv` | cycle and sequence counters, growing files | stamp and write records | `SimTop` |
| Program loaders | `sim/loaders/elf32.py`, `sim/loaders/raw_binary.py` | the caller's byte array; the plan of a load | parse, plan, copy, zero-fill; stat and read a raw file | `Elf32`, `ProgramLoader` |
| Milestone gate | `scripts/check_milestones.py` | none; reads `milestones.yaml` and `PROGRESS.md` | validate, return an exit code | `MilestoneRegister` |
| Debug interface, waveforms, clock, `register_en`, other scripts | | | | not modelled (section 8) |

### How they interact

All blocks share one clock and one active-low synchronous reset. `ps2_sim_top`
connects exactly one master to the bus: an external one, the fetch path alone, or
the whole core. The master and the RAM exchange one outstanding transaction over
the bus; the checker watches. Inside the core the sequencer and the fetch path
exchange one-cycle pulses; decoder and execute block are combinational; the
writeback block commits a register in the cycle after execution. The harness
drives `rst_ni`, `run_i` and the RAM's backdoor at any edge. The watchdog, the
termination block and the trace sinks only watch: they end the simulation or write
files, at the same edges. The loaders run outside the simulation, on a byte array
that becomes the RAM's contents; the tests run the two Python reference models beside
the RTL and build their programs with the encoders.

### What is hard here

* Nothing blocks and nothing is called: everything happens at once at an edge, on
  the values before the edge. Several `if`s of one `always_ff` assign the same
  register and the last one wins (`behavioral_system_ram.sv:142-180`,
  `r5900_fetch_response.sv:39-63`); several blocks track one fact with a lag
  (`request_accepted_q` trails the bus by one edge, the checker tracks the RAM).
* The sequencer listens for a pulse only in the phase that expects it
  (`r5900_core.sv:92-100`); a pulse an edge early or late hangs the core silently.
* Reset, `run_i` and a store to the program being executed can fall at any edge,
  including in mid-instruction. HI/LO and the registers have no reset.
* The instruction encodings are written down three times: in the decoder, again in
  the execute block's own checks, and in Python. A disagreement is a hang or a
  differential failure on words no test generates.

* The Python code is sequential, but not alone: the raw file may change between
  `stat` and `read_bytes`, a load may fail in the middle of a table, and slice
  assignment clamps and resizes silently.
* The milestone gate checks direct dependencies only; whether that is enough for the
  whole graph is an argument nobody has written down.

What makes each component correct:

* RAM: it obeys the bus protocol with any protocol-abiding master; it answers after
  exactly `RESPONSE_LATENCY_CYCLES`; it is an atomic memory.
* Checker: its record of "outstanding" is exact.
* Fetch path: one fetch is in one place; it delivers one consistent sample of memory
  at the address of the start; it never trips a fatal assertion.
* Core: phases and fetch path stay in step; a retirement is reported once for each
  executed instruction, with its own address; no commit is lost; the whole is an
  ordinary one-instruction-at-a-time machine; it never hangs on a legal program.
* Decoder, execute and reference model: they define one instruction set, and the
  encoders are its inverse. Byte memory: it holds what the RAM holds, and refuses
  what the RAM refuses.
* Watchdog and termination: one result per reset epoch, the first; a timeout at
  exactly the limit; an exit status that means what it says. Traces: they number the
  edges alike and account for every transaction.
* Loaders: a call loads its whole image or leaves memory alone, and memory is what the
  result says.
* Milestone gate: it passes exactly the registers that are consistent plans.

## 2. How a clocked design becomes TLA+

One step of a model is one rising clock edge. A state holds the registers *and* the
values of the environment's wires before the edge, that is, what every `always_ff`
block and every assertion samples. `ClockEdge` (reset released) and `ResetEdge`
(reset asserted) say what all blocks do at that edge; `Drive` then gives the
environment's wires any new value the environment may give them. Component modules
(`SystemRam`, `BusProtocolChecker`, `R5900FetchPath`, `R5900Core`) declare their
registers and define `XxxInit`, `XxxReset` and `XxxClock(wires...)`; composing
modules tie the wires together. Combinational wires are operators of the same
meaning, often of the same name (`FetchStartReady`, `commit_accepted`). Overlapping
nonblocking assignments appear as the single next-state expression they amount to.

A simulation assertion becomes a predicate named as the message it reports
(`MEMBUS_RSP_CAUSAL`, `R5900_FETCH_BUSY`), evaluated over the state before an edge.
Assertions about somebody's obligations divide in two: what the environment owes is
in `Drive`, what the design owes is a property. The environments:

* `MemoryPort`: a master that holds a stalled request, and a harness that does not
  store through the backdoor on the edge of a bus write. Both are fatal assertions of
  the code (`MEMBUS_REQ_*`, `RAM_WRITE_CONFLICT`), so no run of the program goes on
  after their violation.
* `FetchRam`: a caller that starts a fetch only when the path says it is ready
  (`R5900_FETCH_BUSY`).
* `CoreRam`: nothing at all is assumed of `run_i`, reset or the backdoor.

* `SimTop`: `MemoryPort`'s master and harness, and any PASS, FAIL and event inputs.

In all of them, reset is low at power-up and may then fall or rise at any edge. The
code's `sim_reset` asserts it at power-up only, but the synthesizable blocks are
written for a reset at any time and the unit tests reassert it.

The Python components are modelled one statement that matters at a time.
`ProgramLoader` takes one step per program header planned and one per slice assigned,
so that a failure or a change of the file can fall between any two; encoders, byte
memory accesses and the gate are single calls and stand as operators.

## 3. Modules

| Module | Models | Notes |
|---|---|---|
| `SystemRam` | the RAM | parameterised by size, latency, the byte values |
| `BusProtocolChecker` | the checker | payload registers are kept only while "stalled" makes them readable |
| `MemoryPort` | RAM + checker + any master | |
| `MemoryLatency` | `MemoryPort` with the age of the request in flight | a history variable driven by the wires of the bus alone (reset, the two handshakes), for `LatencyExact` |
| `AtomicMemory` | abstract: what a memory port promises | no latency, no registers |
| `R5900FetchPath` | the three fetch blocks | |
| `FetchBus` | fetch path + RAM + checker | shared by the next two, with the invariants they share |
| `FetchRam` | the fetch path under a harness | |
| `InstructionFetch` | abstract: what a fetch delivers | |
| `R5900Isa` | decoder and execute block | constant-level; powers of two and bitwise AND are recursive functions, not RECURSIVE operators, so that they can be reasoned about |
| `R5900Core` | the core's registers and sequencing | |
| `CoreRam` | core + RAM + checker | |
| `R5900Machine` | abstract: the instruction-level machine | fetch one word atomically, execute it atomically; takes decoder and execute block as parameters |
| `R5900Reference` | the Python `R5900State.step` | written from the Python, not from the RTL; `Dispatch` and `ReferenceStep` are sets of successors, empty where the model raises |
| `R5900Encoders` | the Python `encode_*` functions | opcode numbers written from the Python constants |
| `Lockstep` | `R5900Machine` beside `R5900Reference` and the encoders | the machine's parameters are instantiated with the RTL's decoder and execute block |
| `ByteMemory` | the Python `ByteMemoryModel` | constant-level |
| `MemoryDifferential` | `MemoryPort` beside `ByteMemory` | each accepted access is made on both |
| `SimTop` | watchdog, termination, both trace sinks, with `MemoryPort` | all clocked by one edge |
| `SimTopObserver` | history variables over `SimTop` and its properties | what a reader of the wires and the files would note down |
| `Elf32` | the ELF container as the loader reads it | an image is a record of decoded fields |
| `ProgramLoader` | ELF and raw loaders | and their inductive invariant |
| `AtomicLoader` | abstract: what a load promises | one step; loadable is said of the whole table |
| `MilestoneRegister` | `check_milestones.py` | and what a register means as a plan |
| `MC_*` | instances for TLC | |
| `*_proofs` | theorems | |

The chain of claims: `CoreRam` implements `R5900Machine` (run `core_step`, and proved for
every program: `CoreImplementsMachine`), and `R5900Machine` agrees with `R5900Reference`
(runs `lockstep_*`, and proved for every program: `ModelsAlwaysAgree`); so the core, with
its phases and latencies, computes what the Python model computes. The two theorems are about two modules; that the machine of the
one is the machine of the other is read off the module they share.

### Abstractions

* **Widths.** Instruction words are real 32-bit words (four bytes, little-endian,
  real field positions). Operand words are `WORD_BITS` wide, scalars twice that,
  immediates half of it; at 32 the formulas are the code's. TLC runs at 4, which
  keeps every relation (sign extension of a word in a scalar, `sa` modulo the width,
  the "+32" shifts, product halves) at a size where all operand pairs near the
  boundaries are enumerable. The program counter counts modulo `PC_SPAN`.
* **Upper lane.** Bits 64 to 127 of a register are an opaque value: no implemented
  instruction looks at them, they are only carried along.
* **Writeback payload.** `writeback_value_q` is kept as zero while no commit is
  pending, since only a pending commit reads it.
* **Unknown values.** Assertions about X bits, and the propagation of X, are left out;
  storage, registers and HI/LO, which have no reset, may start with any of a set of
  values instead.
* **Image bytes.** A byte of an image is the pair of the call and its offset, so that a
  byte of another call or at another place is told apart whatever its value.
* **Python slices** are modelled as Python has them: bounds clamp, negative ones count
  from the end, and an assignment of another length resizes.
* **Cycle counters** are `COUNT_MODULUS` wide; 2^32 in the code. The event sequence
  number has 64 bits there; one modulus serves for both, as nothing compares the two.
* **`$fatal` and `$finish`** end the simulation at the edge where they are called. Calls
  by two processes at one edge may run in either order, and the other blocks of that
  edge may or may not have run. `FATAL_ON_TIMEOUT`, `FATAL_ON_FAIL` and
  `FINISH_ON_PASS`, which enable the calls one by one, are independent parameters of the
  build: `enabled` is the set of those that are on, any of the eight, and never changes
  (the tests of the repository use several of them).
* **Identifiers and texts** of the milestone register: an identifier is its number and
  its letter, a commit is the class the code's pattern puts it in, a progress field is
  the identifier it begins with.
* **Constant ports.** The program counter's redirect port is tied off by the core
  and is not modelled. `fetch_error_q` is captured and, as in the code, ignored by
  the core; no RAM response ever carries an error.

## 4. Runs

Every run but the last passes; the last shows the finding of section 6. Deadlock is
checked in all runs but the two of the milestone gate, a script that ends.

| Run | Configuration | Question | Distinct states |
|---|---|---|---|
| `port_latency` | latency 2, 20 bytes, 7 request kinds (4 of them refused), backdoor inside and outside | Does the port obey the protocol, keep its latency, act as an atomic memory, and agree with the Python byte memory? | 26,336 |
| `port_live` | latency 1, free-running clock | Is every supported request accepted, every accepted one answered? | 740 |
| `fetch_wait` | latency 2, three addresses, stores into fetched words | Do path, RAM and checker agree; is each fetch one sample of memory? | 14,160 |
| `fetch_zero` | latency 0, free-running clock | Arming and answer meet at one edge: do the views still agree; is the word delivered? | 786 |
| `core_step` | latency 1, self-modifying programs, reset and run at will | Is the core in step with itself, and an instruction-level machine? | 11,848 |
| `core_live` | latency 0, programs that wrap, free-running clock | Does the core ever stop when it should not? | 460 |
| `lockstep_results` | every operation on 11 x 11 boundary operands | Does execute compute what Python computes? | 59,688 |
| `lockstep_decode` | every opcode and function code, each field zero or not | Do the two accept the same words, and do the encoders invert them? | 9,160 |
| `loader` | 6 bytes of memory, two calls, ELF tables of up to three headers, every faulty field, a raw file that is rewritten | Is each call all or nothing, and is memory what it published? | 95,536 |
| `sim_top` | limit 2, counters modulo 3, every setting of the three parameters that end a simulation; reset, PASS, FAIL, events and transactions at will | One verdict, an exact timeout, consistent traces, a sound exit status? | 618,144 |
| `milestones` | registers of up to three milestones: every dependency graph and status, every commit and form, every progress file | Does the gate pass exactly the consistent plans? | 96,490 |
| `milestones_progress` | the same | Does PROGRESS.md name the milestones the register says? | violated |

### Properties

* `TypeOK` (each composition): besides the types, the countdown stays in
  `0 .. RESPONSE_LATENCY_CYCLES` (an unsigned register that must not pass zero) and
  every result fits its lane.
* `TargetObeysProtocol`, `OutstandingExact`, `LatencyExact`,
  `ImplementsAtomicMemory`, `SupportedRequestsAccepted`, `AcceptedRequestsAnswered`:
  the port.
* `NoFetchFatal`, `InFlightViewsAgree`, `ImplementsInstructionFetch`,
  `FetchesDelivered`: the fetch path.
* `NoFatalAssertion`, `PhaseFollowsFetch`, `FetchesAtPc`, `CommitNeverSuppressed`,
  `RetirementMatches`, `ExecuteStopsOnlyIllegal`, `ImplementsMachine`,
  `KeepsRetiring`, `StartedFetchesFinish`, `StartedInstructionsRetire`: the core.
* `ModelsAgree`, `SupportAgrees`, `EncodersInvertDecoder`: the instruction set.
* `ReferenceAgrees`, `ReferenceRaisesWhereRefused`: the byte memory beside the RAM.
* `TypeOK` (of the loader: the memory is never resized), `PublishedIsInMemory`,
  `ImplementsAtomicLoader`: the loaders.
* `SimTypeOK`, `VerdictIsFirstRequest`, `TimeoutExact`, `StampsAgree`,
  `TraceMatchesBus`, `ExitStatusSound`: the simulation platform. They speak of history
  variables: the active edges, the first request of the epoch, the event records, and
  the REQ records without a RSP.
* `AcceptedPlanConsistent`, `ConsistentPlanAccepted`, `ProgressNamesState`: the gate.

### Why the bounds are enough

* **Storage** of 20 (or 16) bytes: a word at 16 is the last that fits, a 16-byte beat
  at 16 passes the end, 20 is the first address outside. The port treats all other
  addresses alike.
* **Latency** 0, 1 and 2 are the three shapes of the countdown: answered at once,
  armed and fired at consecutive edges, and with an edge in between that does
  neither. The proofs cover every latency.
* **Requests**: one of each class that `supported_request` distinguishes, accepted
  and refused.
* **Programs**: each result is an operand of the next instruction, through a register,
  through LO and through register zero (whose storage starts non-zero), ending in an
  illegal word; a backdoor store changes one of the words while it is fetched,
  decoded or executed.
* **Operands** at four bits: 0, 1, the largest positive word, the smallest negative
  one, all ones, and the same for the scalar.
* **Fields**: the decoders look at the opcode, the function code and whether a field is
  zero, and at nothing else.

* **Images**: segments at three addresses, of file sizes 0 and 2 and memory sizes 0, 2
  and 3, in every pair, give all the ways two ranges lie to each other; the oddities
  add each alignment case and each end past the image, the memory or the address space
  (128 bytes here). A first call has left its bytes behind, so that what a second call
  forgets to write shows.
* **Platform**: all eight settings of `enabled`; the limit is 2 and the counters wrap at
  3, before the edge where `active` saturates (4), so that a timeout that came back on
  wrapping would show.
* **Registers** of three milestones hold a chain, a diamond, a cycle, a duplicate and an
  unknown dependency; M009 and M009A are the identifiers where a prefix matters.

The bounds that are guards: `MaxCalls`, the loader calls on one memory (two). No counter
of the design is capped: every other state space is finite as it stands. The history
variable `age` of `MemoryLatency` stops at `RESPONSE_LATENCY_CYCLES`, where the response is
due and stays, and `active` of `SimTopObserver` at `ActiveBound`, past the edges that the
properties tell apart.

### Fairness

The only fairness is `WF_registers(Next)`: an edge that changes a register of the
design is not put off for ever. `sim_clock` toggles for ever, so there is always a
next edge; an edge that changes nothing is indistinguishable from no edge. The
subscript is the registers and not all of `vars` on purpose: with all of `vars`, a
design that hangs would force the environment to move `run_i` or reset sooner or
later, which would hide the hang from every property that assumes them steady.

Nothing is assumed of the environment except where a property says so:
`SupportedRequestsAccepted` asks that the master takes responses again and again,
`KeepsRetiring` that `run_i` and `rst_ni` stay high from some time on.

### Mutants

The modules hold, next to some definitions, a variant marked "Mutant": what the
definition would be after a plausible mistake in the code (a lost clear, two
assignments swapped, an off-by-one). No specification uses them. Replacing a
definition by its mutant must break the property paired with it in `PROJECT.json`;
this keeps every property honest about the code.

## 5. Proofs

Everything below holds for every value of the constants that satisfies the named
assumptions: every storage size of at least 16 bytes (the width of a beat), every
latency, every set of requests, backdoor values, start addresses and programs, and
every operand width in the list of `WordBitsAssumption`.

* `FetchBus_proofs`: what several compositions share. What the RAM's operators return and
  preserve (the storage stays a total function on the same addresses, read beats are beats,
  the countdown keeps its range); and the invariant of fetch path, RAM and checker is kept
  by an edge, whoever drives the path.
* `FetchRam_proofs`: `FetchInvariant`, `FetchTypeCorrect`, `FetchViewsAgree`,
  `FetchNeverFatal`; and the refinement `FetchImplementsInstructionFetch`.
* `SimTop_proofs`, the platform with an external master.
  - Port: `PortInvariant`, and from it `PortTypeCorrect`, `PortOutstandingExact`,
    `PortObeysProtocol`; the refinement `PortImplementsAtomicMemory`; `PortLatencyExact`.
  - Reference model of the memory: `DifferentialInvariant`, and from it
    `RamMatchesReference`; `RefusalsMatchReference`.
  - Control: `VerdictInvariant` and `VerdictIsFirst`; `WatchdogInvariant` and
    `WatchdogExact`; `ExitStatusIsSound`. For every limit and counter width.
  - Trace sinks: `SinkInvariant`, and from it `SimTypeCorrect`, `SinksAgree`,
    `TraceTellsOutstanding`.
* `R5900Isa_proofs`: `LegalWordsAccepted`. The execute block checks the encoding of a word a
  second time; on every word that the decoder gives an operation, row for row, that check
  agrees. And `ResultsFit`: whatever the word and the operands, each output of the execute
  block fits the register it goes to. The lemmas are about numbers: a recursive function
  exists (`PrimitiveRecursion`), powers of two multiply, bitwise AND is bounded by its operands, a
  signed product, quotient or shift stays within its width.
* `CoreRam_proofs`: `CoreInvariant`, and from it `CoreNeverFatal`,
  `CorePhaseFollowsFetch`, `CoreFetchesAtPc`, `CoreCommits`, `CoreRetires`;
  `CoreStopsOnlyIllegal`, which adds `LegalWordsAccepted`; `CoreTypeCorrect`, which adds
  `ResultsFit`; and the refinement `CoreImplementsMachine`.
* `Lockstep_proofs`, the instruction set, for every word, program, register contents and width.
  - Support: `ModelSupportsWhatDecodes`, and for the machine `SupportAgreement`.
  - Encoders: `EncodedWordsDecode`, and for the machine `WordInvariant`, `EncodersInvert`.
  - Results: `SameOutcome`, the reference model makes of every legal word what the execute
    block makes of it; and for the machine `ModelsAlwaysAgree`.
* `ProgramLoader_proofs`: `LoaderInvariant`, and from it `LoaderTypeCorrect` and
  `LoaderPublishesMemory`; the refinement `LoaderImplementsAtomicLoader`. For every memory
  size, every set of images and raw loads, and every behaviour of the file.
* `MilestoneRegister_proofs`: `GateInvariant`, and `AcceptedPlansConsistent` and
  `ConsistentPlansAccepted`, for every register, of any length, and every PROGRESS.md.

The assumptions on constants are those of the modules: sizes, latencies and limits are
naturals, the sets of inputs and of power-up contents are well typed (`RequestsAssumption`,
`BackdoorsAssumption`, the three `PowerUp...Assumption`s), sentinels are not data
(`NoPayloadAssumption`, `ValueErrorAssumption`), the watchdog's limit is below its counter's
modulus (`SimAssumption`), a word is four bytes (`BytesAssumption`), and the two program counters of
the lockstep have one modulus (`PcModulusAssumption`).

### The inductive invariants

`PortInv` adds three facts to the properties. `OutstandingExact` alone is not
inductive: that the RAM leaves "pending" at the right edge needs `CountdownArmed`
(the countdown is non-zero exactly while a response is pending), and that a stalled
response is still what the checker recorded needs `StalledResponseKept`.

`FetchBusInv` is the same for the fetch path's bus. Its heart is `InFlightViewsAgree`:
the path learns of an acceptance one edge after the RAM and the checker, and in that
edge's gap the acceptance register stands for the armed receiver. At latency zero the
response is offered in just that gap.

`CoreInv` adds `PhaseFollowsFetch`. No fatal assertion can be excluded without it: the
core asks the path for a fetch because of its *phase*, and the assertion is about the
*path's* registers. `CommitNeverSuppressed` and `RetirementMatches` are proved
together with it, since each phase is entered with the registers the previous one left.
The induction needs no fact about what an instruction computes, only that `execute`
either completes or does not.

`CoreTypeCorrect` is the exception: that a result fits its lane is a fact about arithmetic.
`RegistersTyped` names the part of `TypeOK` that the execute block can disturb, and `ResultsFit`
is all it needs.

`AgeInv` (for `LatencyExact`): the age of the request in flight, which is counted from the
handshake on the bus, is read off the RAM's registers. While a response is pending, age and
countdown add up to the latency; an offered response has the age of the latency; and
otherwise nothing is in flight. At latency zero only the last two cases occur.

`DifferentialInv` is the agreement of the two memories, with the answer on its way: the
RAM offers its response some edges after the model returned, so the invariant says that the
response register holds what the model returned from the acceptance on.

`SinkInv` ties the counters of both trace sinks to the edges of the epoch, and the number of
the next event to the number of event records. `$fatal` and `$finish` may end an edge
before one of the sinks has seen it; the number of the next event is
therefore tied to the records only while the simulation runs.

`WordInv` says that memory holds bytes, so that a fetched word is a word and the theorems
about words apply to it. `AgreeInv` adds to `ModelsAgree` the widths of the machine's registers and
pairs, without which the next result need not agree: `SameOutcome` holds of operands in
their widths, and `ResultsFit` gives them back.

`LoaderInv` carries the argument from the plan to the copies. Each planned load fits the
memory and the image (`LoadFits`, from `SegmentValid`), so no slice clamps and no
assignment resizes; planned loads are pairwise apart (`PlanApart`, from `Overlap`), so
storing one keeps those stored before (`PlanStored`, with lemma `EarlierKept`); and when
the last is stored the plan is what is published. `PublishedIsInMemory` alone says nothing
about a load in progress. TLC finds `LoaderInv` true on the instance of run `loader`.

`ExitStatusSound` needs both other invariants of the platform: that the request behind a
`$finish` or a `$fatal` was the first of the epoch is about the termination block, and that
the limit was reached on this edge is about the watchdog. `EdgeCalls` says what a call of an
edge means in the history after it, `EdgePast` that what the history holds after an edge was
there before or is of this edge. A simulation that runs has behind it none of the events
whose parameter is set, so the event that ends it is of the last edge.

`GateInv` is the script's verdict as a formula. The argument of the two theorems is that of
`DirectChecks`, what an accepted register looks like entry by entry: the milestones before an
entry, and the complete ones, are sets that hold the dependencies of all their members; the transitive
prerequisites are the least such set (`MilestoneRegister` defines them so), hence in both.

### The refinements

Each is the simulation of every clock and reset edge by one step of the abstract
specification or a stutter, from the inductive invariant of the detailed one.
`PortImplementsAtomicMemory` also uses that the master does not store by the backdoor at the
edge of a bus write (`AvoidsWriteConflict`): the memory could not say which of the two came
last. `FetchImplementsInstructionFetch` has one case per stage of a
fetch, with `FetchData` (the register the word is taken from holds the word that the sampled
memory had). `CoreImplementsMachine` needs, beyond `CoreInv`, that the register file stays a
function on the register numbers (`RegistersShaped`, a part of `CoreTypeCorrect`), that a
pending result reaches the stored registers whole at one edge (`SettledClock`), and that
`NoPayload`, which also stands for "no word in flight", is no instruction word
(`NoPayloadAssumption`). It uses nothing of what an instruction computes but that the result
has the register's type; what it computes is the lockstep's part.

`LoaderImplementsAtomicLoader` commits an ELF load at `BeginApply`, after which it cannot fail.
`PlanOfTable` says that the plan so far is what the entries read so far ask for, so that the
checks the code makes one entry at a time decide what `AtomicLoader` asks of the whole table
(`Consistent`); `Completed`, the memory with the rest of the plan filled in, does not change
while the slices are assigned.

### The results of the instructions

`SameOutcome` compares two computations that are written differently: Python's unbounded integers, with
a right shift that rounds down and reduction at write-back, and the RTL's fixed widths with
sign extension. An `Outcome` is one register, one value and some HI/LO registers; each
group of operations has a lemma that says both sides write the same one
(`WordShiftsAgree`, ..., `MultiplyAgrees`, `DivideAgrees`), from the facts about numbers of
`R5900Isa_proofs`: a sum, a shift or a product may be reduced before or after (`LaneWraps`), and the
word of a sign-extended word is the word (`SignedOfWord`). The other half is dispatch: `DispatchByFields` says which
arm of the Python dispatch a word takes, `AcceptedEncoding` which encodings
the execute block accepts.

Where an induction over data is needed, it is over a set of numbers: `NaturalInduction` (a set
that holds 0 and the successor of each member holds every number) and, from it,
`PrimitiveRecursion`, which turns a recursive function into its two equations.

Each proof of the RTL has one step for reset and one for the clock edge, and under it one per
phase or conjunct; the loader's has one lemma per action. The temporal step is last.

### Only model-checked

* Liveness (`SupportedRequestsAccepted`, `AcceptedRequestsAnswered`, `FetchesDelivered`,
  `KeepsRetiring`, `StartedFetchesFinish`, `StartedInstructionsRetire`): the prover has no
  method for it.
* `ProgressNamesState`, which the code violates (section 6).

Every other property of every run is a theorem.

## 6. What the checks showed

One disagreement between the code and what it says of itself:

* `check_milestones.py:170-175` cross-checks PROGRESS.md with the register by
  `str.startswith`. A field that names M009A is taken for M009, so PROGRESS.md can name
  the wrong milestone and pass. The register has such pairs (M009 and M009A, M108 and
  M108A). Run `milestones_progress`, property `ProgressNamesState`.

Otherwise the code does what its documents say in everything the runs ask. What a
reader should know, none of it in conflict with a statement of the repository:

* A reset in mid-instruction may leave an instruction half done: HI/LO written in
  EXECUTE without the register commit of WRITEBACK, or a lost register commit.
  `R5900Machine!Reset` states which halves are possible: HI/LO of the instruction in
  progress, and the registers as they were stored (`settled`), without the result of the
  last instruction if that had not been committed. A result settles before the next
  instruction is fetched, so at most one is ever lost.
* An illegal word is reported for one cycle, in DECODE; the core then stays in EXECUTE
  until reset.
* A program counter outside the RAM leaves the request on the bus for ever, without an
  error: `supported_request` withholds `req_ready`. In run `core_step` the counter span
  (64) is larger than the RAM (20 bytes), so that programs run into it; in run `core_live`
  the span is the RAM, so that programs go on for ever and the counter wraps.
* `fetch_error_o` is not looked at by the core. It would execute the word that came
  with an error; the RAM never reports one.
* A PASS at the very edge at which the watchdog expires may end the simulation either
  way: `$finish` and `$fatal` are called by two processes of one edge. `ExitStatusSound`
  excludes a PASS after that edge, not at it.
* With `FATAL_ON_TIMEOUT` clear and `FINISH_ON_PASS` set, a PASS after the watchdog
  expired ends the simulation with status zero: `timeout_o` stays high, but
  nothing in the platform looks at it.
  `ExitStatusSound` therefore speaks of an expiry only where it is fatal.
* A reset drops the response of an accepted request, so the memory trace then has a REQ
  line without a RSP. A reader has to restart the pairing where the cycle numbers restart.
* The ELF loader rejects a zero-size PT_LOAD that lies strictly inside another segment as
  an overlap, and accepts one at its start or end.

## 7. Plan

Done in this order, most important behaviour first: the memory port, the fetch path,
the core, the instruction set beside the reference model, the safety proofs of the
first three, the loaders with their proofs, the simulation platform with its proofs,
the encoders and the byte memory beside the RTL, the milestone gate, the refinement proofs of
port, fetch path, core and loader, the trace sinks and the byte memory as theorems, the gate for
registers of any length, the widths of the core's results, and the instruction set, encoders and
results, for every word. Left:

1. One theorem for the chain of claims: the core's architectural state follows the reference
   model, with `CoreImplementsMachine` and `SameOutcome` composed in one module.
2. The action properties behind the liveness runs (what keeps each of them moving) as theorems.

## 8. Not modelled

* `sim/models/sim_clock.sv`: a clock edge is a step.
* `r5900_debug_if.sv`, `sim_waveform_control.sv`: wiring and a `$dumpfile` call.
* `register_en` (RTL and Python): an example register used by nothing else.
* The constructor of `R5900State` (lines 502-542): it checks the types and widths of a
  whole state and changes nothing.
* `TypeError` for arguments of the wrong type, in all the Python code.
* Liveness of the platform: the watchdog's promise is the exact edge (`TimeoutExact`),
  which is stronger than "eventually".
* The other `scripts/`: each compares files with fixed lists or patterns, entry by entry.
* The text of traces and messages.
