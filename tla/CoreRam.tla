------------------------------- MODULE CoreRam -------------------------------
(***************************************************************************)
(* The core as the only master of the system RAM's bus, with the protocol    *)
(* checker watching: sim/ps2_sim_top.sv with R5900_CORE_ENABLE.  The          *)
(* environment is the harness: it raises and lowers run_i and reset when it  *)
(* likes, and stores through the backdoor at any edge, the program being     *)
(* executed included.                                                       *)
(***************************************************************************)
EXTENDS R5900Core, FetchBus

CONSTANT Backdoors   \* the values of the backdoor's wires

ASSUME BackdoorsAssumption == Backdoors \subseteq Backdoor
ASSUME NoPayloadAssumption == NoPayload \notin Word

VARIABLES
    rst_n,   \* active-low synchronous reset
    run,     \* run_i: new fetches are allowed
    bd       \* the backdoor's wires

wires == <<rst_n, run, bd>>
registers == <<ramVars, checkerVars, coreVars>>
vars == <<ramVars, checkerVars, coreVars, wires>>

------------------------------------------------------------------------------
Drive ==
    /\ rst_n' \in BOOLEAN
    /\ run' \in BOOLEAN
    /\ bd' \in Backdoors

Init ==
    /\ RamInit
    /\ CheckerInit
    /\ CoreInit
    /\ rst_n = FALSE
    /\ run = FALSE
    /\ bd \in Backdoors

ResetEdge ==
    /\ ~rst_n
    /\ RamReset
    /\ CheckerReset
    /\ CoreReset
    /\ Drive

ClockEdge ==
    /\ rst_n
    /\ TargetClock(fetch_instruction_ready, bd)
    /\ CoreClock(run)
    /\ Drive

Next == ResetEdge \/ ClockEdge

Spec == Init /\ [][Next]_vars

\* The clock runs free: an edge that changes a register is not put off for ever,
\* and the environment is never forced to change a wire.
FairSpec == Spec /\ WF_registers(Next)

------------------------------------------------------------------------------
(* Properties *)

\* Every register and wire holds a value of its type.
TypeOK ==
    /\ FetchBusTypeOK
    /\ CoreTypeOK
    /\ rst_n \in BOOLEAN
    /\ run \in BOOLEAN
    /\ bd \in Backdoors

\* The core never trips a fatal assertion of its fetch path, nor one of the bus
\* protocol checker, whatever run_i, reset and the backdoor do
\* (r5900_fetch_path.sv:62-67, r5900_fetch_request.sv:45-58,
\* r5900_fetch_response.sv:65-82, memory_bus_protocol_checker.sv:44-70).
NoFatalAssertion ==
    LET start == FetchPathStart(TRUE, run)
    IN  rst_n =>
            /\ R5900_FETCH_ALIGN(start, pc_q)
            /\ R5900_FETCH_BUSY(start, fetch_instruction_ready)
            /\ FetchBusAssertions(start, fetch_instruction_ready)

\* The sequencer and the fetch path, two machines that only exchange pulses, agree
\* on where the instruction is: nothing of a fetch is left outside the two fetch
\* phases, the request belongs to the first and the answer to the second.
PhaseFollowsFetch ==
    /\ FetchInOnePlace
    /\ pending_q => state = "FETCH_REQUEST"
    /\ (state = "FETCH_RESPONSE") <=>
           (request_accepted_q \/ response_expected_q \/ instruction_valid_q)
    /\ (state # "FETCH_RESPONSE") => ~(response_pending_q \/ rsp_valid_q)

\* The request on the bus, and the instruction in the core, are the ones at the
\* program counter: the counter does not move between the start of a fetch and the
\* completion of the instruction.
FetchesAtPc ==
    (pending_q \/ state \in {"FETCH_RESPONSE", "DECODE", "EXECUTE"}) => address_q = pc_q

\* The writeback block's memory of the last commit never suppresses the next one: it
\* is set only in the cycle after a commit, which is never another commit's, so
\* WRITEBACK lasts one cycle (r5900_core.sv:99-100, r5900_writeback.sv:25).
CommitNeverSuppressed ==
    /\ commit_seen_q => state = "FETCH_REQUEST"
    /\ writeback_pending_q => state = "WRITEBACK"
    /\ state = "WRITEBACK" => writeback_done

\* Retirements follow execution in order, one per instruction: a retirement is
\* reported exactly in WRITEBACK, for the instruction just executed, whose address
\* is the one before the program counter.
RetirementMatches ==
    /\ retirement_q.valid <=> state = "WRITEBACK"
    /\ retirement_q.valid =>
          /\ (retirement_q.pc + 4) % PC_SPAN = pc_q
          /\ retirement_q.instruction = instruction_q
          /\ Decode(retirement_q.instruction) # "NONE"

\* What DECODE left for EXECUTE is the decoding of the instruction register, so an
\* operation never reaches the execute block with a word of another encoding and
\* only illegal words stop the core there.
ExecuteStopsOnlyIllegal ==
    state = "EXECUTE" =>
        /\ operation_q = Decode(instruction_q)
        /\ execute.complete <=> operation_q # "NONE"

\* The types of the registers that decide what the core does next.
ControlTypeOK ==
    /\ state \in Phase
    /\ pc_q \in 0 .. PC_SPAN - 1
    /\ pc_q % 4 = 0
    /\ instruction_q \in Word
    /\ writeback_pending_q \in BOOLEAN
    /\ commit_seen_q \in BOOLEAN
    /\ rst_n \in BOOLEAN
    /\ run \in BOOLEAN
    /\ bd \in Backdoors

\* The inductive invariant of the proofs.
CoreInv ==
    /\ ControlTypeOK
    /\ FetchBusInv
    /\ PhaseFollowsFetch
    /\ FetchesAtPc
    /\ CommitNeverSuppressed
    /\ RetirementMatches
    /\ state = "EXECUTE" => operation_q = Decode(instruction_q)

------------------------------------------------------------------------------
(* The core implements the instruction-level machine. *)

\* The word in flight, from the instant the RAM samples it to its execution.
InFlightWord ==
    CASE request_accepted_q \/ response_expected_q -> LowWord(rsp_rdata_q)
      [] instruction_valid_q                       -> fetched_q
      [] state \in {"DECODE", "EXECUTE"}           -> instruction_q
      [] OTHER                                     -> NoPayload

\* The registers as they are stored: what a reset leaves.
SettledGprs == [r \in 1 .. 31 |-> gprs_q[r]]

\* The registers with the pending result, which is already the instruction's.
ArchitecturalGprs ==
    [r \in 1 .. 31 |-> IF writeback_pending_q /\ r = writeback_destination_q
                       THEN writeback_value_q ELSE gprs_q[r]]

Machine == INSTANCE R5900Machine WITH
    Address <- 0 .. SIZE_BYTES - 1,
    Value <- Byte,
    NoWord <- NoPayload,
    PowerUp <- PowerUpStorage,
    Start <- StartPcs,
    PcSpan <- PC_SPAN,
    Zero <- ZeroUpper,
    PowerUpRegisters <- {[r \in 1 .. 31 |-> g[r]] : g \in PowerUpGprs},
    PowerUpPairs <- PowerUpHiLo,
    mem <- storage,
    gpr <- ArchitecturalGprs,
    settled <- SettledGprs,
    pc <- pc_q,
    hilo <- hilo_q,
    ir <- InFlightWord,
    HiLoNames <- HiLo,
    FieldsOf <- Fields,
    OperationOf <- Decode,
    EffectOf <- Execute

\* The five phases, the fetch pipeline, the delayed register commit and the early
\* HI/LO write add up to one atomic read and one atomic execution per instruction.
ImplementsMachine == Machine!Spec

------------------------------------------------------------------------------
(* Liveness *)

\* The core waits for ever only at an address outside the RAM or on an illegal word.
Stuck ==
    \/ pending_q /\ ~SupportedRequest(FetchRequest)
    \/ state = "EXECUTE" /\ operation_q = "NONE"

\* With run_i high and no reset the core keeps completing instructions until it is
\* stuck: no phase waits for a pulse that has already passed.
KeepsRetiring ==
    <>[](run /\ rst_n) => []<>writeback_done \/ <>[]Stuck

\* Lowering run_i stops only new fetches (docs/R5900_FOUNDATION.md, M080): an
\* instruction already fetched retires all the same unless it is illegal or reset
\* intervenes.
StartedInstructionsRetire ==
    (state = "DECODE" /\ ~reserved_instruction) ~> (retirement.valid \/ ~rst_n)

\* ... and a request already on the bus is still answered.
StartedFetchesFinish ==
    (pending_q /\ SupportedRequest(FetchRequest)) ~> (state = "DECODE" \/ ~rst_n)
==============================================================================
