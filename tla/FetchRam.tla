------------------------------- MODULE FetchRam -------------------------------
(***************************************************************************)
(* The fetch path and the system RAM driven by a harness: sim/ps2_sim_top.sv *)
(* with R5900_FETCH_ENABLE.  The caller of the path is the environment:      *)
(* it starts a fetch only when the path is ready (R5900_FETCH_BUSY is its    *)
(* obligation), at aligned addresses, and takes words when it likes.        *)
(***************************************************************************)
EXTENDS FetchBus

CONSTANTS
    StartPcs,    \* the addresses the caller fetches from
    Backdoors    \* the values of the backdoor's wires

ASSUME StartPcsAssumption == StartPcs \subseteq {pc \in Nat : pc % 4 = 0}
ASSUME BackdoorsAssumption == Backdoors \subseteq Backdoor

VARIABLES
    rst_n,              \* active-low synchronous reset
    start,              \* the caller starts a fetch ...
    start_pc,           \* ... from this address
    instruction_ready,  \* the caller takes a captured word
    bd                  \* the backdoor's wires

wires == <<rst_n, start, start_pc, instruction_ready, bd>>
registers == <<ramVars, checkerVars, fetchVars>>
vars == <<ramVars, checkerVars, fetchVars, wires>>

------------------------------------------------------------------------------
Drive ==
    /\ rst_n' \in BOOLEAN
    /\ instruction_ready' \in BOOLEAN
    /\ start' \in BOOLEAN
    /\ start' => FetchStartReady(rst_n, instruction_ready)'
    /\ start_pc' \in StartPcs
    /\ bd' \in Backdoors

Init ==
    /\ RamInit
    /\ CheckerInit
    /\ FetchInit
    /\ rst_n = FALSE
    /\ start = FALSE
    /\ start_pc \in StartPcs
    /\ instruction_ready = FALSE
    /\ bd \in Backdoors

ResetEdge ==
    /\ ~rst_n
    /\ RamReset
    /\ CheckerReset
    /\ FetchReset
    /\ Drive

ClockEdge ==
    /\ rst_n
    /\ TargetClock(instruction_ready, bd)
    /\ FetchClock(start, start_pc, instruction_ready)
    /\ Drive

Next == ResetEdge \/ ClockEdge

Spec == Init /\ [][Next]_vars

\* The clock runs free: an edge that changes a register is not put off for ever,
\* and the environment is never forced to change a wire.
FairSpec == Spec /\ WF_registers(Next)

------------------------------------------------------------------------------
(* Properties *)

\* Every register and wire holds a value of its type.
TypeOK ==
    /\ FetchBusTypeOK
    /\ rst_n \in BOOLEAN
    /\ start \in BOOLEAN
    /\ start_pc \in StartPcs
    /\ instruction_ready \in BOOLEAN
    /\ bd \in Backdoors

\* A caller that keeps its side of the bargain never makes the path replace a
\* stalled request, arm an occupied receiver or receive a response nobody asked
\* for, and path and RAM never break the bus protocol between them: none of the
\* fatal assertions of r5900_fetch_request.sv:45-58, r5900_fetch_response.sv:65-82
\* and memory_bus_protocol_checker.sv:44-70 fires.
NoFetchFatal == rst_n => FetchBusAssertions(start, instruction_ready)

\* The caller starts a fetch only when the path is ready for one.
CallerIsPolite == start => FetchStartReady(rst_n, instruction_ready)

\* The inductive invariant of the proofs.
FetchInv ==
    /\ TypeOK
    /\ FetchBusInv
    /\ CallerIsPolite

\* A fetch implements InstructionFetch: the word delivered is the memory's
\* content at one instant, at the address of the start, whatever the backdoor
\* stores meanwhile and however long the response takes.
InFlightStage ==
    IF pending_q THEN "requested"
    ELSE IF request_accepted_q \/ response_expected_q THEN "sampled"
    ELSE IF instruction_valid_q THEN "delivered"
    ELSE "free"

Fetch == INSTANCE InstructionFetch WITH
    Address <- 0 .. SIZE_BYTES - 1,
    Value <- Byte,
    NoWord <- NoPayload,
    PowerUp <- PowerUpStorage,
    Pc <- StartPcs,
    mem <- storage,
    offered <- start_pc,
    stage <- InFlightStage,
    target <- address_q,
    word <- IF InFlightStage = "sampled" THEN LowWord(rsp_rdata_q)
            ELSE IF InFlightStage = "delivered" THEN fetched_q
            ELSE NoPayload

ImplementsInstructionFetch == Fetch!Spec

\* A started fetch of a word in the RAM is delivered, or reset intervenes, even
\* if the caller is slow to take words.
FetchesDelivered ==
    (pending_q /\ SupportedRequest(FetchRequest)) ~> (instruction_valid_q \/ ~rst_n)
==============================================================================
