---------------------------- MODULE R5900FetchPath ----------------------------
(***************************************************************************)
(* The instruction fetch path (rtl/ee/r5900/r5900_fetch_path.sv and the two  *)
(* blocks it composes, r5900_fetch_request.sv and r5900_fetch_response.sv),  *)
(* attached to the system RAM's bus.                                        *)
(*                                                                         *)
(* The request half holds one address until the bus takes it; acceptance     *)
(* crosses a register before it arms the response half, which captures one   *)
(* word and holds it until the decoder takes it.                            *)
(***************************************************************************)
EXTENDS SystemRam

VARIABLES
    pending_q,            \* request half: address_q is on the bus
    address_q,            \* the address being requested
    request_accepted_q,   \* the bus took the request at the last edge
    response_expected_q,  \* response half: armed for a response
    instruction_valid_q,  \* a captured word waits for the decoder
    fetched_q,            \* the captured word: four bytes, little-endian
    fetch_error_q         \* the error flag captured with it

requestVars == <<pending_q, address_q>>
responseVars == <<response_expected_q, instruction_valid_q, fetched_q, fetch_error_q>>
fetchVars == <<requestVars, request_accepted_q, responseVars>>

Word == [0 .. 3 -> Byte]
ZeroWord == [k \in 0 .. 3 |-> ZeroByte]
LowWord(beat) == [k \in 0 .. 3 |-> beat[k]]

------------------------------------------------------------------------------
(* Combinational outputs. *)

\* The payload the request half presents: an aligned four-byte read.
FetchRequest == [write |-> FALSE, addr |-> address_q, size |-> 2,
                 wdata |-> ZeroBeat, wstrb |-> {}]

InstructionSlotAvailable(instruction_ready) ==
    ~instruction_valid_q \/ instruction_ready

\* Mutant: a response is taken only when the decoder takes a word.
FetchRspReady_WaitsForCaller(rst, instruction_ready) ==
    /\ rst
    /\ response_expected_q \/ request_accepted_q
    /\ instruction_ready

FetchRspReady(rst, instruction_ready) ==
    /\ rst
    /\ response_expected_q \/ request_accepted_q
    /\ InstructionSlotAvailable(instruction_ready)

\* Mutant: the acceptance that is crossing its register is forgotten.
FetchStartReady_IgnoresAcceptance(rst, instruction_ready) ==
    /\ rst
    /\ ~pending_q
    /\ ~response_expected_q
    /\ InstructionSlotAvailable(instruction_ready)

\* The path takes a new start only when nothing is left of the previous fetch.
FetchStartReady(rst, instruction_ready) ==
    /\ rst
    /\ ~pending_q
    /\ ~request_accepted_q
    /\ ~response_expected_q
    /\ InstructionSlotAvailable(instruction_ready)

\* The wires between the path and the RAM.
FetchAccepted(rst, instruction_ready) ==
    /\ rst
    /\ RequestFire(pending_q, FetchRequest, FetchRspReady(rst, instruction_ready))

ResponseAccepted(rst, instruction_ready) ==
    rsp_valid_q /\ FetchRspReady(rst, instruction_ready)

------------------------------------------------------------------------------
RequestInit ==
    /\ pending_q = FALSE
    /\ address_q = 0

ResponseInit ==
    /\ response_expected_q = FALSE
    /\ instruction_valid_q = FALSE
    /\ fetched_q = ZeroWord
    /\ fetch_error_q = FALSE

FetchInit == RequestInit /\ request_accepted_q = FALSE /\ ResponseInit

FetchReset ==
    /\ pending_q' = FALSE
    /\ address_q' = 0
    /\ request_accepted_q' = FALSE
    /\ response_expected_q' = FALSE
    /\ instruction_valid_q' = FALSE
    /\ fetched_q' = ZeroWord
    /\ fetch_error_q' = FALSE

\* Mutant: the request is withdrawn an edge after its acceptance.
RequestClock_ClearsLate(start, pc, accepted) ==
    /\ pending_q' = (start \/ (pending_q /\ ~request_accepted_q))
    /\ address_q' = IF start THEN pc ELSE address_q

\* Mutant: the address on the bus follows the caller's.
RequestClock_AddressFollows(start, pc, accepted) ==
    /\ pending_q' = (start \/ (pending_q /\ ~accepted))
    /\ address_q' = pc

\* A start of the same edge as an acceptance leaves the new request pending.
RequestClock(start, pc, accepted) ==
    /\ pending_q' = (start \/ (pending_q /\ ~accepted))
    /\ address_q' = IF start THEN pc ELSE address_q

\* Mutant: arming wins over the response of the same edge.
ResponseClock_ArmingWins(instruction_ready, response_accepted) ==
    /\ response_expected_q' =
          (request_accepted_q \/ (response_expected_q /\ ~response_accepted))
    /\ instruction_valid_q' =
          (response_accepted \/ (instruction_valid_q /\ ~instruction_ready))
    /\ IF response_accepted
       THEN fetched_q' = LowWord(rsp_rdata_q) /\ fetch_error_q' = rsp_error_q
       ELSE UNCHANGED <<fetched_q, fetch_error_q>>

\* Mutant: a decoder that is ready discards the word captured at the same edge.
ResponseClock_ConsumeWins(instruction_ready, response_accepted) ==
    /\ response_expected_q' =
          (~response_accepted /\ (response_expected_q \/ request_accepted_q))
    /\ instruction_valid_q' =
          (~instruction_ready /\ (response_accepted \/ instruction_valid_q))
    /\ IF response_accepted
       THEN fetched_q' = LowWord(rsp_rdata_q) /\ fetch_error_q' = rsp_error_q
       ELSE UNCHANGED <<fetched_q, fetch_error_q>>

\* A response of the same edge as an arming leaves the receiver unarmed, and a
\* captured word replaces one consumed at the same edge.
ResponseClock(instruction_ready, response_accepted) ==
    /\ response_expected_q' =
          (~response_accepted /\ (response_expected_q \/ request_accepted_q))
    /\ instruction_valid_q' =
          (response_accepted \/ (instruction_valid_q /\ ~instruction_ready))
    /\ IF response_accepted
       THEN fetched_q' = LowWord(rsp_rdata_q) /\ fetch_error_q' = rsp_error_q
       ELSE UNCHANGED <<fetched_q, fetch_error_q>>

\* One edge with reset released.
FetchClock(start, pc, instruction_ready) ==
    LET accepted == FetchAccepted(TRUE, instruction_ready)
    IN  /\ RequestClock(start, pc, accepted)
        /\ request_accepted_q' = accepted
        /\ ResponseClock(instruction_ready, ResponseAccepted(TRUE, instruction_ready))

------------------------------------------------------------------------------
(* The fatal assertions of the three blocks, about one edge with reset      *)
(* released.                                                                *)

R5900_FETCH_ALIGN(start, pc) == start => pc % 4 = 0
R5900_FETCH_RESTART(start, accepting) == start => ~pending_q \/ accepting
R5900_FETCH_BUSY(start, instruction_ready) ==
    start => FetchStartReady(TRUE, instruction_ready)
R5900_FETCH_RESPONSE_OVERLAP(instruction_ready) ==
    request_accepted_q =>
        ~response_expected_q /\ InstructionSlotAvailable(instruction_ready)
R5900_FETCH_RESPONSE_UNEXPECTED ==
    rsp_valid_q => response_expected_q \/ request_accepted_q

\* A caller that starts aligned fetches only when the path is ready must never
\* see the other three fire.
FetchBlockAssertions(start, instruction_ready) ==
    /\ R5900_FETCH_RESTART(start, RequestReady(FetchRequest,
                                               FetchRspReady(TRUE, instruction_ready)))
    /\ R5900_FETCH_RESPONSE_OVERLAP(instruction_ready)
    /\ R5900_FETCH_RESPONSE_UNEXPECTED

------------------------------------------------------------------------------
FetchTypeOK ==
    /\ pending_q \in BOOLEAN
    /\ address_q \in Nat
    /\ request_accepted_q \in BOOLEAN
    /\ response_expected_q \in BOOLEAN
    /\ instruction_valid_q \in BOOLEAN
    /\ fetched_q \in Word
    /\ fetch_error_q \in BOOLEAN
==============================================================================
