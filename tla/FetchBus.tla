------------------------------- MODULE FetchBus -------------------------------
(***************************************************************************)
(* The fetch path as the only master of the system RAM's bus, with the       *)
(* protocol checker watching: what sim/ps2_sim_top.sv builds around whoever   *)
(* asks for instructions, the fetch-only harness (FetchRam) or the core       *)
(* (CoreRam).                                                               *)
(***************************************************************************)
EXTENDS R5900FetchPath, BusProtocolChecker

\* The wires of the bus, given the reset and the decoder's instruction_ready.
FetchBus(rst, instruction_ready) ==
    LET rsp_ready == FetchRspReady(rst, instruction_ready)
    IN  [req_valid |-> pending_q,
         req_ready |-> rst /\ RequestReady(FetchRequest, rsp_ready),
         req |-> FetchRequest,
         rsp_valid |-> rsp_valid_q,
         rsp_ready |-> rsp_ready,
         rsp |-> [rdata |-> rsp_rdata_q, error |-> rsp_error_q]]

\* The target of the bus and its monitor at an edge with reset released.
TargetClock(instruction_ready, bd) ==
    /\ RamClock(pending_q, FetchRequest, FetchRspReady(TRUE, instruction_ready), bd)
    /\ CheckerClock(FetchBus(TRUE, instruction_ready))

------------------------------------------------------------------------------
(* Invariants *)

FetchBusTypeOK ==
    /\ RamTypeOK
    /\ FetchTypeOK
    /\ outstanding_q \in BOOLEAN
    /\ req_stalled_q \in BOOLEAN
    /\ rsp_stalled_q \in BOOLEAN

\* A fetch is in exactly one place: on the bus, crossing the acceptance
\* register, awaited, or captured.
FetchInOnePlace ==
    /\ ~(pending_q /\ request_accepted_q)
    /\ ~(pending_q /\ response_expected_q)
    /\ ~(pending_q /\ instruction_valid_q)
    /\ ~(request_accepted_q /\ response_expected_q)
    /\ ~(request_accepted_q /\ instruction_valid_q)
    /\ ~(response_expected_q /\ instruction_valid_q)

\* The fetch path awaits a response exactly while the RAM owes or offers one.
AwaitsWhatRamOwes ==
    (request_accepted_q \/ response_expected_q)
        <=> (response_pending_q \/ rsp_valid_q)

\* The three views of "a transaction is in flight" -- the fetch path's, the
\* checker's and the RAM's -- agree at every edge, although the path learns of the
\* acceptance one edge later than the others (r5900_fetch_path.sv:24-38,
\* behavioral_system_ram.sv:158-180, memory_bus_protocol_checker.sv:72-87).
InFlightViewsAgree ==
    /\ FetchInOnePlace
    /\ AwaitsWhatRamOwes
    /\ outstanding_q <=> response_pending_q \/ rsp_valid_q
    /\ ~(response_pending_q /\ rsp_valid_q)

\* What the checker recorded of a stalled transfer is still on the bus.
StalledTransfersKept ==
    /\ req_stalled_q => pending_q /\ req_payload_q = FetchRequest
    /\ rsp_stalled_q =>
          /\ rsp_valid_q
          /\ rsp_payload_q = [rdata |-> rsp_rdata_q, error |-> rsp_error_q]

\* The part of every inductive invariant that is about the fetch path and its bus.
FetchBusInv ==
    /\ FetchBusTypeOK
    /\ InFlightViewsAgree
    /\ StalledTransfersKept
    /\ response_pending_q <=> response_delay_q # 0

\* The fatal assertions of the fetch path, and those of the bus protocol checker
\* about both ends of the bus, at an edge with reset released.
FetchBusAssertions(start, instruction_ready) ==
    /\ FetchBlockAssertions(start, instruction_ready)
    /\ TargetAssertions(FetchBus(TRUE, instruction_ready))
    /\ InitiatorAssertions(FetchBus(TRUE, instruction_ready))
==============================================================================
