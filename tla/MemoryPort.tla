------------------------------ MODULE MemoryPort ------------------------------
(***************************************************************************)
(* The system RAM and the bus protocol checker on one memory bus, driven by *)
(* a bus master, the harness's backdoor and reset, as sim/ps2_sim_top.sv    *)
(* connects them when the external memory master owns the bus.              *)
(*                                                                         *)
(* One step is one rising clock edge.  The wires a master, the harness and  *)
(* the reset drive are variables holding their values before the edge, so   *)
(* a state is exactly what every always_ff block and every assertion        *)
(* samples; after the edge they take any new values the protocol allows.    *)
(***************************************************************************)
EXTENDS SystemRam, BusProtocolChecker

CONSTANTS
    Requests,    \* the payloads the master may present
    Backdoors    \* the values of the backdoor's wires

ASSUME RequestsAssumption == Requests \subseteq Request
ASSUME BackdoorsAssumption == Backdoors \subseteq Backdoor

VARIABLES
    rst_n,       \* active-low synchronous reset
    req_valid,   \* the master offers req
    req,         \* its payload
    rsp_ready,   \* the master takes a response
    bd           \* the backdoor's wires

wires == <<rst_n, req_valid, req, rsp_ready, bd>>
registers == <<ramVars, checkerVars>>
vars == <<ramVars, checkerVars, wires>>

------------------------------------------------------------------------------
(* The bus as the checker sees it. *)

req_ready == rst_n /\ RequestReady(req, rsp_ready)
request_fire == req_valid /\ req_ready
response_fire == rsp_valid_q /\ rsp_ready

bus == [req_valid |-> req_valid, req_ready |-> req_ready, req |-> req,
        rsp_valid |-> rsp_valid_q, rsp_ready |-> rsp_ready,
        rsp |-> [rdata |-> rsp_rdata_q, error |-> rsp_error_q]]

------------------------------------------------------------------------------
(* The environment: a master that obeys the protocol it is checked against, *)
(* and a harness that never stores through the backdoor on the edge of a     *)
(* bus write (RAM_WRITE_CONFLICT).                                          *)

HoldsStalledRequest ==
    (rst_n /\ req_valid /\ ~req_ready /\ rst_n') => req_valid' /\ req' = req

AvoidsWriteConflict == ~(bd.write /\ request_fire /\ req.write)

Drive ==
    /\ rst_n' \in BOOLEAN
    /\ req_valid' \in BOOLEAN
    /\ req' \in IF req_valid' THEN Requests ELSE {req}
    /\ rsp_ready' \in BOOLEAN
    /\ bd' \in Backdoors
    /\ HoldsStalledRequest
    /\ AvoidsWriteConflict'

------------------------------------------------------------------------------
\* Power-up: the first edges see reset asserted, and nothing is on the bus.
Init ==
    /\ RamInit
    /\ CheckerInit
    /\ rst_n = FALSE
    /\ req_valid = FALSE
    /\ req \in Requests
    /\ rsp_ready = FALSE
    /\ bd \in Backdoors

ResetEdge ==
    /\ ~rst_n
    /\ RamReset
    /\ CheckerReset
    /\ Drive

ClockEdge ==
    /\ rst_n
    /\ RamClock(req_valid, req, rsp_ready, bd)
    /\ CheckerClock(bus)
    /\ Drive

Next == ResetEdge \/ ClockEdge

Spec == Init /\ [][Next]_vars

\* The clock runs free: an edge that changes a register is not put off for ever.
\* A step that changes no register is no progress, and the environment is never
\* forced to change a wire.
FairSpec == Spec /\ WF_registers(Next)

------------------------------------------------------------------------------
(* Properties *)

\* Every register and wire holds a value of its type; in particular the
\* response countdown never leaves 0 .. RESPONSE_LATENCY_CYCLES.
TypeOK ==
    /\ RamTypeOK
    /\ outstanding_q \in BOOLEAN
    /\ req_stalled_q \in BOOLEAN
    /\ rsp_stalled_q \in BOOLEAN
    /\ rst_n \in BOOLEAN
    /\ req_valid \in BOOLEAN
    /\ req \in Requests
    /\ rsp_ready \in BOOLEAN
    /\ bd \in Backdoors

\* Whatever a protocol-abiding master, the backdoor and reset do, none of the
\* checker's fatal assertions about the responder fires: no response without a
\* request, no second outstanding request, no stalled response withdrawn or
\* changed (memory_bus_protocol_checker.sv:59-70).
TargetObeysProtocol == rst_n => TargetAssertions(bus)

\* The checker's view of the bus and the RAM's own registers never drift apart:
\* a transaction is outstanding exactly while the RAM counts down or offers an
\* answer, and never both at once (RAM_RESPONSE_STATE,
\* behavioral_system_ram.sv:151).
OutstandingExact ==
    /\ outstanding_q <=> response_pending_q \/ rsp_valid_q
    /\ ~(response_pending_q /\ rsp_valid_q)

\* The countdown is armed exactly while a response is pending.
CountdownArmed == response_pending_q <=> response_delay_q # 0

\* The responder's answer, once stalled, is what the checker recorded.
StalledResponseKept ==
    rsp_stalled_q =>
        /\ rsp_valid_q
        /\ rsp_payload_q = [rdata |-> rsp_rdata_q, error |-> rsp_error_q]

\* No response ever carries an error (behavioral_system_ram.sv:180).
NeverAnError == ~rsp_error_q

\* The inductive invariant of the proofs.
PortInv ==
    /\ TypeOK
    /\ OutstandingExact
    /\ CountdownArmed
    /\ StalledResponseKept
    /\ NeverAnError

\* A supported request that the master keeps offering is accepted, unless reset
\* intervenes, provided the master keeps taking responses.
SupportedRequestsAccepted ==
    []<>rsp_ready =>
        ((rst_n /\ req_valid /\ SupportedRequest(req)) ~> (request_fire \/ ~rst_n))

\* The port is an atomic memory: the detailed registers implement AtomicMemory.
Memory == INSTANCE AtomicMemory WITH
    Location <- 0 .. SIZE_BYTES - 1,
    Value <- Byte,
    Zero <- ZeroByte,
    Transfer <- {[write |-> r.write, first |-> r.addr, count |-> BeatBytes(r.size),
                  data |-> r.wdata, lanes |-> r.wstrb] :
                     r \in {q \in Requests : SupportedRequest(q)}},
    PowerUp <- PowerUpStorage,
    mem <- storage,
    phase <- IF response_pending_q THEN "busy"
             ELSE IF rsp_valid_q THEN "answered" ELSE "idle",
    answer <- rsp_rdata_q

\* Every read returns the bytes the storage held when the request was accepted,
\* every write lands whole at acceptance, and answers stay put until consumed.
ImplementsAtomicMemory == Memory!Spec

\* Every accepted request is answered, or dropped by a reset.
AcceptedRequestsAnswered == Memory!AnswersEventually
==============================================================================
