-------------------------- MODULE BusProtocolChecker --------------------------
(***************************************************************************)
(* The memory bus protocol checker (rtl/memory/                            *)
(* memory_bus_protocol_checker.sv): a monitor that remembers whether a     *)
(* transaction is outstanding and what was stalled at the previous edge,   *)
(* and stops the simulation when an assertion about the present edge fails. *)
(*                                                                         *)
(* Every operator takes the bus wires at the edge.  The payload registers   *)
(* are read only while the stalled flag beside them is set, so the model    *)
(* keeps them only then.                                                    *)
(***************************************************************************)

EXTENDS Integers

CONSTANT NoPayload   \* what a payload register holds while nothing is stalled

VARIABLES
    outstanding_q,   \* a request was accepted and its response not yet consumed
    req_stalled_q,   \* the request was valid and not ready at the last edge
    req_payload_q,   \* its payload
    rsp_stalled_q,   \* the response was valid and not ready at the last edge
    rsp_payload_q    \* its payload

checkerVars == <<outstanding_q, req_stalled_q, req_payload_q,
                 rsp_stalled_q, rsp_payload_q>>

CheckerInit ==
    /\ outstanding_q = FALSE
    /\ req_stalled_q = FALSE /\ req_payload_q = NoPayload
    /\ rsp_stalled_q = FALSE /\ rsp_payload_q = NoPayload

CheckerReset ==
    /\ outstanding_q' = FALSE
    /\ req_stalled_q' = FALSE /\ req_payload_q' = NoPayload
    /\ rsp_stalled_q' = FALSE /\ rsp_payload_q' = NoPayload

\* A bus is a record of the wires at one edge: req_valid, req_ready, req,
\* rsp_valid, rsp_ready and rsp.
ReqFire(bus) == bus.req_valid /\ bus.req_ready
RspFire(bus) == bus.rsp_valid /\ bus.rsp_ready

\* Mutant: a response consumed at the edge that accepts the next request clears
\* the record of both.
CheckerClock_ResponseWins(bus) ==
    LET req_stalled == bus.req_valid /\ ~bus.req_ready
        rsp_stalled == bus.rsp_valid /\ ~bus.rsp_ready
    IN  /\ outstanding_q' = (~RspFire(bus) /\ (ReqFire(bus) \/ outstanding_q))
        /\ req_stalled_q' = req_stalled
        /\ req_payload_q' = IF req_stalled THEN bus.req ELSE NoPayload
        /\ rsp_stalled_q' = rsp_stalled
        /\ rsp_payload_q' = IF rsp_stalled THEN bus.rsp ELSE NoPayload

CheckerClock(bus) ==
    LET req_stalled == bus.req_valid /\ ~bus.req_ready
        rsp_stalled == bus.rsp_valid /\ ~bus.rsp_ready
    IN  /\ outstanding_q' = IF ReqFire(bus) # RspFire(bus)
                            THEN ReqFire(bus)
                            ELSE outstanding_q
        /\ req_stalled_q' = req_stalled
        /\ req_payload_q' = IF req_stalled THEN bus.req ELSE NoPayload
        /\ rsp_stalled_q' = rsp_stalled
        /\ rsp_payload_q' = IF rsp_stalled THEN bus.rsp ELSE NoPayload

------------------------------------------------------------------------------
(* The checker's assertions, by the name it reports.  They are evaluated at *)
(* an edge with reset released.                                             *)

MEMBUS_SIZE(bus) == bus.req_valid => bus.req.size <= 4
MEMBUS_REQ_VALID(bus) == req_stalled_q => bus.req_valid
MEMBUS_REQ_STABLE(bus) == req_stalled_q => bus.req = req_payload_q
MEMBUS_RSP_VALID(bus) == rsp_stalled_q => bus.rsp_valid
MEMBUS_RSP_STABLE(bus) == rsp_stalled_q => bus.rsp = rsp_payload_q
MEMBUS_RSP_CAUSAL(bus) == bus.rsp_valid => outstanding_q \/ ReqFire(bus)
MEMBUS_OUTSTANDING(bus) == ~(ReqFire(bus) /\ outstanding_q /\ ~RspFire(bus))

\* What the checker demands of whoever answers requests.
TargetAssertions(bus) ==
    /\ MEMBUS_RSP_VALID(bus)
    /\ MEMBUS_RSP_STABLE(bus)
    /\ MEMBUS_RSP_CAUSAL(bus)
    /\ MEMBUS_OUTSTANDING(bus)

\* What it demands of whoever issues them.
InitiatorAssertions(bus) ==
    /\ MEMBUS_SIZE(bus)
    /\ MEMBUS_REQ_VALID(bus)
    /\ MEMBUS_REQ_STABLE(bus)
==============================================================================
