----------------------------- MODULE MemoryLatency -----------------------------
(***************************************************************************)
(* The memory port with a clock on the request in flight: how many edges ago it *)
(* was accepted.  The clock is a history variable that looks at the wires of the *)
(* bus alone, at the handshakes and reset, and at no register of the RAM that    *)
(* counts.                                                                  *)
(***************************************************************************)
EXTENDS MemoryPort

VARIABLE age   \* edges since the acceptance edge, which is edge 0

Idle == -1     \* nothing is in flight

AgeInit == age = Idle

\* Bound: the clock stops at RESPONSE_LATENCY_CYCLES, when the response is due.
AgeStep ==
    age' = IF ~rst_n THEN Idle
           ELSE IF request_fire THEN 0
           ELSE IF response_fire \/ age = Idle THEN Idle
           ELSE IF age < RESPONSE_LATENCY_CYCLES THEN age + 1
           ELSE age

LatencyInit == Init /\ AgeInit
LatencyNext == Next /\ AgeStep
LatencySpec == LatencyInit /\ [][LatencyNext]_<<vars, age>>

------------------------------------------------------------------------------
\* A response is offered from the edge that is RESPONSE_LATENCY_CYCLES after the
\* acceptance edge (from the acceptance edge itself at latency 0) until it is consumed,
\* neither earlier nor later, whatever the rest of the bus does meanwhile
\* (docs/SIMULATION_PLATFORM.md, M027; behavioral_system_ram.sv:154-179).
LatencyExact == rsp_valid_q <=> age >= RESPONSE_LATENCY_CYCLES
==============================================================================
