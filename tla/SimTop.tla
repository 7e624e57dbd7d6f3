-------------------------------- MODULE SimTop --------------------------------
(***************************************************************************)
(* The simulation platform around the memory port (sim/ps2_sim_top.sv in its  *)
(* external-master configuration): the cycle watchdog, PASS/FAIL termination    *)
(* and the two passive trace sinks, beside the RAM and the protocol checker of  *)
(* MemoryPort.  Every block is clocked by the same edge.                      *)
(*                                                                         *)
(* The blocks have reset inputs of their own and are specified per reset epoch, *)
(* so reset may be asserted again at any edge, as the unit tests do.           *)
(***************************************************************************)
EXTENDS MemoryPort, Sequences

CONSTANTS
    MAX_CYCLES,      \* the watchdog's limit; 0 disables it
    COUNT_MODULUS,   \* 2^32 in the code: the width of the cycle counters
    FailCodes,       \* what fail_code_i may carry
    NoCode

ASSUME SimAssumption ==
    /\ COUNT_MODULUS \in Nat \ {0}
    /\ MAX_CYCLES \in 0 .. COUNT_MODULUS - 1

\* The build's parameters, each set or clear, that end a simulation.
ExitParameters == {"FATAL_ON_TIMEOUT", "FATAL_ON_FAIL", "FINISH_ON_PASS"}

VARIABLES
    enabled,         \* those of ExitParameters that are set; they never change
    exit,            \* "running", or the exit status of the ended simulation
    timeout, cycle_count,                       \* sim_cycle_timeout
    pass_event, pass_latched,                   \* sim_termination
    fail_event, fail_latched, fail_code,
    mem_cycle, mem_records,                     \* memory_transaction_trace
    arch_cycle, arch_sequence, arch_records,    \* architectural_trace_sink
    pass, fail, code, event_valid               \* the harness's wires

timeoutVars == <<timeout, cycle_count>>
terminationVars == <<pass_event, pass_latched, fail_event, fail_latched, fail_code>>
traceVars == <<mem_cycle, mem_records, arch_cycle, arch_sequence, arch_records>>
simWires == <<pass, fail, code, event_valid>>
simVars == <<vars, enabled, exit, timeoutVars, terminationVars, traceVars, simWires>>

------------------------------------------------------------------------------
(* sim_cycle_timeout. *)

Expires == rst_n /\ MAX_CYCLES # 0 /\ ~timeout /\ cycle_count = MAX_CYCLES - 1

\* Mutant: the limit is compared with the count before it is advanced.
TimeoutClock_Late ==
    IF ~rst_n \/ MAX_CYCLES = 0 THEN timeout' = FALSE /\ cycle_count' = 0
    ELSE IF timeout THEN UNCHANGED timeoutVars
    ELSE /\ cycle_count' = (cycle_count + 1) % COUNT_MODULUS
         /\ timeout' = (cycle_count = MAX_CYCLES)

TimeoutClock ==
    IF ~rst_n \/ MAX_CYCLES = 0 THEN timeout' = FALSE /\ cycle_count' = 0
    ELSE IF timeout THEN UNCHANGED timeoutVars
    ELSE /\ cycle_count' = (cycle_count + 1) % COUNT_MODULUS
         /\ timeout' = Expires

------------------------------------------------------------------------------
(* sim_termination. *)

Fails == rst_n /\ fail /\ ~pass_latched /\ ~fail_latched
\* Mutant: a PASS request is looked at although the same edge has a FAIL request.
Passes_WithFail == rst_n /\ pass /\ ~pass_latched /\ ~fail_latched

Passes == rst_n /\ pass /\ ~fail /\ ~pass_latched /\ ~fail_latched

\* Mutant: a result does not make later requests of the other kind inert.
TerminationClock_NotInert ==
    /\ pass_event' = Passes
    /\ fail_event' = (rst_n /\ fail /\ ~fail_latched)
    /\ pass_latched' = (rst_n /\ (pass_latched \/ Passes))
    /\ fail_latched' = (rst_n /\ (fail_latched \/ fail))
    /\ fail_code' = IF ~rst_n THEN NoCode
                    ELSE IF fail /\ ~fail_latched THEN code ELSE fail_code

TerminationClock ==
    /\ pass_event' = Passes
    /\ fail_event' = Fails
    /\ pass_latched' = (rst_n /\ (pass_latched \/ Passes))
    /\ fail_latched' = (rst_n /\ (fail_latched \/ Fails))
    /\ fail_code' = IF ~rst_n THEN NoCode ELSE IF Fails THEN code ELSE fail_code

\* $fatal and $finish of this edge, each behind its parameter, by the exit status they give.
Fatal ==
    \/ "FATAL_ON_TIMEOUT" \in enabled /\ Expires
    \/ "FATAL_ON_FAIL" \in enabled /\ Fails
Finish == "FINISH_ON_PASS" \in enabled /\ Passes

Statuses == (IF Fatal THEN {"nonzero"} ELSE {}) \cup (IF Finish THEN {"zero"} ELSE {})

\* Calls of the same edge come from processes that run in either order.
ExitClock == exit' \in IF Statuses = {} THEN {"running"} ELSE Statuses

------------------------------------------------------------------------------
(* The trace sinks.  The records of the last edge stand for the growing files. *)

\* Mutant: the counter does not wrap at its width.
Stamp_Unbounded(count) == count + 1

Stamp(count) == (count + 1) % COUNT_MODULUS

\* Mutant: a request that is offered is traced whether or not it is accepted.
MemoryRecords_OfferedRequests ==
    IF ~rst_n THEN <<>>
    ELSE (IF req_valid THEN <<[cycle |-> Stamp(mem_cycle), kind |-> "REQ"]>> ELSE <<>>)
         \o (IF response_fire THEN <<[cycle |-> Stamp(mem_cycle), kind |-> "RSP"]>> ELSE <<>>)

\* What memory_transaction_trace writes at this edge: the request first.
MemoryRecords ==
    IF ~rst_n THEN <<>>
    ELSE (IF request_fire THEN <<[cycle |-> Stamp(mem_cycle), kind |-> "REQ"]>> ELSE <<>>)
         \o (IF response_fire THEN <<[cycle |-> Stamp(mem_cycle), kind |-> "RSP"]>> ELSE <<>>)

ArchRecords ==
    IF rst_n /\ event_valid
    THEN <<[cycle |-> Stamp(arch_cycle), sequence |-> arch_sequence]>> ELSE <<>>

\* Mutant: the event counter is not restarted by reset.
TraceClock_KeepsSequence ==
    /\ mem_cycle' = IF rst_n THEN Stamp(mem_cycle) ELSE 0
    /\ arch_cycle' = IF rst_n THEN Stamp(arch_cycle) ELSE 0
    /\ arch_sequence' = IF rst_n /\ event_valid THEN Stamp(arch_sequence) ELSE arch_sequence
    /\ mem_records' = MemoryRecords
    /\ arch_records' = ArchRecords

\* The last edge of a simulation that ends may be cut short before a sink has run.
TraceClock ==
    /\ mem_cycle' = IF rst_n THEN Stamp(mem_cycle) ELSE 0
    /\ arch_cycle' = IF rst_n THEN Stamp(arch_cycle) ELSE 0
    /\ arch_sequence' = IF ~rst_n THEN 0
                        ELSE IF event_valid THEN Stamp(arch_sequence) ELSE arch_sequence
    /\ mem_records' \in {MemoryRecords} \cup (IF Statuses = {} THEN {} ELSE {<<>>})
    /\ arch_records' \in {ArchRecords} \cup (IF Statuses = {} THEN {} ELSE {<<>>})

------------------------------------------------------------------------------
SimInit ==
    /\ Init
    /\ enabled \in SUBSET ExitParameters
    /\ exit = "running"
    /\ timeout = FALSE /\ cycle_count = 0
    /\ pass_event = FALSE /\ pass_latched = FALSE
    /\ fail_event = FALSE /\ fail_latched = FALSE /\ fail_code = NoCode
    /\ mem_cycle = 0 /\ mem_records = <<>>
    /\ arch_cycle = 0 /\ arch_sequence = 0 /\ arch_records = <<>>
    /\ pass = FALSE /\ fail = FALSE /\ code = NoCode /\ event_valid = FALSE

Edge ==
    /\ exit = "running"
    /\ Next
    /\ TimeoutClock
    /\ TerminationClock
    /\ ExitClock
    /\ TraceClock
    /\ pass' \in BOOLEAN
    /\ fail' \in BOOLEAN
    /\ code' \in IF fail' THEN FailCodes ELSE {NoCode}
    /\ event_valid' \in BOOLEAN
    /\ UNCHANGED enabled

Stopped == exit # "running" /\ UNCHANGED simVars

SimNext == Edge \/ Stopped

SimSpec == SimInit /\ [][SimNext]_simVars
==============================================================================
