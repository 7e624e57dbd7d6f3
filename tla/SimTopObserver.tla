--------------------------- MODULE SimTopObserver ---------------------------
(***************************************************************************)
(* SimTop with history variables: what a reader of the wires and of the trace  *)
(* files would have noted down since the last reset edge, and the properties    *)
(* that relate the platform's registers to it.                               *)
(***************************************************************************)
EXTENDS SimTop, FiniteSets

VARIABLES
    active,      \* edges with reset released, up to ActiveBound
    first,       \* the first edge's requests that asked for a result, or None
    fresh,       \* that edge was the last one
    events,      \* records of the architectural trace, modulo the counter's width
    unanswered   \* REQ records minus RSP records of the memory trace

CONSTANTS
    None,        \* no request yet
    ActiveBound  \* bound: active edges are counted up to here

Verdicts == [result : {"pass", "fail"}, code : FailCodes \cup {NoCode}]

ASSUME ObserverAssumption ==
    /\ ActiveBound \in Nat /\ MAX_CYCLES < ActiveBound
    /\ None \notin Verdicts

history == <<active, first, fresh, events, unanswered>>

Count(kind, records) == Cardinality({k \in DOMAIN records : records[k].kind = kind})

Observe ==
    IF ~rst_n
    THEN active' = 0 /\ first' = None /\ fresh' = FALSE /\ events' = 0 /\ unanswered' = 0
    ELSE /\ active' = IF active < ActiveBound THEN active + 1 ELSE active
         /\ fresh' = (first = None /\ (pass \/ fail))
         /\ first' = IF ~fresh' THEN first
                     ELSE IF fail THEN [result |-> "fail", code |-> code]
                     ELSE [result |-> "pass", code |-> NoCode]
         /\ events' = (events + Len(arch_records')) % COUNT_MODULUS
         /\ unanswered' = unanswered + Count("REQ", mem_records')
                                     - Count("RSP", mem_records')

ObserverInit ==
    /\ SimInit
    /\ active = 0 /\ first = None /\ fresh = FALSE /\ events = 0 /\ unanswered = 0
ObserverNext ==
    \/ Edge /\ Observe
    \/ Stopped /\ UNCHANGED history
ObserverSpec == ObserverInit /\ [][ObserverNext]_<<simVars, history>>

------------------------------------------------------------------------------
SimTypeOK ==
    /\ TypeOK
    /\ enabled \subseteq ExitParameters
    /\ exit \in {"running", "zero", "nonzero"}
    /\ timeout \in BOOLEAN
    /\ {cycle_count, mem_cycle, arch_cycle, arch_sequence} \subseteq 0 .. COUNT_MODULUS - 1
    /\ {pass_event, pass_latched, fail_event, fail_latched} \subseteq BOOLEAN
    /\ fail_code \in FailCodes \cup {NoCode}

\* The latched result is that of the first edge of the reset epoch that asked for one,
\* whatever came after it; FAIL wins on an edge that asks for both, with the code of
\* that edge; and the event wire is high on the next edge only (sim_termination.sv:32-48).
VerdictIsFirstRequest ==
    /\ pass_latched <=> first # None /\ first.result = "pass"
    /\ fail_latched <=> first # None /\ first.result = "fail"
    /\ fail_code = IF first = None THEN NoCode ELSE first.code
    /\ pass_event <=> pass_latched /\ fresh
    /\ fail_event <=> fail_latched /\ fresh

\* The watchdog fires after exactly MAX_CYCLES active edges and stays, its count
\* saturated; MAX_CYCLES = 0 never fires (sim_cycle_timeout.sv:19-30).
TimeoutExact ==
    /\ timeout <=> MAX_CYCLES # 0 /\ active >= MAX_CYCLES
    /\ cycle_count = IF MAX_CYCLES = 0 THEN 0
                     ELSE IF active < MAX_CYCLES THEN active ELSE MAX_CYCLES

\* All observers number the edges alike: a record of either sink carries the active
\* cycle, from 1 after reset, and event records are numbered from 0 without a gap
\* (memory_transaction_trace.sv:38-59, architectural_trace_sink.sv:42-61).
StampsAgree ==
    /\ mem_cycle = arch_cycle
    /\ active < ActiveBound => mem_cycle = active % COUNT_MODULUS
    /\ \A k \in 1 .. Len(mem_records) : mem_records[k].cycle = mem_cycle
    /\ \A k \in 1 .. Len(arch_records) :
           /\ arch_records[k].cycle = arch_cycle
           /\ arch_records[k].sequence = (events - 1) % COUNT_MODULUS

\* The memory trace by itself tells how many requests are unanswered: as many as the
\* protocol checker holds outstanding, never a response without a request, also across
\* resets that drop one (memory_transaction_trace.sv:39-59).
TraceMatchesBus ==
    exit = "running" => unanswered = IF outstanding_q THEN 1 ELSE 0

\* The exit status tells what happened, for each of the eight settings of the parameters.
\* Zero: FINISH_ON_PASS is set, PASS alone was the first request of the epoch, made on
\* this edge, and a watchdog that is fatal had not expired on an earlier edge.  Nonzero:
\* on this edge a fatal watchdog expired, or FAIL was the first request and is fatal.  A
\* simulation that still runs has none of these behind it, and whatever a cleared
\* parameter leaves running is ended by none of its later events
\* (sim_termination.sv:34-47, sim_cycle_timeout.sv:22-28, ps2_sim_top.sv:263-277).
ExitStatusSound ==
    LET expired == "FATAL_ON_TIMEOUT" \in enabled /\ MAX_CYCLES # 0 /\ active >= MAX_CYCLES
        passed == "FINISH_ON_PASS" \in enabled /\ first # None /\ first.result = "pass"
        failed == "FATAL_ON_FAIL" \in enabled /\ first # None /\ first.result = "fail"
    IN  /\ exit = "running" => ~expired /\ ~passed /\ ~failed
        /\ exit = "zero" => passed /\ fresh /\ (expired => active = MAX_CYCLES)
        /\ exit = "nonzero" =>
               \/ expired /\ active = MAX_CYCLES
               \/ failed /\ fresh
==============================================================================
