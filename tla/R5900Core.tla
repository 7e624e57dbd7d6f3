------------------------------ MODULE R5900Core ------------------------------
(***************************************************************************)
(* The multi-cycle R5900 core (rtl/ee/r5900/r5900_core.sv): the control      *)
(* sequencer, the program counter, the instruction, retirement and           *)
(* writeback registers, the general registers and HI/LO, around the fetch    *)
(* path, the decoder and the execute block.                                 *)
(*                                                                         *)
(* One instruction is in the core at a time; it goes through five phases,    *)
(* each left when the block responsible for it reports that it is done.      *)
(***************************************************************************)
EXTENDS R5900FetchPath, R5900Isa

CONSTANTS
    PC_SPAN,       \* the program counter counts modulo PC_SPAN (2^32)
    StartPcs,      \* the values of start_pc_i
    Upper,         \* the values of the upper lane of a register
    ZeroUpper,     \* the all-zero upper lane
    PowerUpGprs,   \* the registers have no reset: what they may start with
    PowerUpHiLo    \* and what HI/LO may start with

Gpr == [lo : Scalar, up : Upper]
ZeroGpr == [lo |-> 0, up |-> ZeroUpper]
GprIndex == 0 .. 31

ASSUME CoreByteAssumption == Byte = 0 .. 255 /\ ZeroByte = 0
ASSUME PcSpanAssumption == PC_SPAN \in Nat \ {0} /\ PC_SPAN % 4 = 0
ASSUME StartPcsAssumption == StartPcs \subseteq {pc \in 0 .. PC_SPAN - 1 : pc % 4 = 0}
ASSUME UpperAssumption == ZeroUpper \in Upper
ASSUME PowerUpGprsAssumption == PowerUpGprs \subseteq [GprIndex -> Gpr]
ASSUME PowerUpHiLoAssumption == PowerUpHiLo \subseteq [HiLo -> Scalar]

VARIABLES
    state,                    \* the phase
    pc_q,                     \* the program counter
    instruction_q,            \* the word being decoded and executed
    operation_q,              \* its decoded operation
    retirement_q,             \* the retirement to report: [valid, pc, instruction]
    writeback_pending_q,      \* a register result waits to be committed
    writeback_destination_q,  \* its destination
    writeback_value_q,        \* its value (ZeroGpr when nothing is pending)
    commit_seen_q,            \* the writeback block accepted a commit at the last edge
    gprs_q,                   \* the register storage
    hilo_q                    \* HI, LO, HI1 and LO1

retirementVars == <<retirement_q, writeback_pending_q, writeback_destination_q,
                    writeback_value_q>>
coreVars == <<state, pc_q, instruction_q, operation_q, retirementVars, commit_seen_q,
              gprs_q, hilo_q, fetchVars>>

Phase == {"FETCH_REQUEST", "FETCH_RESPONSE", "DECODE", "EXECUTE", "WRITEBACK"}

NoRetirement == [valid |-> FALSE, pc |-> 0, instruction |-> ZeroWord]

------------------------------------------------------------------------------
(* Combinational wiring. *)

\* Mutant: register zero reads its storage.
ReadGpr_FromStorage(index) == gprs_q[index]

\* Register zero reads as zero whatever the storage holds.
ReadGpr(index) == IF index = 0 THEN ZeroGpr ELSE gprs_q[index]

fetch_instruction_ready == state = "FETCH_RESPONSE"

\* Mutant: a fetch is started without asking the path.
FetchPathStart_NotAsking(rst, run) == run /\ state = "FETCH_REQUEST"

FetchPathStart(rst, run) ==
    /\ run
    /\ state = "FETCH_REQUEST"
    /\ FetchStartReady(rst, fetch_instruction_ready)

\* The upper lane of the result comes from the register the encoding names as
\* its destination.
destination_index ==
    LET f == Fields(instruction_q) IN IF f.opcode \in {0, 28} THEN f.rd ELSE f.rt

\* The execute block's outputs.
execute ==
    LET f == Fields(instruction_q)
    IN  Execute(operation_q, instruction_q, ReadGpr(f.rs).lo, ReadGpr(f.rt).lo, hilo_q)

\* The writeback block accepts a commit that it has not seen at the last edge.
commit == state = "WRITEBACK" /\ writeback_pending_q
commit_accepted == commit /\ ~commit_seen_q

\* Mutant: the sequencer learns of the acceptance through its register.
fetch_request_done_Registered == state = "FETCH_REQUEST" /\ request_accepted_q

fetch_request_done ==
    state = "FETCH_REQUEST" /\ FetchAccepted(TRUE, fetch_instruction_ready)
fetch_response_done == state = "FETCH_RESPONSE" /\ instruction_valid_q
\* The decoder answers at once, with an operation or with a reserved-instruction
\* report.
decode_done == state = "DECODE"
execute_done == state = "EXECUTE" /\ execute.complete
writeback_done ==
    state = "WRITEBACK" /\ (~writeback_pending_q \/ commit_accepted)

\* The retirement and the reserved-instruction report the core outputs.
retirement == IF state = "WRITEBACK" THEN retirement_q ELSE NoRetirement
reserved_instruction == state = "DECODE" /\ Decode(instruction_q) = "NONE"

------------------------------------------------------------------------------
CoreInit ==
    /\ FetchInit
    /\ state = "FETCH_REQUEST"
    /\ pc_q \in StartPcs
    /\ instruction_q = ZeroWord
    /\ operation_q = "NONE"
    /\ retirement_q = NoRetirement
    /\ writeback_pending_q = FALSE
    /\ writeback_destination_q = 0
    /\ writeback_value_q = ZeroGpr
    /\ commit_seen_q = FALSE
    /\ gprs_q \in PowerUpGprs
    /\ hilo_q \in PowerUpHiLo

\* HI/LO have no reset, and the execute block is not gated by it: an edge in the
\* EXECUTE phase writes them whether reset is asserted or not.
HiLoClock ==
    hilo_q' = IF state = "EXECUTE"
              THEN [n \in HiLo |-> IF n \in DOMAIN execute.hilo THEN execute.hilo[n]
                                   ELSE hilo_q[n]]
              ELSE hilo_q

\* An edge with reset asserted.  The general registers keep their contents, and a
\* commit of this very edge is refused.
CoreReset ==
    /\ FetchReset
    /\ state' = "FETCH_REQUEST"
    /\ pc_q' \in StartPcs
    /\ instruction_q' = ZeroWord
    /\ operation_q' = "NONE"
    /\ retirement_q' = NoRetirement
    /\ writeback_pending_q' = FALSE
    /\ writeback_destination_q' = 0
    /\ writeback_value_q' = ZeroGpr
    /\ commit_seen_q' = FALSE
    /\ UNCHANGED gprs_q
    /\ HiLoClock

\* The sequencer of r5900_control.
ControlClock ==
    state' = CASE fetch_request_done  -> "FETCH_RESPONSE"
               [] fetch_response_done -> "DECODE"
               [] decode_done         -> "EXECUTE"
               [] execute_done        -> "WRITEBACK"
               [] writeback_done      -> "FETCH_REQUEST"
               [] OTHER               -> state

\* Mutants: the counter advances when the instruction is decoded, or when it is
\* written back.
PcClock_AtDecode == pc_q' = IF decode_done THEN (pc_q + 4) % PC_SPAN ELSE pc_q
PcClock_AtWriteback == pc_q' = IF writeback_done THEN (pc_q + 4) % PC_SPAN ELSE pc_q

PcClock == pc_q' = IF execute_done THEN (pc_q + 4) % PC_SPAN ELSE pc_q

\* The retirement and writeback registers: loaded when execution completes,
\* cleared when writeback does.
RetirementClock ==
    /\ retirement_q' =
          IF execute_done
          THEN [valid |-> TRUE, pc |-> pc_q, instruction |-> instruction_q]
          ELSE IF writeback_done THEN NoRetirement
          ELSE retirement_q
    /\ writeback_pending_q' =
          IF execute_done THEN execute.commit
          ELSE writeback_pending_q /\ ~writeback_done
    /\ writeback_destination_q' =
          IF execute_done THEN execute.destination ELSE writeback_destination_q
    /\ writeback_value_q' =
          IF execute_done
          THEN IF execute.commit
               THEN [lo |-> execute.scalar, up |-> ReadGpr(destination_index).up]
               ELSE ZeroGpr
          ELSE IF writeback_done THEN ZeroGpr
          ELSE writeback_value_q

\* Mutant: the memory of a commit is never cleared.
WritebackClock_Sticky ==
    /\ commit_seen_q' = (commit_seen_q \/ commit)
    /\ gprs_q' = IF commit_accepted /\ writeback_destination_q # 0
                 THEN [gprs_q EXCEPT ![writeback_destination_q] = writeback_value_q]
                 ELSE gprs_q

\* The register storage is written by an accepted commit to another register than
\* zero.
WritebackClock ==
    /\ commit_seen_q' = commit
    /\ gprs_q' = IF commit_accepted /\ writeback_destination_q # 0
                 THEN [gprs_q EXCEPT ![writeback_destination_q] = writeback_value_q]
                 ELSE gprs_q

\* One edge with reset released.
CoreClock(run) ==
    /\ ControlClock
    /\ PcClock
    /\ instruction_q' = IF fetch_response_done THEN fetched_q ELSE instruction_q
    /\ operation_q' = IF decode_done THEN Decode(instruction_q) ELSE operation_q
    /\ RetirementClock
    /\ WritebackClock
    /\ HiLoClock
    /\ FetchClock(FetchPathStart(TRUE, run), pc_q, fetch_instruction_ready)

------------------------------------------------------------------------------
CoreTypeOK ==
    /\ FetchTypeOK
    /\ state \in Phase
    /\ pc_q \in 0 .. PC_SPAN - 1
    /\ instruction_q \in Word
    /\ operation_q \in Operation
    /\ retirement_q \in [valid : BOOLEAN, pc : 0 .. PC_SPAN - 1, instruction : Word]
    /\ writeback_pending_q \in BOOLEAN
    /\ writeback_destination_q \in GprIndex
    /\ writeback_value_q \in Gpr
    /\ commit_seen_q \in BOOLEAN
    /\ gprs_q \in [GprIndex -> Gpr]
    /\ hilo_q \in [HiLo -> Scalar]
==============================================================================
