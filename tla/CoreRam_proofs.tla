---------------------------- MODULE CoreRam_proofs ----------------------------
(***************************************************************************)
(* Proofs about the core and its RAM, for every program, storage, latency,   *)
(* operand width, start address and register contents.                      *)
(*                                                                         *)
(* The sequencer moves on pulses of the fetch path and never looks at its    *)
(* registers.  CoreInv ties the two together: the phase says in which         *)
(* register of the path the fetch is, so a done pulse never comes in a phase  *)
(* that would miss it; the address fetched is the program counter, so what    *)
(* retires is the instruction at it; and a commit is never pending outside    *)
(* WRITEBACK, so the memory of the last commit cannot suppress the next one.  *)
(*                                                                         *)
(* The refinement needs, beyond that, where the word in flight is kept in     *)
(* each phase (WordClock) and that the pending result, which the core puts    *)
(* together from two computations of the destination, is the machine's        *)
(* (ArchitecturalClock).                                                     *)
(*                                                                         *)
(* TypeOK of the core is inductive with CoreInv: the execute block's results     *)
(* fit their lanes (ResultsFit), and the phases hand them on unchanged.          *)
(***************************************************************************)
EXTENDS CoreRam, FetchBus_proofs, R5900Isa_proofs

USE DEF ramVars, checkerVars, requestVars, responseVars, fetchVars,
        retirementVars, coreVars, wires, vars

-----------------------------------------------------------------------------
(* Facts about one edge with reset released. *)

\* The program counter stays aligned when it wraps.
LEMMA NextPcAligned ==
    ASSUME NEW pc \in 0 .. PC_SPAN - 1, pc % 4 = 0
    PROVE  /\ (pc + 4) % PC_SPAN \in 0 .. PC_SPAN - 1
           /\ ((pc + 4) % PC_SPAN) % 4 = 0
<1>1. PC_SPAN \in Nat /\ PC_SPAN > 0 /\ PC_SPAN % 4 = 0 /\ pc + 4 <= PC_SPAN
    BY PcSpanAssumption
<1>2. CASE pc + 4 < PC_SPAN
    <2>1. (pc + 4) % PC_SPAN = pc + 4
        BY <1>1, <1>2
    <2> QED
        BY <1>1, <1>2, <2>1
<1>3. CASE pc + 4 = PC_SPAN
    <2>1. (pc + 4) % PC_SPAN = 0
        BY <1>1, <1>3
    <2> QED
        BY <1>1, <2>1
<1> QED
    BY <1>1, <1>2, <1>3

\* The execute block never completes the operation "NONE".
LEMMA NoneNeverCompletes ==
    execute.complete => operation_q # "NONE" /\ execute.commit \in BOOLEAN
<1>1. ~ExecuteAccepts("NONE", instruction_q)
    BY DEF ExecuteAccepts, ShiftFunct, RegisterFunct, ImmediateOpcode
<1>2. WritebackCommit(operation_q, instruction_q) \in BOOLEAN
    BY DEF WritebackCommit
<1> QED
    BY <1>1, <1>2 DEF execute, Execute

\* The core starts a fetch only in FETCH_REQUEST, when the path is ready.
LEMMA CoreIsPolite ==
    ASSUME ControlTypeOK
    PROVE  /\ FetchPathStart(TRUE, run) \in BOOLEAN
           /\ FetchPathStart(TRUE, run) =>
                  /\ state = "FETCH_REQUEST"
                  /\ FetchStartReady(TRUE, fetch_instruction_ready)
           /\ fetch_instruction_ready \in BOOLEAN
           /\ pc_q \in Nat
           /\ bd \in Backdoor
<1>1. FetchPathStart(TRUE, run) \in BOOLEAN /\ fetch_instruction_ready \in BOOLEAN
    BY DEF FetchPathStart, fetch_instruction_ready
<1>2. FetchPathStart(TRUE, run) =>
          state = "FETCH_REQUEST" /\ FetchStartReady(TRUE, fetch_instruction_ready)
    BY DEF FetchPathStart
<1>3. pc_q \in Nat /\ bd \in Backdoor
    BY BackdoorsAssumption, PcSpanAssumption DEF ControlTypeOK
<1> QED
    BY <1>1, <1>2, <1>3

\* Where the sequencer goes from each phase.
LEMMA PhaseClock ==
    ASSUME CoreInv, ControlClock
    PROVE  /\ state = "FETCH_REQUEST" =>
                  state' = IF FetchAccepted(TRUE, fetch_instruction_ready)
                           THEN "FETCH_RESPONSE" ELSE "FETCH_REQUEST"
           /\ state = "FETCH_RESPONSE" =>
                  state' = IF instruction_valid_q THEN "DECODE" ELSE "FETCH_RESPONSE"
           /\ state = "DECODE" => state' = "EXECUTE"
           /\ state = "EXECUTE" =>
                  state' = IF execute.complete THEN "WRITEBACK" ELSE "EXECUTE"
           /\ state = "WRITEBACK" => state' = "FETCH_REQUEST"
           /\ execute_done <=> state = "EXECUTE" /\ state' = "WRITEBACK"
           /\ writeback_done <=> state = "WRITEBACK"
<1>1. state = "WRITEBACK" => writeback_done
    BY DEF CoreInv, CommitNeverSuppressed
<1>2. state \in {"FETCH_REQUEST", "FETCH_RESPONSE", "DECODE", "EXECUTE", "WRITEBACK"}
    BY DEF CoreInv, ControlTypeOK, Phase
<1> HIDE DEF CoreInv
<1> QED
    BY <1>1, <1>2 DEF ControlClock, fetch_request_done, fetch_response_done, decode_done,
          execute_done, writeback_done

\* The registers of the fetch path after the edge, and what its handshakes say.
LEMMA PathClock ==
    ASSUME CoreInv, CoreClock(run)
    PROVE  LET ready == fetch_instruction_ready
               start == FetchPathStart(TRUE, run)
               accepted == FetchAccepted(TRUE, ready)
               taken == ResponseAccepted(TRUE, ready)
           IN  /\ pending_q' <=> (start \/ (pending_q /\ ~accepted))
               /\ address_q' = IF start THEN pc_q ELSE address_q
               /\ request_accepted_q' <=> accepted
               /\ response_expected_q' <=>
                      (~taken /\ (response_expected_q \/ request_accepted_q))
               /\ instruction_valid_q' <=> (taken \/ (instruction_valid_q /\ ~ready))
               /\ accepted => pending_q
               /\ taken => response_expected_q \/ request_accepted_q
<1>1. ControlTypeOK /\ FetchBusInv
    BY DEF CoreInv
<1>2. fetch_instruction_ready \in BOOLEAN
    BY <1>1, CoreIsPolite
<1>3. FetchClock(FetchPathStart(TRUE, run), pc_q, fetch_instruction_ready)
    BY DEF CoreClock
<1> QED
    BY <1>1, <1>2, <1>3, FetchHandshakes DEF FetchClock, RequestClock, ResponseClock

-----------------------------------------------------------------------------
(* Each part of the invariant is preserved by an edge with reset released. *)

LEMMA ClockFetchBus ==
    ASSUME CoreInv, ClockEdge
    PROVE  FetchBusInv'
<1>1. ControlTypeOK /\ FetchBusInv
    BY DEF CoreInv
<1>2. /\ TargetClock(fetch_instruction_ready, bd)
      /\ FetchClock(FetchPathStart(TRUE, run), pc_q, fetch_instruction_ready)
    BY DEF ClockEdge, CoreClock
<1> QED
    BY <1>1, <1>2, CoreIsPolite, FetchBusClock

LEMMA ClockControlType ==
    ASSUME CoreInv, ClockEdge
    PROVE  ControlTypeOK'
<1>1. ControlTypeOK /\ FetchTypeOK /\ CoreClock(run) /\ Drive
    BY DEF CoreInv, ClockEdge, FetchBusInv, FetchBusTypeOK
<1>2. state' \in Phase
    BY <1>1, PhaseClock DEF CoreClock, ControlTypeOK, Phase
<1>3. pc_q' \in 0 .. PC_SPAN - 1 /\ pc_q' % 4 = 0
    BY <1>1, NextPcAligned DEF CoreClock, PcClock, ControlTypeOK
<1>4. instruction_q' \in Word
    BY <1>1 DEF CoreClock, ControlTypeOK, FetchTypeOK
<1>5. writeback_pending_q' \in BOOLEAN
    <2>1. CASE execute_done
        BY <1>1, <2>1, NoneNeverCompletes DEF CoreClock, RetirementClock, execute_done
    <2>2. CASE ~execute_done
        BY <1>1, <2>2 DEF CoreClock, RetirementClock
    <2> QED
        BY <2>1, <2>2
<1>6. commit_seen_q' \in BOOLEAN
    BY <1>1 DEF CoreClock, WritebackClock, commit
<1> QED
    BY <1>1, <1>2, <1>3, <1>4, <1>5, <1>6 DEF ControlTypeOK, Drive

LEMMA ClockPhaseFollowsFetch ==
    ASSUME CoreInv, ClockEdge
    PROVE  PhaseFollowsFetch'
<1>1. CoreClock(run) /\ ControlClock
    BY DEF ClockEdge, CoreClock
<1>2. PhaseFollowsFetch /\ state \in Phase /\ ControlTypeOK
    BY DEF CoreInv, ControlTypeOK
<1>3. FetchInOnePlace' /\ AwaitsWhatRamOwes'
    BY ClockFetchBus DEF FetchBusInv, InFlightViewsAgree
<1> DEFINE ready == fetch_instruction_ready
           start == FetchPathStart(TRUE, run)
           accepted == FetchAccepted(TRUE, ready)
           taken == ResponseAccepted(TRUE, ready)
<1>4. /\ pending_q' <=> (start \/ (pending_q /\ ~accepted))
      /\ request_accepted_q' <=> accepted
      /\ response_expected_q' <=> (~taken /\ (response_expected_q \/ request_accepted_q))
      /\ instruction_valid_q' <=> (taken \/ (instruction_valid_q /\ ~ready))
      /\ accepted => pending_q
      /\ taken => response_expected_q \/ request_accepted_q
      /\ start => state = "FETCH_REQUEST" /\ ~pending_q
      /\ ready <=> state = "FETCH_RESPONSE"
    BY <1>1, <1>2, PathClock, CoreIsPolite DEF fetch_instruction_ready, FetchStartReady
<1>5. /\ state = "FETCH_REQUEST" =>
             state' = IF accepted THEN "FETCH_RESPONSE" ELSE "FETCH_REQUEST"
      /\ state = "FETCH_RESPONSE" =>
             state' = IF instruction_valid_q THEN "DECODE" ELSE "FETCH_RESPONSE"
      /\ state = "DECODE" => state' = "EXECUTE"
      /\ state = "EXECUTE" => state' \in {"WRITEBACK", "EXECUTE"}
      /\ state = "WRITEBACK" => state' = "FETCH_REQUEST"
    BY <1>1, PhaseClock
<1> HIDE DEF ready, start, accepted, taken
<1>6. pending_q' => state' = "FETCH_REQUEST"
    BY <1>2, <1>4, <1>5 DEF PhaseFollowsFetch, FetchInOnePlace
<1>7. (state' = "FETCH_RESPONSE") <=>
          (request_accepted_q' \/ response_expected_q' \/ instruction_valid_q')
    BY <1>2, <1>4, <1>5 DEF PhaseFollowsFetch, FetchInOnePlace, Phase
<1>8. (state' # "FETCH_RESPONSE") => ~(response_pending_q' \/ rsp_valid_q')
    BY <1>3, <1>7 DEF AwaitsWhatRamOwes
<1> QED
    BY <1>3, <1>6, <1>7, <1>8 DEF PhaseFollowsFetch

LEMMA ClockFetchesAtPc ==
    ASSUME CoreInv, ClockEdge
    PROVE  FetchesAtPc'
<1>1. CoreClock(run) /\ ControlClock /\ ControlTypeOK /\ PhaseFollowsFetch /\ FetchesAtPc
    BY DEF ClockEdge, CoreClock, CoreInv
<1>2. pc_q' # pc_q => execute_done
    BY <1>1 DEF CoreClock, PcClock
<1>3. CASE execute_done
    <2>1. state = "EXECUTE" /\ state' = "WRITEBACK"
        BY <1>1, <1>3, PhaseClock
    <2>2. ~pending_q'
        BY <2>1, ClockPhaseFollowsFetch DEF PhaseFollowsFetch
    <2> QED
        BY <2>1, <2>2 DEF FetchesAtPc
<1>4. CASE ~execute_done
    <2>1. pc_q' = pc_q
        BY <1>2, <1>4
    <2>2. CASE FetchPathStart(TRUE, run)
        BY <1>1, <2>1, <2>2, PathClock DEF FetchesAtPc
    <2>3. CASE ~FetchPathStart(TRUE, run)
        <3>1. address_q' = address_q /\ (pending_q' => pending_q)
            BY <1>1, <2>3, PathClock
        <3>2. state' \in {"FETCH_RESPONSE", "DECODE", "EXECUTE"} =>
                  pending_q \/ state \in {"FETCH_RESPONSE", "DECODE", "EXECUTE"}
            BY <1>1, PhaseClock, PathClock DEF ControlTypeOK, Phase
        <3> QED
            BY <1>1, <2>1, <3>1, <3>2 DEF FetchesAtPc
    <2> QED
        BY <2>2, <2>3
<1> QED
    BY <1>3, <1>4

LEMMA ClockCommit ==
    ASSUME CoreInv, ClockEdge
    PROVE  CommitNeverSuppressed'
<1>1. CoreClock(run) /\ ControlClock /\ ControlTypeOK /\ CommitNeverSuppressed
    BY DEF ClockEdge, CoreClock, CoreInv
<1>2. commit_seen_q' => state' = "FETCH_REQUEST"
    BY <1>1, PhaseClock DEF CoreClock, WritebackClock, commit
<1>3. writeback_pending_q' => state' = "WRITEBACK"
    <2>1. CASE execute_done
        BY <1>1, <2>1, PhaseClock
    <2>2. CASE ~execute_done
        BY <1>1, <2>2, PhaseClock DEF CoreClock, RetirementClock, CommitNeverSuppressed
    <2> QED
        BY <2>1, <2>2
<1>4. state' = "WRITEBACK" => writeback_done'
    BY <1>2 DEF writeback_done, commit_accepted, commit
<1> QED
    BY <1>2, <1>3, <1>4 DEF CommitNeverSuppressed

LEMMA ClockRetirement ==
    ASSUME CoreInv, ClockEdge
    PROVE  RetirementMatches'
<1>1. /\ CoreClock(run) /\ ControlClock /\ ControlTypeOK /\ RetirementMatches
      /\ state = "EXECUTE" => operation_q = Decode(instruction_q)
    BY DEF ClockEdge, CoreClock, CoreInv
<1>2. CASE execute_done
    <2>1. /\ retirement_q' = [valid |-> TRUE, pc |-> pc_q, instruction |-> instruction_q]
          /\ pc_q' = (pc_q + 4) % PC_SPAN
          /\ state = "EXECUTE" /\ state' = "WRITEBACK" /\ execute.complete
        BY <1>1, <1>2, PhaseClock DEF CoreClock, RetirementClock, PcClock, execute_done
    <2>2. instruction_q' = instruction_q
        BY <1>1, <2>1 DEF CoreClock, fetch_response_done
    <2>3. Decode(instruction_q) # "NONE"
        BY <1>1, <2>1, NoneNeverCompletes
    <2> QED
        BY <2>1, <2>2, <2>3 DEF RetirementMatches
<1>3. CASE ~execute_done
    <2>1. state' # "WRITEBACK"
        BY <1>1, <1>3, PhaseClock DEF ControlTypeOK, Phase
    <2>2. ~retirement_q'.valid
        BY <1>1, <1>3, PhaseClock
           DEF CoreClock, RetirementClock, RetirementMatches, NoRetirement
    <2> QED
        BY <2>1, <2>2 DEF RetirementMatches
<1> QED
    BY <1>2, <1>3

\* The operation in EXECUTE is the decoding of the word beside it.
LEMMA ClockOperation ==
    ASSUME CoreInv, ClockEdge, state' = "EXECUTE"
    PROVE  operation_q' = Decode(instruction_q)'
<1>1. /\ CoreClock(run) /\ ControlClock /\ ControlTypeOK
      /\ state = "EXECUTE" => operation_q = Decode(instruction_q)
    BY DEF ClockEdge, CoreClock, CoreInv
<1>2. state \in {"DECODE", "EXECUTE"}
    BY <1>1, PhaseClock DEF ControlTypeOK, Phase
<1>3. instruction_q' = instruction_q
    BY <1>1, <1>2 DEF CoreClock, fetch_response_done
<1>4. operation_q' = Decode(instruction_q)
    BY <1>1, <1>2 DEF CoreClock, decode_done
<1>5. Decode(instruction_q)' = Decode(instruction_q)
    BY <1>3 DEF Decode, IsZeroWord, Fields
<1> QED
    BY <1>4, <1>5

-----------------------------------------------------------------------------
(* CoreInv is inductive. *)

\* Power-up satisfies the invariant.
LEMMA InitCoreInv == Init => CoreInv
<1> SUFFICES ASSUME Init PROVE CoreInv
    OBVIOUS
<1>1. FetchBusInv
    BY FetchBusInit DEF Init, CoreInit
<1>2. ZeroWord \in Word
    BY ByteAssumption DEF ZeroWord, Word
<1>3. ControlTypeOK
    BY <1>2, StartPcsAssumption DEF Init, CoreInit, ControlTypeOK, Phase
<1>4. PhaseFollowsFetch /\ FetchesAtPc
    BY DEF Init, CoreInit, RamInit, FetchInit, RequestInit, ResponseInit,
           PhaseFollowsFetch, FetchInOnePlace, FetchesAtPc
<1>5. CommitNeverSuppressed /\ RetirementMatches
    BY DEF Init, CoreInit, CommitNeverSuppressed, RetirementMatches, NoRetirement
<1>6. state # "EXECUTE"
    BY DEF Init, CoreInit
<1> QED
    BY <1>1, <1>3, <1>4, <1>5, <1>6 DEF CoreInv

\* An edge with reset asserted establishes it.
LEMMA ResetCoreInv ==
    ASSUME CoreInv, ResetEdge
    PROVE  CoreInv'
<1>1. RamReset /\ CheckerReset /\ CoreReset /\ FetchReset /\ Drive
    BY DEF ResetEdge, CoreReset
<1>2. FetchBusInv'
    BY <1>1, FetchBusReset DEF CoreInv
<1>3. ZeroWord \in Word
    BY ByteAssumption DEF ZeroWord, Word
<1>4. ControlTypeOK'
    BY <1>1, <1>3, StartPcsAssumption DEF CoreReset, Drive, ControlTypeOK, Phase
<1>5. PhaseFollowsFetch' /\ FetchesAtPc'
    BY <1>1 DEF CoreReset, RamReset, FetchReset, PhaseFollowsFetch, FetchInOnePlace,
                FetchesAtPc
<1>6. CommitNeverSuppressed' /\ RetirementMatches'
    BY <1>1 DEF CoreReset, CommitNeverSuppressed, RetirementMatches, NoRetirement
<1>7. state' # "EXECUTE"
    BY <1>1 DEF CoreReset
<1> QED
    BY <1>2, <1>4, <1>5, <1>6, <1>7 DEF CoreInv

\* Every step preserves it.
LEMMA NextCoreInv == CoreInv /\ [Next]_vars => CoreInv'
<1> SUFFICES ASSUME CoreInv, [Next]_vars PROVE CoreInv'
    OBVIOUS
<1>1. CASE ResetEdge
    BY <1>1, ResetCoreInv
<1>2. CASE ClockEdge
    BY <1>2, ClockControlType, ClockFetchBus, ClockPhaseFollowsFetch, ClockFetchesAtPc,
       ClockCommit, ClockRetirement, ClockOperation DEF CoreInv
<1>3. CASE UNCHANGED vars
    <2>1. FetchBusInv'
        BY <1>3, FetchBusStutter DEF CoreInv
    <2>2. ControlTypeOK'
        BY <1>3 DEF CoreInv, ControlTypeOK
    <2>3. PhaseFollowsFetch' /\ FetchesAtPc'
        BY <1>3 DEF CoreInv, PhaseFollowsFetch, FetchInOnePlace, FetchesAtPc
    <2>4. CommitNeverSuppressed'
        BY <1>3 DEF CoreInv, CommitNeverSuppressed, writeback_done, commit_accepted, commit
    <2>5. /\ UNCHANGED <<state, pc_q, instruction_q, operation_q, retirement_q>>
          /\ RetirementMatches
          /\ state = "EXECUTE" => operation_q = Decode(instruction_q)
        BY <1>3 DEF CoreInv
    <2>6. Decode(instruction_q)' = Decode(instruction_q)
        BY <2>5 DEF Decode, IsZeroWord, Fields
    <2>7. Decode(retirement_q.instruction)' = Decode(retirement_q.instruction)
        BY <2>5 DEF Decode, IsZeroWord, Fields
    <2>8. RetirementMatches'
        BY <2>5, <2>7 DEF RetirementMatches
    <2> QED
        BY <2>1, <2>2, <2>3, <2>4, <2>5, <2>6, <2>8 DEF CoreInv
<1> QED
    BY <1>1, <1>2, <1>3 DEF Next

\* The inductive invariant holds for ever.
THEOREM CoreInvariant == Spec => []CoreInv
<1>1. Init => CoreInv
    BY InitCoreInv
<1>2. CoreInv /\ [Next]_vars => CoreInv'
    BY NextCoreInv
<1> QED
    BY <1>1, <1>2, PTL DEF Spec

-----------------------------------------------------------------------------
(* What it implies. *)

\* The core never trips a fatal assertion of its fetch path or of its bus.
THEOREM CoreNeverFatal == Spec => []NoFatalAssertion
<1>1. CoreInv => NoFatalAssertion
    <2> SUFFICES ASSUME CoreInv PROVE NoFatalAssertion
        OBVIOUS
    <2>1. ControlTypeOK /\ FetchBusInv
        BY DEF CoreInv
    <2>2. FetchBusAssertions(FetchPathStart(TRUE, run), fetch_instruction_ready)
        BY <2>1, CoreIsPolite, FetchBusNeverFatal
    <2>3. R5900_FETCH_ALIGN(FetchPathStart(TRUE, run), pc_q)
        BY <2>1 DEF R5900_FETCH_ALIGN, ControlTypeOK
    <2>4. R5900_FETCH_BUSY(FetchPathStart(TRUE, run), fetch_instruction_ready)
        BY <2>1, CoreIsPolite DEF R5900_FETCH_BUSY
    <2> QED
        BY <2>2, <2>3, <2>4 DEF NoFatalAssertion
<1> QED
    BY <1>1, CoreInvariant, PTL

\* The sequencer and the fetch path agree on where the instruction is.
THEOREM CorePhaseFollowsFetch == Spec => []PhaseFollowsFetch
<1>1. CoreInv => PhaseFollowsFetch
    BY DEF CoreInv
<1> QED
    BY <1>1, CoreInvariant, PTL

\* What is fetched and executed is the instruction at the program counter.
THEOREM CoreFetchesAtPc == Spec => []FetchesAtPc
<1>1. CoreInv => FetchesAtPc
    BY DEF CoreInv
<1> QED
    BY <1>1, CoreInvariant, PTL

\* No register result is lost to the memory of the previous commit.
THEOREM CoreCommits == Spec => []CommitNeverSuppressed
<1>1. CoreInv => CommitNeverSuppressed
    BY DEF CoreInv
<1> QED
    BY <1>1, CoreInvariant, PTL

\* Retirements are the executed instructions, one each, in order.
THEOREM CoreRetires == Spec => []RetirementMatches
<1>1. CoreInv => RetirementMatches
    BY DEF CoreInv
<1> QED
    BY <1>1, CoreInvariant, PTL

\* Only illegal words stop the core in EXECUTE: the execute block completes every word
\* the decoder knows.
THEOREM CoreStopsOnlyIllegal == Spec => []ExecuteStopsOnlyIllegal
<1>1. CoreInv => ExecuteStopsOnlyIllegal
    <2> SUFFICES ASSUME CoreInv, state = "EXECUTE"
                 PROVE  /\ operation_q = Decode(instruction_q)
                        /\ execute.complete <=> operation_q # "NONE"
        BY DEF ExecuteStopsOnlyIllegal
    <2>1. operation_q = Decode(instruction_q)
        BY DEF CoreInv
    <2>2. execute.complete <=> ExecuteAccepts(operation_q, instruction_q)
        BY DEF execute, Execute
    <2> QED
        BY <2>1, <2>2, LegalWordsAccepted
<1> QED
    BY <1>1, CoreInvariant, PTL

-----------------------------------------------------------------------------
(* Types. *)

\* The registers that decide nothing: what they hold is what a program computed.
RegistersTyped ==
    /\ operation_q \in Operation
    /\ retirement_q \in [valid : BOOLEAN, pc : 0 .. PC_SPAN - 1, instruction : Word]
    /\ writeback_destination_q \in GprIndex
    /\ writeback_value_q \in Gpr
    /\ gprs_q \in [GprIndex -> Gpr]
    /\ hilo_q \in [HiLo -> Scalar]

\* Zero is a value of every kind of register.
LEMMA ZerosTyped ==
    /\ "NONE" \in Operation
    /\ NoRetirement \in [valid : BOOLEAN, pc : 0 .. PC_SPAN - 1, instruction : Word]
    /\ 0 \in GprIndex
    /\ ZeroGpr \in Gpr
<1>1. ZeroWord \in Word
    BY ByteAssumption DEF ZeroWord, Word
<1>2. 0 \in 0 .. PC_SPAN - 1
    BY PcSpanAssumption
<1>3. 0 \in Scalar
    BY ScalarRemainder
<1> QED
    BY <1>1, <1>2, <1>3, UpperAssumption DEF Operation, NoRetirement, GprIndex, ZeroGpr, Gpr

\* Reading a register gives one of its values.
LEMMA ReadTyped ==
    ASSUME RegistersTyped, NEW index \in GprIndex
    PROVE  ReadGpr(index) \in Gpr
    BY ZerosTyped DEF RegistersTyped, ReadGpr

\* The outputs of the execute block have the widths of the registers they go to.
LEMMA OutputsTyped ==
    ASSUME RegistersTyped, instruction_q \in Word
    PROVE  /\ execute.destination \in GprIndex
           /\ execute.scalar \in Scalar
           /\ \A n \in DOMAIN execute.hilo : execute.hilo[n] \in Scalar
           /\ destination_index \in GprIndex
<1> DEFINE f == Fields(instruction_q)
<1>1. instruction_q \in [0 .. 3 -> 0 .. 255]
    BY CoreByteAssumption DEF Word
<1>2. f.rs \in GprIndex /\ f.rt \in GprIndex /\ f.rd \in GprIndex
    BY <1>1, FieldRanges DEF GprIndex
<1> HIDE DEF f
<1>3. ReadGpr(f.rs).lo \in Scalar /\ ReadGpr(f.rt).lo \in Scalar
    BY <1>2, ReadTyped DEF Gpr
<1>4. execute = Execute(operation_q, instruction_q, ReadGpr(f.rs).lo, ReadGpr(f.rt).lo, hilo_q)
    BY DEF execute, f
<1>5. hilo_q \in [HiLo -> Scalar]
    BY DEF RegistersTyped
<1>6. /\ execute.destination \in 0 .. 31
      /\ execute.scalar \in Scalar
      /\ \A n \in DOMAIN execute.hilo : execute.hilo[n] \in Scalar
    BY <1>1, <1>3, <1>4, <1>5, ResultsFit
<1>7. destination_index \in GprIndex
    BY <1>2 DEF destination_index, f
<1> QED
    BY <1>6, <1>7 DEF GprIndex

\* HI/LO keep their width at any edge.
LEMMA HiLoTyped ==
    ASSUME RegistersTyped, instruction_q \in Word, HiLoClock
    PROVE  hilo_q' \in [HiLo -> Scalar]
<1>1. /\ hilo_q \in [HiLo -> Scalar]
      /\ \A n \in DOMAIN execute.hilo : execute.hilo[n] \in Scalar
    BY OutputsTyped DEF RegistersTyped
<1>2. CASE state = "EXECUTE"
    BY <1>1, <1>2 DEF HiLoClock
<1>3. CASE state # "EXECUTE"
    BY <1>1, <1>3 DEF HiLoClock
<1> QED
    BY <1>2, <1>3

\* Power-up gives the registers their types.
LEMMA InitTyped ==
    ASSUME Init
    PROVE  RegistersTyped
    BY ZerosTyped, PowerUpGprsAssumption, PowerUpHiLoAssumption
       DEF Init, CoreInit, RegistersTyped

\* An edge with reset released keeps them.
LEMMA ClockTyped ==
    ASSUME CoreInv, RegistersTyped, CoreClock(run)
    PROVE  RegistersTyped'
<1>1. instruction_q \in Word /\ pc_q \in 0 .. PC_SPAN - 1
    BY DEF CoreInv, ControlTypeOK
<1>2. operation_q' \in Operation
    BY DecodesToOperation DEF CoreClock, RegistersTyped
<1>3. retirement_q' \in [valid : BOOLEAN, pc : 0 .. PC_SPAN - 1, instruction : Word]
    BY <1>1, ZerosTyped DEF CoreClock, RetirementClock, RegistersTyped
<1>4. writeback_destination_q' \in GprIndex
    BY <1>1, OutputsTyped DEF CoreClock, RetirementClock, RegistersTyped
<1>5. writeback_value_q' \in Gpr
  <2>1. [lo |-> execute.scalar, up |-> ReadGpr(destination_index).up] \in Gpr
    <3>1. execute.scalar \in Scalar /\ ReadGpr(destination_index) \in Gpr
        BY <1>1, OutputsTyped, ReadTyped
    <3> QED
        BY <3>1 DEF Gpr
  <2> QED
      BY <2>1, ZerosTyped DEF CoreClock, RetirementClock, RegistersTyped
<1>6. gprs_q' \in [GprIndex -> Gpr]
    BY DEF CoreClock, WritebackClock, RegistersTyped
<1>7. hilo_q' \in [HiLo -> Scalar]
    BY <1>1, HiLoTyped DEF CoreClock
<1> QED
    BY <1>2, <1>3, <1>4, <1>5, <1>6, <1>7 DEF RegistersTyped

\* So does every step.
LEMMA NextTyped ==
    ASSUME CoreInv, RegistersTyped, [Next]_vars
    PROVE  RegistersTyped'
<1>1. CASE ResetEdge
  <2>1. instruction_q \in Word
      BY DEF CoreInv, ControlTypeOK
  <2>2. hilo_q' \in [HiLo -> Scalar]
      BY <1>1, <2>1, HiLoTyped DEF ResetEdge, CoreReset
  <2> QED
      BY <1>1, <2>2, ZerosTyped DEF ResetEdge, CoreReset, RegistersTyped
<1>2. CASE ClockEdge
    BY <1>2, ClockTyped DEF ClockEdge
<1>3. CASE UNCHANGED vars
    BY <1>3 DEF RegistersTyped
<1> QED
    BY <1>1, <1>2, <1>3 DEF Next

\* Every register holds a value of its type: no result of any instruction, from any
\* power-up contents, is wider than the lane it is written to, and no destination
\* names a register the storage does not have.
THEOREM CoreTypeCorrect == Spec => []TypeOK
<1>1. Init => RegistersTyped
    BY InitTyped
<1>2. CoreInv /\ RegistersTyped /\ [Next]_vars => RegistersTyped'
    BY NextTyped
<1>3. CoreInv /\ RegistersTyped => TypeOK
    BY DEF CoreInv, ControlTypeOK, RegistersTyped, FetchBusInv, FetchBusTypeOK, TypeOK,
           CoreTypeOK
<1> QED
    BY <1>1, <1>2, <1>3, CoreInvariant, PTL DEF Spec

-----------------------------------------------------------------------------
(* The core implements R5900Machine.  The registers need a little of their   *)
(* types: an EXCEPT on a lane, or on a HI/LO register, says nothing of a     *)
(* value that is not a record, or not a function.                           *)

Lanes(v) == v = [lo |-> v.lo, up |-> v.up]

RegistersShaped ==
    /\ gprs_q = [r \in GprIndex |-> gprs_q[r]]
    /\ \A r \in GprIndex : Lanes(gprs_q[r])
    /\ hilo_q = [n \in HiLo |-> hilo_q[n]]
    /\ writeback_pending_q =>
           writeback_destination_q \in GprIndex /\ Lanes(writeback_value_q)

\* The types of the registers say as much.
LEMMA TypedShaped ==
    ASSUME RegistersTyped
    PROVE  RegistersShaped
<1>1. \A v \in Gpr : Lanes(v)
    BY DEF Gpr, Lanes
<1> QED
    BY <1>1 DEF RegistersTyped, RegistersShaped

\* The register fields of a word are register numbers.
LEMMA FieldRange ==
    ASSUME NEW w \in Word
    PROVE  Fields(w).rs \in GprIndex /\ Fields(w).rt \in GprIndex /\ Fields(w).rd \in GprIndex
    BY CoreByteAssumption, FieldRanges DEF Word, GprIndex

\* The upper lane of a result is read from the register the result is written to: the
\* destination the execute block computes from the operation is the one the core reads
\* off the encoding (r5900_core.sv:102-104).
LEMMA DestinationIsEncoded ==
    ASSUME execute.complete, execute.commit
    PROVE  execute.destination = destination_index
<1> DEFINE f == Fields(instruction_q)
           op == operation_q
<1>1. /\ ExecuteAccepts(op, instruction_q) /\ WritebackCommit(op, instruction_q)
      /\ execute.destination = WritebackDestination(op, instruction_q)
    BY DEF execute, Execute
<1>2. CASE op \in DOMAIN ImmediateOpcode
    <2>1. f.opcode = ImmediateOpcode[op]
        BY <1>1, <1>2 DEF ExecuteAccepts, ImmediateOpcode, ShiftFunct, RegisterFunct
    <2>2. f.opcode \notin {0, 28}
        BY <1>2, <2>1 DEF ImmediateOpcode
    <2> QED
        BY <1>1, <1>2, <2>2 DEF WritebackDestination, destination_index
<1>3. CASE op \notin DOMAIN ImmediateOpcode
    <2>1. \/ op \in DOMAIN ShiftFunct \/ op \in DOMAIN RegisterFunct
          \/ op \in {"MFHI", "MFLO", "MFHI1", "MULT1", "MULTU1"}
      <3>1. "MULT" \in DOMAIN RegisterFunct /\ "MULTU" \in DOMAIN RegisterFunct
          BY DEF RegisterFunct
      <3> QED
          BY <1>1, <1>3, <3>1 DEF WritebackCommit, MoveFrom, Multiply
    <2>2. op \in DOMAIN ShiftFunct => f.opcode = 0
        BY <1>1, <1>3 DEF ExecuteAccepts, ShiftFunct, RegisterFunct, ImmediateOpcode
    <2>3. op \in DOMAIN RegisterFunct => f.opcode = 0
        BY <1>1, <1>3 DEF ExecuteAccepts, ShiftFunct, RegisterFunct, ImmediateOpcode
    <2>4. op \in {"MFHI", "MFLO", "MFHI1", "MULT1", "MULTU1"} => f.opcode \in {0, 28}
        BY <1>1, <1>3 DEF ExecuteAccepts, ShiftFunct, RegisterFunct, ImmediateOpcode
    <2>5. f.opcode \in {0, 28}
        BY <2>1, <2>2, <2>3, <2>4
    <2> QED
        BY <1>1, <1>3, <2>5 DEF WritebackDestination, destination_index
<1> QED
    BY <1>2, <1>3

\* An instruction that does not complete writes nothing to HI/LO.
LEMMA IncompleteWritesNothing ==
    ASSUME ~execute.complete
    PROVE  DOMAIN execute.hilo = {}
    BY DEF execute, Execute

\* The general registers after an edge, and what is pending then.
LEMMA RegisterClock ==
    ASSUME CoreInv, RegistersShaped, CoreClock(run)
    PROVE  /\ gprs_q' = IF state = "WRITEBACK" /\ writeback_pending_q
                           /\ writeback_destination_q # 0
                        THEN [gprs_q EXCEPT ![writeback_destination_q] = writeback_value_q]
                        ELSE gprs_q
           /\ execute_done /\ execute.commit =>
                  /\ writeback_pending_q'
                  /\ writeback_destination_q' = execute.destination
                  /\ execute.destination = destination_index
                  /\ execute.destination \in GprIndex
                  /\ writeback_value_q' = [lo |-> execute.scalar,
                                           up |-> ReadGpr(destination_index).up]
           /\ ~(execute_done /\ execute.commit) => ~writeback_pending_q'
<1>1. /\ RetirementClock /\ WritebackClock /\ CommitNeverSuppressed /\ ControlTypeOK
    BY DEF CoreClock, CoreInv
<1>2. state = "WRITEBACK" => ~commit_seen_q
    BY <1>1 DEF CommitNeverSuppressed
<1>3. commit_accepted <=> state = "WRITEBACK" /\ writeback_pending_q
    BY <1>2 DEF commit_accepted, commit
<1>4. writeback_pending_q => writeback_done
    BY <1>1 DEF CommitNeverSuppressed
<1>5. ASSUME execute_done, execute.commit
      PROVE  execute.destination = destination_index /\ execute.destination \in GprIndex
    <2>1. execute.destination = destination_index
        BY <1>5, DestinationIsEncoded DEF execute_done
    <2>2. destination_index \in GprIndex
        BY <1>1, FieldRange DEF destination_index, ControlTypeOK
    <2> QED
        BY <2>1, <2>2
<1>6. gprs_q' = IF state = "WRITEBACK" /\ writeback_pending_q /\ writeback_destination_q # 0
                THEN [gprs_q EXCEPT ![writeback_destination_q] = writeback_value_q]
                ELSE gprs_q
    BY <1>1, <1>3 DEF WritebackClock
<1>7. CASE execute_done /\ execute.commit
    BY <1>1, <1>5, <1>6, <1>7 DEF RetirementClock
<1>8. CASE ~(execute_done /\ execute.commit)
    <2>1. execute_done => ~writeback_pending_q'
        BY <1>1, <1>8 DEF RetirementClock
    <2>2. ~execute_done => ~writeback_pending_q'
        BY <1>1, <1>4 DEF RetirementClock
    <2> QED
        BY <1>6, <1>8, <2>1, <2>2
<1> QED
    BY <1>7, <1>8

\* The word in flight: sampled when the bus takes the request, kept through the
\* response, the fetch path, the instruction register and DECODE, and gone when
\* execution completes.
LEMMA WordClock ==
    ASSUME CoreInv, ClockEdge
    PROVE  /\ FetchAccepted(TRUE, fetch_instruction_ready) =>
                  /\ state = "FETCH_REQUEST"
                  /\ InFlightWord = NoPayload
                  /\ InFlightWord' = [k \in 0 .. 3 |-> storage[pc_q + k]]
                  /\ \A k \in 0 .. 3 : pc_q + k \in 0 .. SIZE_BYTES - 1
           /\ execute_done => InFlightWord' = NoPayload
           /\ state = "EXECUTE" => InFlightWord = instruction_q
           /\ ~FetchAccepted(TRUE, fetch_instruction_ready) /\ ~execute_done =>
                  InFlightWord' = InFlightWord
           /\ Machine!Store
<1> DEFINE ready == fetch_instruction_ready
           accepted == FetchAccepted(TRUE, ready)
           taken == ResponseAccepted(TRUE, ready)
<1>1. /\ CoreClock(run) /\ ControlClock /\ TargetClock(ready, bd)
      /\ ControlTypeOK /\ FetchBusInv /\ PhaseFollowsFetch /\ FetchesAtPc
      /\ ready \in BOOLEAN /\ bd \in Backdoor /\ FetchInOnePlace'
    BY CoreIsPolite, ClockPhaseFollowsFetch
       DEF ClockEdge, CoreClock, CoreInv, PhaseFollowsFetch
<1>2. /\ accepted => /\ LowWord(rsp_rdata_q)' = [k \in 0 .. 3 |-> storage[address_q + k]]
                     /\ \A k \in 0 .. 3 : address_q + k \in 0 .. SIZE_BYTES - 1
      /\ ~accepted => rsp_rdata_q' = rsp_rdata_q
      /\ Machine!Store
    BY <1>1, FetchData DEF Machine!Store
<1>3. /\ request_accepted_q' <=> accepted
      /\ response_expected_q' <=> (~taken /\ (response_expected_q \/ request_accepted_q))
      /\ instruction_valid_q' <=> (taken \/ (instruction_valid_q /\ ~ready))
      /\ accepted => pending_q
      /\ taken => response_expected_q \/ request_accepted_q
    BY <1>1, PathClock
<1>4. /\ state = "FETCH_REQUEST" =>
             state' = IF accepted THEN "FETCH_RESPONSE" ELSE "FETCH_REQUEST"
      /\ state = "FETCH_RESPONSE" =>
             state' = IF instruction_valid_q THEN "DECODE" ELSE "FETCH_RESPONSE"
      /\ state = "DECODE" => state' = "EXECUTE"
      /\ state = "EXECUTE" =>
             state' = IF execute_done THEN "WRITEBACK" ELSE "EXECUTE"
      /\ state = "WRITEBACK" => state' = "FETCH_REQUEST"
      /\ execute_done => state = "EXECUTE"
    BY <1>1, PhaseClock DEF execute_done
<1>5. /\ fetched_q' = IF taken THEN LowWord(rsp_rdata_q) ELSE fetched_q
      /\ instruction_q' = IF state = "FETCH_RESPONSE" /\ instruction_valid_q THEN fetched_q
                          ELSE instruction_q
    BY <1>1 DEF CoreClock, FetchClock, ResponseClock, fetch_response_done
<1>6. ready <=> state = "FETCH_RESPONSE"
    BY DEF fetch_instruction_ready
<1>7. ~accepted => LowWord(rsp_rdata_q)' = LowWord(rsp_rdata_q)
    BY <1>2 DEF LowWord
<1> HIDE DEF ready, accepted, taken
<1>8. CASE state = "FETCH_REQUEST"
  <2>1. /\ ~request_accepted_q /\ ~response_expected_q /\ ~instruction_valid_q
        /\ InFlightWord = NoPayload
      BY <1>1, <1>8 DEF PhaseFollowsFetch, InFlightWord
  <2>2. CASE accepted
    <3>1. request_accepted_q' /\ ~instruction_valid_q' /\ state' = "FETCH_RESPONSE"
        BY <1>1, <1>3, <1>4, <1>8, <2>2 DEF FetchInOnePlace
    <3>2. InFlightWord' = LowWord(rsp_rdata_q)'
        BY <3>1 DEF InFlightWord
    <3>3. address_q = pc_q /\ ~execute_done
        BY <1>1, <1>3, <1>4, <1>8, <2>2 DEF FetchesAtPc
    <3> QED
        BY <1>2, <1>8, <2>1, <2>2, <3>2, <3>3 DEF accepted, ready
  <2>3. CASE ~accepted
    <3>1. InFlightWord' = NoPayload
        BY <1>3, <1>4, <1>8, <2>1, <2>3 DEF InFlightWord
    <3> QED
        BY <1>2, <1>4, <1>8, <2>1, <2>3, <3>1 DEF accepted, ready
  <2> QED
      BY <2>2, <2>3
<1>9. CASE state = "FETCH_RESPONSE"
  <2>1. ~accepted /\ ~execute_done
      BY <1>1, <1>3, <1>4, <1>9 DEF PhaseFollowsFetch
  <2>2. CASE instruction_valid_q
    <3>1. /\ ~request_accepted_q /\ ~response_expected_q /\ ~taken
          /\ InFlightWord = fetched_q
        BY <1>1, <1>3, <2>2 DEF PhaseFollowsFetch, FetchInOnePlace, InFlightWord
    <3>2. InFlightWord' = fetched_q
        BY <1>3, <1>4, <1>5, <1>6, <1>9, <2>1, <2>2, <3>1 DEF InFlightWord
    <3> QED
        BY <1>2, <1>9, <2>1, <3>1, <3>2 DEF accepted, ready
  <2>3. CASE ~instruction_valid_q
    <3>1. InFlightWord = LowWord(rsp_rdata_q)
        BY <1>1, <1>9, <2>3 DEF PhaseFollowsFetch, InFlightWord
    <3>2. state' = "FETCH_RESPONSE"
        BY <1>4, <1>9, <2>3
    <3>3. CASE taken
      <4>1. /\ ~request_accepted_q' /\ ~response_expected_q' /\ instruction_valid_q'
            /\ fetched_q' = LowWord(rsp_rdata_q)
          BY <1>3, <1>5, <2>1, <3>3
      <4>2. InFlightWord' = LowWord(rsp_rdata_q)
          BY <3>2, <4>1 DEF InFlightWord
      <4> QED
          BY <1>2, <1>9, <2>1, <3>1, <4>2 DEF accepted, ready
    <3>4. CASE ~taken
      <4>1. response_expected_q' /\ ~instruction_valid_q'
          BY <1>1, <1>3, <1>9, <2>3, <3>4 DEF PhaseFollowsFetch, FetchInOnePlace
      <4>2. InFlightWord' = LowWord(rsp_rdata_q)'
          BY <3>2, <4>1 DEF InFlightWord
      <4> QED
          BY <1>2, <1>7, <1>9, <2>1, <3>1, <4>2 DEF accepted, ready
    <3> QED
        BY <3>3, <3>4
  <2> QED
      BY <2>2, <2>3
<1>10. CASE state \in {"DECODE", "EXECUTE", "WRITEBACK"}
  <2>1. /\ ~pending_q /\ ~request_accepted_q /\ ~response_expected_q
        /\ ~instruction_valid_q
      BY <1>1, <1>10 DEF PhaseFollowsFetch
  <2>2. /\ ~accepted /\ ~request_accepted_q' /\ ~response_expected_q'
        /\ ~instruction_valid_q'
      BY <1>3, <2>1
  <2>3. instruction_q' = instruction_q
      BY <1>5, <1>10
  <2>4. /\ InFlightWord = IF state \in {"DECODE", "EXECUTE"} THEN instruction_q
                          ELSE NoPayload
        /\ InFlightWord' = IF state' \in {"DECODE", "EXECUTE"} THEN instruction_q
                           ELSE NoPayload
      BY <2>1, <2>2, <2>3 DEF InFlightWord
  <2> QED
      BY <1>2, <1>4, <1>10, <2>2, <2>4 DEF accepted, ready
<1> QED
    BY <1>1, <1>8, <1>9, <1>10 DEF ControlTypeOK, Phase

\* In EXECUTE no result is pending, and the execute block computes the effect of the
\* word in flight.
LEMMA EffectIsExecute ==
    ASSUME CoreInv, state = "EXECUTE", InFlightWord = instruction_q
    PROVE  Machine!Effect = execute
<1> DEFINE f == Fields(instruction_q)
<1>1. /\ operation_q = Decode(instruction_q) /\ ~writeback_pending_q
      /\ instruction_q \in Word
    BY DEF CoreInv, CommitNeverSuppressed, ControlTypeOK
<1>2. \A r \in 1 .. 31 : ArchitecturalGprs[r] = gprs_q[r]
    BY <1>1 DEF ArchitecturalGprs
<1>3. f.rs \in 0 .. 31 /\ f.rt \in 0 .. 31
    BY <1>1, FieldRange DEF GprIndex
<1>4. \A r \in 0 .. 31 : Machine!Read(r) = ReadGpr(r)
  <2> TAKE r \in 0 .. 31
  <2>1. CASE r = 0
      BY <2>1 DEF Machine!Read, ReadGpr, ZeroGpr
  <2>2. CASE r # 0
    <3>1. r \in 1 .. 31
        BY <2>2
    <3> QED
        BY <1>2, <2>2, <3>1 DEF Machine!Read, ReadGpr
  <2> QED
      BY <2>1, <2>2
<1>5. Machine!Read(f.rs) = ReadGpr(f.rs) /\ Machine!Read(f.rt) = ReadGpr(f.rt)
    BY <1>3, <1>4
<1> QED
    BY <1>1, <1>5 DEF Machine!Effect, execute

\* The registers with the pending result change when an instruction completes, by its
\* result alone, and not when the result is committed.
LEMMA ArchitecturalClock ==
    ASSUME CoreInv, RegistersShaped, CoreClock(run)
    PROVE  /\ ~execute_done => ArchitecturalGprs' = ArchitecturalGprs
           /\ execute_done =>
                  ArchitecturalGprs' =
                      IF execute.commit /\ execute.destination # 0
                      THEN [ArchitecturalGprs EXCEPT ![execute.destination].lo = execute.scalar]
                      ELSE ArchitecturalGprs
<1>1. /\ writeback_pending_q => state = "WRITEBACK" /\ ~execute_done
      /\ gprs_q = [r \in GprIndex |-> gprs_q[r]]
      /\ \A r \in GprIndex : Lanes(gprs_q[r])
    BY DEF CoreInv, CommitNeverSuppressed, RegistersShaped, execute_done
<1>2. CASE writeback_pending_q
  <2>1. ~writeback_pending_q' /\ ~execute_done
      BY <1>1, <1>2, RegisterClock
  <2>2. \A r \in 1 .. 31 : gprs_q'[r] = IF r = writeback_destination_q
                                        THEN writeback_value_q ELSE gprs_q[r]
    <3>1. writeback_destination_q \in GprIndex
        BY <1>2 DEF RegistersShaped
    <3>2. CASE writeback_destination_q # 0
      <4>1. gprs_q' = [gprs_q EXCEPT ![writeback_destination_q] = writeback_value_q]
          BY <1>1, <1>2, <3>2, RegisterClock
      <4> QED
          BY <1>1, <3>1, <4>1 DEF GprIndex
    <3>3. CASE writeback_destination_q = 0
      <4>1. gprs_q' = gprs_q
          BY <3>3, RegisterClock
      <4> QED
          BY <3>3, <4>1
    <3> QED
        BY <3>2, <3>3
  <2>3. ArchitecturalGprs' = ArchitecturalGprs
      BY <1>2, <2>1, <2>2 DEF ArchitecturalGprs
  <2> QED
      BY <2>1, <2>3
<1>3. CASE ~writeback_pending_q /\ ~(execute_done /\ execute.commit)
  <2>1. ~writeback_pending_q' /\ gprs_q' = gprs_q
      BY <1>3, RegisterClock
  <2>2. ArchitecturalGprs' = ArchitecturalGprs
      BY <1>3, <2>1 DEF ArchitecturalGprs
  <2> QED
      BY <1>3, <2>2
<1>4. CASE ~writeback_pending_q /\ execute_done /\ execute.commit
  <2> DEFINE d == execute.destination
             x == execute.scalar
  <2>1. /\ writeback_pending_q' /\ writeback_destination_q' = d
        /\ d = destination_index /\ d \in GprIndex
        /\ writeback_value_q' = [lo |-> x, up |-> ReadGpr(d).up]
        /\ gprs_q' = gprs_q
      BY <1>4, RegisterClock
  <2> HIDE DEF d, x
  <2>2. /\ ArchitecturalGprs = [r \in 1 .. 31 |-> gprs_q[r]]
        /\ ArchitecturalGprs' = [r \in 1 .. 31 |-> IF r = d THEN [lo |-> x, up |-> ReadGpr(d).up]
                                                   ELSE gprs_q[r]]
      BY <1>4, <2>1 DEF ArchitecturalGprs
  <2>3. CASE d = 0
    <3>1. ArchitecturalGprs' = ArchitecturalGprs
        BY <2>2, <2>3
    <3> QED
        BY <1>4, <2>3, <3>1 DEF d
  <2>4. CASE d # 0
    <3>1. d \in 1 .. 31 /\ d \in GprIndex /\ ReadGpr(d) = gprs_q[d]
        BY <2>1, <2>4 DEF GprIndex, ReadGpr
    <3>2. gprs_q[d] = [lo |-> gprs_q[d].lo, up |-> gprs_q[d].up]
        BY <1>1, <3>1 DEF Lanes
    <3>3. [gprs_q[d] EXCEPT !.lo = x] = [lo |-> x, up |-> gprs_q[d].up]
        BY <3>2
    <3>4. [ArchitecturalGprs EXCEPT ![d].lo = x]
              = [r \in 1 .. 31 |-> IF r = d THEN [gprs_q[d] EXCEPT !.lo = x] ELSE gprs_q[r]]
        BY <2>2, <3>1
    <3>5. ArchitecturalGprs' = [ArchitecturalGprs EXCEPT ![d].lo = x]
        BY <2>2, <3>1, <3>3, <3>4
    <3> QED
        BY <1>4, <2>4, <3>5 DEF d, x
  <2> QED
      BY <2>3, <2>4
<1> QED
    BY <1>2, <1>3, <1>4

\* The storage takes a pending result whole, at one edge, and nothing else.
LEMMA SettledClock ==
    ASSUME CoreInv, RegistersShaped, CoreClock(run)
    PROVE  /\ SettledGprs' \in {SettledGprs, ArchitecturalGprs}
           /\ execute_done => SettledGprs' = ArchitecturalGprs
           /\ ~writeback_pending_q => SettledGprs' = SettledGprs /\ SettledGprs = ArchitecturalGprs
<1>1. writeback_pending_q => ~execute_done
    BY DEF CoreInv, CommitNeverSuppressed, execute_done
<1>2. CASE writeback_pending_q
  <2>1. ~writeback_pending_q'
      BY <1>1, <1>2, RegisterClock
  <2>2. SettledGprs' = ArchitecturalGprs'
      BY <2>1 DEF SettledGprs, ArchitecturalGprs
  <2>3. ArchitecturalGprs' = ArchitecturalGprs
      BY <1>1, <1>2, ArchitecturalClock
  <2> QED
      BY <1>1, <1>2, <2>2, <2>3
<1>3. CASE ~writeback_pending_q
  <2>1. gprs_q' = gprs_q
      BY <1>3, RegisterClock
  <2>2. SettledGprs' = SettledGprs /\ SettledGprs = ArchitecturalGprs
      BY <1>3, <2>1 DEF SettledGprs, ArchitecturalGprs
  <2> QED
      BY <2>2
<1> QED
    BY <1>2, <1>3

\* Every edge with reset released is a step of the machine.
LEMMA MachineStep ==
    ASSUME CoreInv, RegistersShaped, ClockEdge
    PROVE  Machine!Next
<1> DEFINE accepted == FetchAccepted(TRUE, fetch_instruction_ready)
<1>1. /\ CoreClock(run) /\ Machine!Store /\ HiLoClock
      /\ hilo_q = [n \in HiLo |-> hilo_q[n]]
      /\ pc_q' = IF execute_done THEN (pc_q + 4) % PC_SPAN ELSE pc_q
      /\ state \in Phase
    BY WordClock DEF ClockEdge, CoreClock, PcClock, RegistersShaped, CoreInv, ControlTypeOK
<1>2. ~execute_done => hilo_q' = hilo_q
  <2>1. CASE state # "EXECUTE"
      BY <1>1, <2>1 DEF HiLoClock
  <2>2. CASE state = "EXECUTE" /\ ~execute_done
    <3>1. DOMAIN execute.hilo = {}
        BY <2>2, IncompleteWritesNothing DEF execute_done
    <3>2. hilo_q' = [n \in HiLo |-> hilo_q[n]]
        BY <1>1, <2>2, <3>1 DEF HiLoClock
    <3> QED
        BY <1>1, <3>2
  <2> QED
      BY <2>1, <2>2
<1> HIDE DEF accepted
<1>3. CASE accepted
  <2>1. /\ state = "FETCH_REQUEST" /\ InFlightWord = NoPayload
        /\ InFlightWord' = [k \in 0 .. 3 |-> storage[pc_q + k]]
        /\ \A k \in 0 .. 3 : pc_q + k \in 0 .. SIZE_BYTES - 1
      BY <1>3, WordClock DEF accepted
  <2>2. ~execute_done
      BY <2>1 DEF execute_done
  <2>3. ArchitecturalGprs' = ArchitecturalGprs
      BY <1>1, <2>2, ArchitecturalClock
  <2>4. Machine!Fetch
      BY <1>1, <1>2, <2>1, <2>2, <2>3 DEF Machine!Fetch
  <2>5. ~writeback_pending_q
      BY <2>1 DEF CoreInv, CommitNeverSuppressed
  <2>6. SettledGprs = ArchitecturalGprs /\ SettledGprs' = SettledGprs
      BY <1>1, <2>5, SettledClock
  <2> QED
      BY <2>4, <2>6 DEF Machine!Next
<1>4. CASE execute_done
  <2>1. /\ state = "EXECUTE" /\ execute.complete
        /\ InFlightWord = instruction_q /\ InFlightWord' = NoPayload
      BY <1>4, WordClock DEF execute_done
  <2>2. /\ instruction_q \in Word /\ operation_q = Decode(instruction_q)
      BY <2>1 DEF CoreInv, ControlTypeOK
  <2>3. InFlightWord # NoPayload /\ Decode(InFlightWord) # "NONE"
      BY <2>1, <2>2, NoneNeverCompletes, NoPayloadAssumption
  <2>4. Machine!Effect = execute
      BY <2>1, EffectIsExecute
  <2>5. hilo_q' = Machine!HiLoAfter
      BY <1>1, <2>1, <2>4 DEF HiLoClock, Machine!HiLoAfter
  <2>6. ArchitecturalGprs' = Machine!GprAfter
      BY <1>1, <1>4, <2>4, ArchitecturalClock DEF Machine!GprAfter
  <2>7. Machine!Step
      BY <1>1, <1>4, <2>1, <2>3, <2>5, <2>6 DEF Machine!Step
  <2>8. SettledGprs' = ArchitecturalGprs
      BY <1>1, <1>4, SettledClock
  <2> QED
      BY <2>7, <2>8 DEF Machine!Next
<1>5. CASE ~accepted /\ ~execute_done
  <2>1. InFlightWord' = InFlightWord
      BY <1>5, WordClock DEF accepted
  <2>2. ArchitecturalGprs' = ArchitecturalGprs
      BY <1>1, <1>5, ArchitecturalClock
  <2>3. Machine!Idle
      BY <1>1, <1>2, <1>5, <2>1, <2>2 DEF Machine!Idle
  <2>4. SettledGprs' \in {SettledGprs, ArchitecturalGprs}
      BY <1>1, <1>5, SettledClock
  <2> QED
      BY <2>3, <2>4 DEF Machine!Next
<1> QED
    BY <1>3, <1>4, <1>5

\* An edge with reset asserted is a reset of the machine: in EXECUTE the HI/LO write
\* goes through, in WRITEBACK the pending result is lost.
LEMMA MachineReset ==
    ASSUME CoreInv, RegistersShaped, ResetEdge
    PROVE  Machine!Next
<1>1. /\ HiLoClock /\ storage' = storage /\ pc_q' \in StartPcs
      /\ InFlightWord' = NoPayload
    BY DEF ResetEdge, RamReset, CoreReset, FetchReset, InFlightWord
<1>2. SettledGprs' = SettledGprs /\ ArchitecturalGprs' = SettledGprs
  <2>1. gprs_q' = gprs_q /\ ~writeback_pending_q'
      BY DEF ResetEdge, CoreReset
  <2> QED
      BY <2>1 DEF SettledGprs, ArchitecturalGprs
<1>3. hilo_q' = hilo_q \/ (InFlightWord # NoPayload /\ hilo_q' = Machine!HiLoAfter)
  <2>1. CASE state = "EXECUTE"
    <3>1. /\ instruction_q \in Word
          /\ ~request_accepted_q /\ ~response_expected_q /\ ~instruction_valid_q
        BY <2>1 DEF CoreInv, PhaseFollowsFetch, ControlTypeOK
    <3>2. InFlightWord = instruction_q
        BY <2>1, <3>1 DEF InFlightWord
    <3>3. InFlightWord # NoPayload
        BY <3>1, <3>2, NoPayloadAssumption
    <3>4. hilo_q' = Machine!HiLoAfter
        BY <1>1, <2>1, <3>2, EffectIsExecute DEF HiLoClock, Machine!HiLoAfter
    <3> QED
        BY <3>3, <3>4
  <2>2. CASE state # "EXECUTE"
      BY <1>1, <2>2 DEF HiLoClock
  <2> QED
      BY <2>1, <2>2
<1>4. Machine!Reset
    BY <1>1, <1>2, <1>3 DEF Machine!Reset
<1> QED
    BY <1>4 DEF Machine!Next

\* Power-up is an initial state of the machine.
LEMMA MachineInit ==
    ASSUME Init
    PROVE  Machine!Init
<1>1. /\ storage \in PowerUpStorage /\ pc_q \in StartPcs /\ hilo_q \in PowerUpHiLo
      /\ gprs_q \in PowerUpGprs /\ ~writeback_pending_q
    BY DEF Init, RamInit, CoreInit
<1>2. InFlightWord = NoPayload
    BY DEF Init, CoreInit, FetchInit, ResponseInit, InFlightWord
<1>3. /\ ArchitecturalGprs \in {[r \in 1 .. 31 |-> g[r]] : g \in PowerUpGprs}
      /\ SettledGprs = ArchitecturalGprs
    BY <1>1 DEF ArchitecturalGprs, SettledGprs
<1> QED
    BY <1>1, <1>2, <1>3 DEF Machine!Init

\* Every behaviour of the core and its RAM is one of the instruction-level machine
\* (r5900_core.sv:86-155): however the harness rewrites the program, raises run_i and
\* resets, each instruction is read at one instant and takes effect at one instant.
THEOREM CoreImplementsMachine == Spec => ImplementsMachine
<1>1. Init => RegistersTyped /\ Machine!Init
    BY InitTyped, MachineInit
<1>2. /\ CoreInv /\ RegistersTyped /\ [Next]_vars => RegistersTyped'
      /\ RegistersTyped => RegistersShaped
    BY NextTyped, TypedShaped
<1>3. CoreInv /\ RegistersShaped /\ [Next]_vars => [Machine!Next]_Machine!vars
  <2> SUFFICES ASSUME CoreInv, RegistersShaped, [Next]_vars
               PROVE  [Machine!Next]_Machine!vars
      OBVIOUS
  <2>1. CASE ResetEdge
      BY <2>1, MachineReset
  <2>2. CASE ClockEdge
      BY <2>2, MachineStep
  <2>3. CASE UNCHANGED vars
    <3>1. UNCHANGED <<ramVars, coreVars>>
        BY <2>3
    <3>2. InFlightWord' = InFlightWord
        BY <3>1 DEF InFlightWord, LowWord
    <3>3. ArchitecturalGprs' = ArchitecturalGprs /\ SettledGprs' = SettledGprs
        BY <3>1 DEF ArchitecturalGprs, SettledGprs
    <3> QED
        BY <3>1, <3>2, <3>3 DEF Machine!vars
  <2> QED
      BY <2>1, <2>2, <2>3 DEF Next
<1> QED
    BY <1>1, <1>2, <1>3, CoreInvariant, PTL DEF Spec, ImplementsMachine, Machine!Spec
=============================================================================
