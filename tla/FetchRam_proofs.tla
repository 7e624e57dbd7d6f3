--------------------------- MODULE FetchRam_proofs ---------------------------
(***************************************************************************)
(* Proofs about FetchRam, for every storage, latency and set of fetch        *)
(* addresses.  The argument is FetchBus_proofs'; what is left is that this   *)
(* caller starts a fetch only when the path is ready.  The refinement of     *)
(* InstructionFetch rests on FetchData and has one case per stage.           *)
(***************************************************************************)
EXTENDS FetchRam, FetchBus_proofs

USE DEF ramVars, checkerVars, requestVars, responseVars, fetchVars, wires, vars

\* Power-up satisfies the invariant.
LEMMA InitFetchInv == Init => FetchInv
    BY FetchBusInit DEF Init, FetchInv, FetchBusInv, TypeOK, CallerIsPolite

\* The wires keep their types, and the caller stays polite.
LEMMA DriveType ==
    ASSUME Drive
    PROVE  /\ rst_n' \in BOOLEAN
           /\ start' \in BOOLEAN
           /\ start_pc' \in StartPcs
           /\ instruction_ready' \in BOOLEAN
           /\ bd' \in Backdoors
           /\ CallerIsPolite'
    BY DEF Drive, CallerIsPolite

\* Every step preserves the invariant.
LEMMA NextFetchInv == FetchInv /\ [Next]_vars => FetchInv'
<1> SUFFICES ASSUME FetchInv, [Next]_vars PROVE FetchInv'
    OBVIOUS
<1>1. CASE ResetEdge
    <2>1. FetchBusInv' /\ Drive
        BY <1>1, FetchBusReset DEF ResetEdge, FetchInv
    <2> QED
        BY <2>1, DriveType DEF FetchInv, FetchBusInv, TypeOK
<1>2. CASE ClockEdge
    <2>1. /\ TargetClock(instruction_ready, bd) /\ Drive /\ rst_n
          /\ FetchClock(start, start_pc, instruction_ready)
        BY <1>2 DEF ClockEdge
    <2>2. start_pc \in Nat /\ bd \in Backdoor
        BY StartPcsAssumption, BackdoorsAssumption DEF FetchInv, TypeOK
    <2>3. start \in BOOLEAN /\ instruction_ready \in BOOLEAN /\ rst_n = TRUE
        BY <2>1 DEF FetchInv, TypeOK
    <2>4. start => FetchStartReady(TRUE, instruction_ready)
        BY <2>3 DEF FetchInv, CallerIsPolite
    <2>5. FetchBusInv'
        BY <2>1, <2>2, <2>3, <2>4, FetchBusClock DEF FetchInv
    <2> QED
        BY <2>1, <2>5, DriveType DEF FetchInv, FetchBusInv, TypeOK
<1>3. CASE UNCHANGED vars
    <2>1. FetchBusInv'
        BY <1>3, FetchBusStutter DEF FetchInv
    <2>2. CallerIsPolite'
        BY <1>3 DEF FetchInv, CallerIsPolite, FetchStartReady, InstructionSlotAvailable
    <2> QED
        BY <1>3, <2>1, <2>2 DEF FetchInv, FetchBusInv, TypeOK
<1> QED
    BY <1>1, <1>2, <1>3 DEF Next

\* The inductive invariant holds for ever.
THEOREM FetchInvariant == Spec => []FetchInv
<1>1. Init => FetchInv
    BY InitFetchInv
<1>2. FetchInv /\ [Next]_vars => FetchInv'
    BY NextFetchInv
<1> QED
    BY <1>1, <1>2, PTL DEF Spec

-----------------------------------------------------------------------------
(* What it implies. *)

\* Every register and wire of the composition keeps its type.
THEOREM FetchTypeCorrect == Spec => []TypeOK
<1>1. FetchInv => TypeOK
    BY DEF FetchInv
<1> QED
    BY <1>1, FetchInvariant, PTL

\* The fetch path, the checker and the RAM agree about what is in flight.
THEOREM FetchViewsAgree == Spec => []InFlightViewsAgree
<1>1. FetchInv => InFlightViewsAgree
    BY DEF FetchInv, FetchBusInv
<1> QED
    BY <1>1, FetchInvariant, PTL

\* No fatal assertion of the fetch path or of the bus protocol checker fires for a
\* polite caller.
THEOREM FetchNeverFatal == Spec => []NoFetchFatal
<1>1. FetchInv => NoFetchFatal
    <2> SUFFICES ASSUME FetchInv, rst_n
                 PROVE  FetchBusAssertions(start, instruction_ready)
        BY DEF NoFetchFatal
    <2>1. /\ start \in BOOLEAN /\ instruction_ready \in BOOLEAN /\ rst_n = TRUE
          /\ FetchBusInv
        BY DEF FetchInv, TypeOK
    <2>2. start => FetchStartReady(TRUE, instruction_ready)
        BY <2>1 DEF FetchInv, CallerIsPolite
    <2> QED
        BY <2>1, <2>2, FetchBusNeverFatal
<1> QED
    BY <1>1, FetchInvariant, PTL
-----------------------------------------------------------------------------
(* The path and the RAM implement InstructionFetch. *)

\* An edge with reset released, as the registers see it.
LEMMA FetchEdge ==
    ASSUME FetchInv, ClockEdge
    PROVE  LET accepted == FetchAccepted(TRUE, instruction_ready)
               taken == ResponseAccepted(TRUE, instruction_ready)
           IN  /\ pending_q' <=> start \/ (pending_q /\ ~accepted)
               /\ address_q' = IF start THEN start_pc ELSE address_q
               /\ request_accepted_q' <=> accepted
               /\ response_expected_q' <=>
                     ~taken /\ (response_expected_q \/ request_accepted_q)
               /\ instruction_valid_q' <=>
                     taken \/ (instruction_valid_q /\ ~instruction_ready)
               /\ fetched_q' = IF taken THEN LowWord(rsp_rdata_q) ELSE fetched_q
               /\ accepted => /\ pending_q
                              /\ LowWord(rsp_rdata_q)' = Fetch!WordAt(address_q)
                              /\ \A k \in 0 .. 3 : address_q + k \in 0 .. SIZE_BYTES - 1
               /\ ~accepted => rsp_rdata_q' = rsp_rdata_q
               /\ taken => response_expected_q \/ request_accepted_q
               /\ start => /\ ~pending_q /\ ~request_accepted_q /\ ~response_expected_q
                           /\ ~instruction_valid_q \/ instruction_ready
               /\ start_pc \in StartPcs
               /\ Fetch!Store
<1> DEFINE accepted == FetchAccepted(TRUE, instruction_ready)
           taken == ResponseAccepted(TRUE, instruction_ready)
<1>1. /\ FetchBusInv /\ instruction_ready \in BOOLEAN /\ start_pc \in StartPcs
      /\ bd \in Backdoor /\ rst_n = TRUE /\ TargetClock(instruction_ready, bd)
    BY BackdoorsAssumption DEF FetchInv, TypeOK, ClockEdge
<1>2. /\ RequestClock(start, start_pc, accepted)
      /\ request_accepted_q' = accepted
      /\ ResponseClock(instruction_ready, taken)
    BY DEF ClockEdge, FetchClock
<1>3. /\ accepted => /\ LowWord(rsp_rdata_q)' = Fetch!WordAt(address_q)
                     /\ \A k \in 0 .. 3 : address_q + k \in 0 .. SIZE_BYTES - 1
      /\ ~accepted => rsp_rdata_q' = rsp_rdata_q
      /\ Fetch!Store
    BY <1>1, FetchData DEF Fetch!WordAt, Fetch!Store
<1>4. /\ accepted => pending_q
      /\ taken => response_expected_q \/ request_accepted_q
    BY <1>1, FetchHandshakes
<1>5. start => /\ ~pending_q /\ ~request_accepted_q /\ ~response_expected_q
               /\ ~instruction_valid_q \/ instruction_ready
    BY DEF FetchInv, CallerIsPolite, FetchStartReady, InstructionSlotAvailable
<1>6. /\ pending_q' <=> start \/ (pending_q /\ ~accepted)
      /\ address_q' = IF start THEN start_pc ELSE address_q
    BY <1>2 DEF RequestClock
<1>7. /\ response_expected_q' <=> ~taken /\ (response_expected_q \/ request_accepted_q)
      /\ instruction_valid_q' <=> taken \/ (instruction_valid_q /\ ~instruction_ready)
      /\ fetched_q' = IF taken THEN LowWord(rsp_rdata_q) ELSE fetched_q
    BY <1>2 DEF ResponseClock
<1> HIDE DEF accepted, taken
<1>8. request_accepted_q' <=> accepted
    BY <1>2
<1> QED
    BY <1>1, <1>3, <1>4, <1>5, <1>6, <1>7, <1>8 DEF accepted, taken

\* Every edge with reset released is a step of InstructionFetch.
LEMMA FetchStep ==
    ASSUME FetchInv, ClockEdge
    PROVE  Fetch!Next
<1> DEFINE accepted == FetchAccepted(TRUE, instruction_ready)
           taken == ResponseAccepted(TRUE, instruction_ready)
<1>1. FetchInOnePlace
    BY DEF FetchInv, FetchBusInv, InFlightViewsAgree
<1>2. /\ pending_q' <=> start \/ (pending_q /\ ~accepted)
      /\ address_q' = IF start THEN start_pc ELSE address_q
      /\ request_accepted_q' <=> accepted
      /\ response_expected_q' <=> ~taken /\ (response_expected_q \/ request_accepted_q)
      /\ instruction_valid_q' <=> taken \/ (instruction_valid_q /\ ~instruction_ready)
      /\ fetched_q' = IF taken THEN LowWord(rsp_rdata_q) ELSE fetched_q
      /\ accepted => /\ pending_q
                     /\ LowWord(rsp_rdata_q)' = Fetch!WordAt(address_q)
                     /\ \A k \in 0 .. 3 : address_q + k \in 0 .. SIZE_BYTES - 1
      /\ ~accepted => rsp_rdata_q' = rsp_rdata_q
      /\ taken => response_expected_q \/ request_accepted_q
      /\ start => /\ ~pending_q /\ ~request_accepted_q /\ ~response_expected_q
                  /\ ~instruction_valid_q \/ instruction_ready
      /\ start_pc \in StartPcs
      /\ Fetch!Store
    BY FetchEdge
<1>11. start_pc' \in StartPcs
    BY DEF ClockEdge, Drive
<1> HIDE DEF accepted, taken
<1>3. CASE pending_q /\ accepted
  <2>1. ~start /\ InFlightStage = "requested" /\ InFlightStage' = "sampled"
      BY <1>2, <1>3 DEF InFlightStage
  <2>2. Fetch!Sample
      BY <1>2, <1>3, <2>1 DEF Fetch!Sample
  <2> QED
      BY <1>11, <2>2 DEF Fetch!Next
<1>4. CASE pending_q /\ ~accepted
  <2>1. ~start /\ InFlightStage = "requested" /\ InFlightStage' = "requested"
      BY <1>2, <1>4 DEF InFlightStage
  <2>2. Fetch!Wait
      BY <1>2, <2>1 DEF Fetch!Wait
  <2> QED
      BY <1>11, <2>2 DEF Fetch!Next
<1>5. CASE ~pending_q /\ (request_accepted_q \/ response_expected_q) /\ taken
  <2>1. /\ ~start /\ ~accepted /\ InFlightStage = "sampled"
        /\ InFlightStage' = "delivered"
      BY <1>2, <1>5 DEF InFlightStage
  <2>2. fetched_q' = LowWord(rsp_rdata_q)
      BY <1>2, <1>5
  <2>3. Fetch!Deliver
      BY <1>2, <2>1, <2>2 DEF Fetch!Deliver
  <2> QED
      BY <1>11, <2>3 DEF Fetch!Next
<1>6. CASE ~pending_q /\ (request_accepted_q \/ response_expected_q) /\ ~taken
  <2>1. /\ ~start /\ ~accepted /\ InFlightStage = "sampled"
        /\ InFlightStage' = "sampled"
      BY <1>2, <1>6 DEF InFlightStage
  <2>2. LowWord(rsp_rdata_q)' = LowWord(rsp_rdata_q)
      BY <1>2, <2>1 DEF LowWord
  <2>3. Fetch!Wait
      BY <1>2, <2>1, <2>2 DEF Fetch!Wait
  <2> QED
      BY <1>11, <2>3 DEF Fetch!Next
<1>7. CASE ~pending_q /\ ~request_accepted_q /\ ~response_expected_q /\ start
  <2>1. /\ InFlightStage \in {"free", "delivered"} /\ InFlightStage' = "requested"
        /\ address_q' = start_pc
      BY <1>2, <1>7 DEF InFlightStage
  <2>2. Fetch!Start
      BY <1>2, <2>1 DEF Fetch!Start
  <2> QED
      BY <1>11, <2>2 DEF Fetch!Next
<1>8. CASE /\ ~pending_q /\ ~request_accepted_q /\ ~response_expected_q /\ ~start
           /\ instruction_valid_q /\ instruction_ready
  <2>1. /\ InFlightStage = "delivered" /\ InFlightStage' = "free"
        /\ address_q' = address_q
      BY <1>2, <1>8 DEF InFlightStage
  <2>2. Fetch!Take
      BY <1>2, <2>1 DEF Fetch!Take
  <2> QED
      BY <1>11, <2>2 DEF Fetch!Next
<1>9. CASE /\ ~pending_q /\ ~request_accepted_q /\ ~response_expected_q /\ ~start
           /\ instruction_valid_q /\ ~instruction_ready
  <2>1. /\ InFlightStage = "delivered" /\ InFlightStage' = "delivered"
        /\ address_q' = address_q /\ fetched_q' = fetched_q
      BY <1>2, <1>9 DEF InFlightStage
  <2>2. Fetch!Wait
      BY <1>2, <2>1 DEF Fetch!Wait
  <2> QED
      BY <1>11, <2>2 DEF Fetch!Next
<1>10. CASE /\ ~pending_q /\ ~request_accepted_q /\ ~response_expected_q /\ ~start
            /\ ~instruction_valid_q
  <2>1. /\ InFlightStage = "free" /\ InFlightStage' = "free"
        /\ address_q' = address_q
      BY <1>2, <1>10 DEF InFlightStage
  <2>2. Fetch!Wait
      BY <1>2, <2>1 DEF Fetch!Wait
  <2> QED
      BY <1>11, <2>2 DEF Fetch!Next
<1> QED
    BY <1>3, <1>4, <1>5, <1>6, <1>7, <1>8, <1>9, <1>10

\* An edge with reset asserted drops the fetch and keeps the memory.
LEMMA FetchResetStep ==
    ASSUME ResetEdge
    PROVE  Fetch!Next
<1>1. /\ storage' = storage /\ address_q' = 0
      /\ ~pending_q' /\ ~request_accepted_q' /\ ~response_expected_q'
      /\ ~instruction_valid_q'
    BY DEF ResetEdge, RamReset, FetchReset
<1>2. InFlightStage' = "free"
    BY <1>1 DEF InFlightStage
<1>3. Fetch!Reset
    BY <1>1, <1>2 DEF Fetch!Reset
<1>4. start_pc' \in StartPcs
    BY DEF ResetEdge, Drive
<1> QED
    BY <1>3, <1>4 DEF Fetch!Next

\* Every behaviour of the fetch path and the RAM is one of InstructionFetch
\* (r5900_fetch_path.sv, behavioral_system_ram.sv:142-294): the word delivered is what
\* the memory held at one instant between the start and the delivery, at the address
\* of the start, for every latency and every store of the harness meanwhile.
THEOREM FetchImplementsInstructionFetch == Spec => ImplementsInstructionFetch
<1>1. Init => Fetch!Init
  <2> SUFFICES ASSUME Init PROVE Fetch!Init
      OBVIOUS
  <2>1. /\ storage \in PowerUpStorage /\ address_q = 0 /\ start_pc \in StartPcs
        /\ ~pending_q /\ ~request_accepted_q /\ ~response_expected_q
        /\ ~instruction_valid_q
      BY DEF Init, RamInit, FetchInit, RequestInit, ResponseInit
  <2>2. InFlightStage = "free"
      BY <2>1 DEF InFlightStage
  <2> QED
      BY <2>1, <2>2 DEF Fetch!Init
<1>2. FetchInv /\ [Next]_vars => [Fetch!Next]_Fetch!vars
  <2> SUFFICES ASSUME FetchInv, [Next]_vars
               PROVE  [Fetch!Next]_Fetch!vars
      OBVIOUS
  <2>1. CASE ResetEdge
      BY <2>1, FetchResetStep
  <2>2. CASE ClockEdge
      BY <2>2, FetchStep
  <2>3. CASE UNCHANGED vars
      BY <2>3 DEF Fetch!vars, InFlightStage, LowWord
  <2> QED
      BY <2>1, <2>2, <2>3 DEF Next
<1> QED
    BY <1>1, <1>2, FetchInvariant, PTL
       DEF Spec, ImplementsInstructionFetch, Fetch!Spec
=============================================================================
