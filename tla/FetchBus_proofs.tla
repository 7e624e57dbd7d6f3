--------------------------- MODULE FetchBus_proofs ---------------------------
(***************************************************************************)
(* Proofs about the blocks that several compositions share.                *)
(*                                                                         *)
(* The system RAM alone: whatever is on its wires at an edge, its registers   *)
(* keep their types.  In particular no request that it accepts, and no         *)
(* backdoor store, reaches outside the storage.                               *)
(*                                                                         *)
(* Then the fetch path and its bus, whoever asks for instructions:   *)
(* FetchBusInv is preserved by every edge at which the caller starts a fetch  *)
(* only when the path is ready, and it implies that no fatal assertion fires. *)
(*                                                                         *)
(* The fatal assertions are about one edge, but whether they can fire        *)
(* depends on three machines that learn of a transaction at different edges. *)
(* FetchBusInv says that they agree: a fetch is in exactly one register of    *)
(* the path, the path awaits a response exactly while the RAM owes one, and   *)
(* the checker's record of a stalled transfer is what is still on the bus.   *)
(***************************************************************************)
EXTENDS FetchBus, TLAPS

-----------------------------------------------------------------------------
(* The data path stays inside the storage. *)

\* The backdoor stores bytes, and only at addresses the storage has.
LEMMA BackdoorType ==
    ASSUME NEW mem \in [0 .. SIZE_BYTES - 1 -> Byte], NEW b \in Backdoor
    PROVE  AfterBackdoor(mem, b) \in [0 .. SIZE_BYTES - 1 -> Byte]
<1>1. CASE b.write /\ BackdoorInBounds(b)
    <2>1. b.addr \in 0 .. SIZE_BYTES - 1
        BY <1>1, SizeAssumption DEF Backdoor, BackdoorInBounds
    <2>2. b.wdata \in Byte
        BY DEF Backdoor
    <2> QED
        BY <1>1, <2>1, <2>2 DEF AfterBackdoor
<1>2. CASE ~(b.write /\ BackdoorInBounds(b))
    BY <1>2 DEF AfterBackdoor
<1> QED
    BY <1>1, <1>2

\* A bus write replaces bytes by bytes of its beat.
LEMMA WriteType ==
    ASSUME NEW mem \in [0 .. SIZE_BYTES - 1 -> Byte], NEW r \in Request
    PROVE  AfterWrite(mem, r) \in [0 .. SIZE_BYTES - 1 -> Byte]
<1>1. /\ r.wdata \in [Lane -> Byte]
      /\ r.wstrb \subseteq Lane
    BY DEF Request, Beat
<1> SUFFICES ASSUME NEW a \in 0 .. SIZE_BYTES - 1
             PROVE  (IF a - r.addr \in r.wstrb THEN r.wdata[a - r.addr] ELSE mem[a]) \in Byte
    BY DEF AfterWrite
<1> QED
    BY <1>1

\* A supported request reads only bytes the storage has.
LEMMA ReadType ==
    ASSUME NEW mem \in [0 .. SIZE_BYTES - 1 -> Byte], NEW r \in Request,
           SupportedRequest(r)
    PROVE  ReadBeat(mem, r) \in Beat
<1>1. /\ r.addr \in Nat
      /\ BeatBytes(r.size) \in Nat
      /\ r.addr <= SIZE_BYTES - BeatBytes(r.size)
    BY DEF Request, SupportedRequest, BeatBytes
<1> SUFFICES ASSUME NEW lane \in Lane
             PROVE  (IF lane < BeatBytes(r.size) THEN mem[r.addr + lane] ELSE ZeroByte) \in Byte
    BY DEF ReadBeat, Beat
<1>2. CASE lane < BeatBytes(r.size)
    <2>1. r.addr + lane \in 0 .. SIZE_BYTES - 1
        BY <1>1, <1>2, SizeAssumption DEF Lane
    <2> QED
        BY <1>2, <2>1
<1>3. CASE ~(lane < BeatBytes(r.size))
    BY <1>3, ByteAssumption
<1> QED
    BY <1>2, <1>3

\* The all-zero beat is a beat.
LEMMA ZeroBeatType == ZeroBeat \in Beat
    BY ByteAssumption DEF ZeroBeat, Beat

\* What the backdoor does to the storage in one edge: nothing, or one byte.
LEMMA BackdoorStore ==
    ASSUME NEW mem \in [0 .. SIZE_BYTES - 1 -> Byte], NEW b \in Backdoor
    PROVE  \/ AfterBackdoor(mem, b) = mem
           \/ \E a \in 0 .. SIZE_BYTES - 1, v \in Byte :
                  AfterBackdoor(mem, b) = [mem EXCEPT ![a] = v]
<1>1. CASE b.write /\ BackdoorInBounds(b)
    <2>1. b.addr \in 0 .. SIZE_BYTES - 1 /\ b.wdata \in Byte
        BY <1>1, SizeAssumption DEF Backdoor, BackdoorInBounds
    <2> QED
        BY <1>1, <2>1 DEF AfterBackdoor
<1>2. CASE ~(b.write /\ BackdoorInBounds(b))
    BY <1>2 DEF AfterBackdoor
<1> QED
    BY <1>1, <1>2

-----------------------------------------------------------------------------
(* The registers keep their types. *)

\* Power-up.
LEMMA RamInitType ==
    ASSUME RamInit
    PROVE  RamTypeOK
<1>1. storage \in [0 .. SIZE_BYTES - 1 -> Byte]
    BY PowerUpAssumption DEF RamInit
<1>2. response_delay_q \in 0 .. RESPONSE_LATENCY_CYCLES
    BY LatencyAssumption DEF RamInit
<1>3. rsp_rdata_q \in Beat
    BY ZeroBeatType DEF RamInit
<1> QED
    BY <1>1, <1>2, <1>3 DEF RamInit, RamTypeOK

\* An edge with reset asserted.
LEMMA RamResetType ==
    ASSUME RamTypeOK, RamReset
    PROVE  RamTypeOK'
<1>1. storage' \in [0 .. SIZE_BYTES - 1 -> Byte]
    BY DEF RamReset, RamTypeOK
<1>2. response_delay_q' \in 0 .. RESPONSE_LATENCY_CYCLES
    BY LatencyAssumption DEF RamReset
<1>3. rsp_rdata_q' \in Beat
    BY ZeroBeatType DEF RamReset
<1> QED
    BY <1>1, <1>2, <1>3 DEF RamReset, RamTypeOK

\* An edge with reset released.  The countdown stays in range because it is nonzero
\* whenever it is counted down.
LEMMA RamClockType ==
    ASSUME RamTypeOK, response_pending_q => response_delay_q # 0,
           NEW v \in BOOLEAN, NEW r \in Request, NEW rdy \in BOOLEAN, NEW b \in Backdoor,
           RamClock(v, r, rdy, b)
    PROVE  RamTypeOK'
<1> DEFINE fire == RequestFire(v, r, rdy)
           loaded == AfterBackdoor(storage, b)
<1>1. loaded \in [0 .. SIZE_BYTES - 1 -> Byte]
    BY BackdoorType DEF RamTypeOK
<1>2. storage' \in [0 .. SIZE_BYTES - 1 -> Byte]
    <2>1. storage' = IF fire /\ r.write THEN AfterWrite(loaded, r) ELSE loaded
        BY DEF RamClock, CountdownClock
    <2>2. AfterWrite(loaded, r) \in [0 .. SIZE_BYTES - 1 -> Byte]
        BY <1>1, WriteType
    <2> HIDE DEF fire, loaded
    <2> QED
        BY <1>1, <2>1, <2>2
<1>3. rsp_rdata_q' \in Beat
    <2>1. CASE fire /\ ~r.write
        <3>1. SupportedRequest(r)
            BY <2>1 DEF RequestFire, RequestReady
        <3>2. ReadBeat(storage, r) \in Beat
            BY <3>1, ReadType DEF RamTypeOK
        <3> QED
            BY <2>1, <3>2 DEF RamClock, CountdownClock
    <2>2. CASE ~(fire /\ ~r.write)
        BY <2>2, ZeroBeatType DEF RamClock, CountdownClock, RamTypeOK
    <2> QED
        BY <2>1, <2>2
<1>4. rsp_valid_q' \in BOOLEAN /\ response_pending_q' \in BOOLEAN /\ rsp_error_q' \in BOOLEAN
    BY DEF RamClock, CountdownClock, RamTypeOK
<1>5. response_delay_q' \in 0 .. RESPONSE_LATENCY_CYCLES
    BY LatencyAssumption DEF RamClock, CountdownClock, RamTypeOK
<1> QED
    BY <1>2, <1>3, <1>4, <1>5 DEF RamTypeOK

-----------------------------------------------------------------------------
(* The fetch path. *)

USE DEF ramVars, checkerVars, requestVars, responseVars, fetchVars

-----------------------------------------------------------------------------
(* Facts about one edge with reset released. *)

\* The request half presents a well-formed request.
LEMMA FetchRequestType ==
    ASSUME FetchTypeOK
    PROVE  FetchRequest \in Request
<1>1. address_q \in Nat
    BY DEF FetchTypeOK
<1>2. {} \in SUBSET Lane
    OBVIOUS
<1> QED
    BY <1>1, <1>2, ZeroBeatType DEF FetchRequest, Request

\* The handshakes on the bus are the acceptances the path and the RAM see.
LEMMA BusWires ==
    ASSUME NEW ready \in BOOLEAN, FetchBusTypeOK
    PROVE  LET bus == FetchBus(TRUE, ready)
           IN  /\ ReqFire(bus) <=> FetchAccepted(TRUE, ready)
               /\ RspFire(bus) <=> ResponseAccepted(TRUE, ready)
               /\ RequestFire(pending_q, FetchRequest, FetchRspReady(TRUE, ready))
                      <=> FetchAccepted(TRUE, ready)
               /\ FetchRspReady(TRUE, ready) \in BOOLEAN
               /\ bus.rsp = [rdata |-> rsp_rdata_q, error |-> rsp_error_q]
               /\ bus.req = FetchRequest
               /\ bus.req_valid = pending_q
               /\ bus.rsp_valid = rsp_valid_q
               /\ bus.rsp_ready = FetchRspReady(TRUE, ready)
<1>1. FetchRspReady(TRUE, ready) \in BOOLEAN
    BY DEF FetchRspReady
<1> QED
    BY <1>1 DEF FetchBus, ReqFire, RspFire, FetchAccepted, ResponseAccepted, RequestFire

\* An accepted fetch finds nothing in flight, and a consumed response was awaited.
LEMMA FetchHandshakes ==
    ASSUME NEW ready \in BOOLEAN, FetchBusInv
    PROVE  /\ FetchAccepted(TRUE, ready) =>
                  /\ pending_q
                  /\ ~response_pending_q
                  /\ ~rsp_valid_q
           /\ ResponseAccepted(TRUE, ready) =>
                  /\ rsp_valid_q
                  /\ response_expected_q \/ request_accepted_q
           /\ rsp_valid_q /\ ~ResponseAccepted(TRUE, ready) =>
                  ~FetchRspReady(TRUE, ready)
<1>1. FetchInOnePlace /\ AwaitsWhatRamOwes
    BY DEF FetchBusInv, InFlightViewsAgree
<1> QED
    BY <1>1 DEF FetchAccepted, RequestFire, RequestReady, ResponseSlotAvailable,
                FetchRspReady, ResponseAccepted, FetchInOnePlace, AwaitsWhatRamOwes

-----------------------------------------------------------------------------
(* Power-up, reset and standing still. *)

\* Power-up satisfies the invariant.
LEMMA FetchBusInit ==
    ASSUME RamInit, CheckerInit, FetchInit
    PROVE  FetchBusInv
<1>1. RamTypeOK
    BY RamInitType
<1>2. FetchTypeOK
    BY ByteAssumption
       DEF FetchInit, RequestInit, ResponseInit, FetchTypeOK, Word, ZeroWord
<1>3. FetchBusTypeOK
    BY <1>1, <1>2 DEF CheckerInit, FetchBusTypeOK
<1> QED
    BY <1>3 DEF RamInit, CheckerInit, FetchInit, RequestInit, ResponseInit, FetchBusInv,
                InFlightViewsAgree, FetchInOnePlace, AwaitsWhatRamOwes, StalledTransfersKept

\* An edge with reset asserted establishes the invariant.
LEMMA FetchBusReset ==
    ASSUME FetchBusInv, RamReset, CheckerReset, FetchReset
    PROVE  FetchBusInv'
<1>1. RamTypeOK'
    BY RamResetType DEF FetchBusInv, FetchBusTypeOK
<1>2. FetchTypeOK'
    BY ByteAssumption DEF FetchReset, FetchTypeOK, Word, ZeroWord
<1>3. FetchBusTypeOK'
    BY <1>1, <1>2 DEF CheckerReset, FetchBusTypeOK
<1>4. InFlightViewsAgree'
    BY DEF RamReset, CheckerReset, FetchReset, InFlightViewsAgree, FetchInOnePlace,
           AwaitsWhatRamOwes
<1>5. StalledTransfersKept'
    BY DEF CheckerReset, StalledTransfersKept
<1>6. response_pending_q' <=> response_delay_q' # 0
    BY DEF RamReset
<1> QED
    BY <1>3, <1>4, <1>5, <1>6 DEF FetchBusInv

\* A step that changes nothing here preserves it.
LEMMA FetchBusStutter ==
    ASSUME FetchBusInv, UNCHANGED <<ramVars, checkerVars, fetchVars>>
    PROVE  FetchBusInv'
<1>1. RamTypeOK' /\ FetchTypeOK'
    BY DEF FetchBusInv, FetchBusTypeOK, RamTypeOK, FetchTypeOK
<1>2. FetchBusTypeOK'
    BY <1>1 DEF FetchBusInv, FetchBusTypeOK
<1>3. InFlightViewsAgree'
    BY DEF FetchBusInv, InFlightViewsAgree, FetchInOnePlace, AwaitsWhatRamOwes
<1>4. StalledTransfersKept'
    BY DEF FetchBusInv, StalledTransfersKept, FetchRequest
<1> QED
    BY <1>2, <1>3, <1>4 DEF FetchBusInv

-----------------------------------------------------------------------------
(* An edge with reset released. *)

\* The registers keep their types.
LEMMA FetchBusClockType ==
    ASSUME FetchBusInv, NEW ready \in BOOLEAN, NEW start \in BOOLEAN, NEW pc \in Nat,
           NEW b \in Backdoor, TargetClock(ready, b), FetchClock(start, pc, ready)
    PROVE  FetchBusTypeOK'
<1>1. FetchBusTypeOK /\ FetchTypeOK /\ RamTypeOK
    BY DEF FetchBusInv, FetchBusTypeOK
<1>2. RamTypeOK'
    <2>1. response_pending_q => response_delay_q # 0
        BY DEF FetchBusInv
    <2>2. pending_q \in BOOLEAN
        BY <1>1 DEF FetchTypeOK
    <2> QED
        BY <1>1, <2>1, <2>2, RamClockType, FetchRequestType, BusWires DEF TargetClock
<1>3. FetchTypeOK'
    <2>1. address_q' \in Nat
        BY <1>1 DEF FetchClock, RequestClock, FetchTypeOK
    <2>2. LowWord(rsp_rdata_q) \in Word
        BY <1>1 DEF RamTypeOK, Beat, Lane, LowWord, Word
    <2>3. fetched_q' \in Word
        BY <1>1, <2>2 DEF FetchClock, ResponseClock, FetchTypeOK
    <2>4. fetch_error_q' \in BOOLEAN
        BY <1>1 DEF FetchClock, ResponseClock, FetchTypeOK, RamTypeOK
    <2>5. /\ pending_q' \in BOOLEAN /\ request_accepted_q' \in BOOLEAN
          /\ response_expected_q' \in BOOLEAN /\ instruction_valid_q' \in BOOLEAN
        BY DEF FetchClock, RequestClock, ResponseClock, FetchAccepted
    <2> QED
        BY <2>1, <2>3, <2>4, <2>5 DEF FetchTypeOK
<1>4. outstanding_q' \in BOOLEAN /\ req_stalled_q' \in BOOLEAN /\ rsp_stalled_q' \in BOOLEAN
    BY <1>1 DEF TargetClock, CheckerClock, ReqFire, FetchBus, FetchBusTypeOK
<1> QED
    BY <1>2, <1>3, <1>4 DEF FetchBusTypeOK

\* The three views of the bus stay together.
LEMMA FetchBusClockViews ==
    ASSUME FetchBusInv, NEW ready \in BOOLEAN, NEW start \in BOOLEAN, NEW pc \in Nat,
           NEW b \in Backdoor, TargetClock(ready, b), FetchClock(start, pc, ready),
           start => FetchStartReady(TRUE, ready)
    PROVE  InFlightViewsAgree' /\ (response_pending_q' <=> response_delay_q' # 0)
<1> DEFINE accepted == FetchAccepted(TRUE, ready)
           taken == ResponseAccepted(TRUE, ready)
<1>1. /\ RamClock(pending_q, FetchRequest, FetchRspReady(TRUE, ready), b)
      /\ CheckerClock(FetchBus(TRUE, ready))
      /\ FetchBusTypeOK
    BY DEF TargetClock, FetchBusInv
<1>2. /\ rsp_valid_q' = IF accepted THEN RESPONSE_LATENCY_CYCLES = 0
                        ELSE \/ response_pending_q /\ response_delay_q = 1
                             \/ rsp_valid_q /\ ~taken
      /\ response_pending_q' = (\/ accepted /\ RESPONSE_LATENCY_CYCLES # 0
                                \/ response_pending_q /\ response_delay_q # 1)
    BY <1>1, BusWires DEF RamClock, CountdownClock, ResponseAccepted
<1>3. /\ accepted /\ ~taken => outstanding_q'
      /\ ~accepted /\ taken => ~outstanding_q'
      /\ (accepted <=> taken) => outstanding_q' = outstanding_q
    BY <1>1, BusWires DEF CheckerClock, ReqFire, RspFire, FetchAccepted, ResponseAccepted
<1>4. /\ pending_q' = (start \/ (pending_q /\ ~accepted))
      /\ request_accepted_q' = accepted
      /\ response_expected_q' = (~taken /\ (response_expected_q \/ request_accepted_q))
      /\ instruction_valid_q' = (taken \/ (instruction_valid_q /\ ~ready))
    BY DEF FetchClock, RequestClock, ResponseClock
<1>5. start => /\ ~pending_q /\ ~request_accepted_q /\ ~response_expected_q
               /\ ~instruction_valid_q \/ ready
    BY DEF FetchStartReady, InstructionSlotAvailable
<1>6. taken => ~instruction_valid_q \/ ready
    BY DEF ResponseAccepted, FetchRspReady, InstructionSlotAvailable
<1>7. /\ accepted => pending_q /\ ~response_pending_q /\ ~rsp_valid_q
      /\ taken => rsp_valid_q /\ (response_expected_q \/ request_accepted_q)
    BY FetchHandshakes
<1>8. FetchInOnePlace /\ AwaitsWhatRamOwes
    BY DEF FetchBusInv, InFlightViewsAgree
<1>9. /\ outstanding_q <=> response_pending_q \/ rsp_valid_q
      /\ ~(response_pending_q /\ rsp_valid_q)
      /\ response_pending_q <=> response_delay_q # 0
    BY DEF FetchBusInv, InFlightViewsAgree
<1>10. response_pending_q' <=> response_delay_q' # 0
    <2>1. response_delay_q' = IF accepted /\ RESPONSE_LATENCY_CYCLES # 0
                              THEN RESPONSE_LATENCY_CYCLES
                              ELSE IF response_pending_q THEN response_delay_q - 1
                              ELSE response_delay_q
        BY <1>1, BusWires DEF RamClock, CountdownClock
    <2>2. response_delay_q \in 0 .. RESPONSE_LATENCY_CYCLES
        BY <1>1 DEF FetchBusTypeOK, RamTypeOK
    <2> HIDE DEF accepted, taken
    <2> QED
        BY <1>2, <1>7, <1>9, <2>1, <2>2, LatencyAssumption
<1>11. /\ pending_q \in BOOLEAN /\ request_accepted_q \in BOOLEAN
       /\ response_expected_q \in BOOLEAN /\ instruction_valid_q \in BOOLEAN
       /\ rsp_valid_q \in BOOLEAN /\ response_pending_q \in BOOLEAN
    BY <1>1 DEF FetchBusTypeOK, FetchTypeOK, RamTypeOK
<1> HIDE DEF accepted, taken
<1>12. FetchInOnePlace'
    BY <1>4, <1>5, <1>6, <1>7, <1>8, <1>11 DEF FetchInOnePlace
<1>13. AwaitsWhatRamOwes'
    BY <1>2, <1>4, <1>7, <1>8, <1>9, <1>11 DEF AwaitsWhatRamOwes, FetchInOnePlace
<1>14. /\ outstanding_q' <=> response_pending_q' \/ rsp_valid_q'
       /\ ~(response_pending_q' /\ rsp_valid_q')
    BY <1>2, <1>3, <1>7, <1>9, <1>11
<1> QED
    BY <1>10, <1>12, <1>13, <1>14 DEF InFlightViewsAgree

\* A stalled transfer stays as the checker recorded it.
LEMMA FetchBusClockStalled ==
    ASSUME FetchBusInv, NEW ready \in BOOLEAN, NEW start \in BOOLEAN, NEW pc \in Nat,
           NEW b \in Backdoor, TargetClock(ready, b), FetchClock(start, pc, ready),
           start => FetchStartReady(TRUE, ready)
    PROVE  StalledTransfersKept'
<1>1. /\ RamClock(pending_q, FetchRequest, FetchRspReady(TRUE, ready), b)
      /\ CheckerClock(FetchBus(TRUE, ready))
      /\ FetchBusTypeOK
    BY DEF TargetClock, FetchBusInv
<1>2. ASSUME req_stalled_q'
      PROVE  pending_q' /\ req_payload_q' = FetchRequest'
    <2>1. pending_q /\ ~FetchAccepted(TRUE, ready)
        BY <1>1, <1>2, BusWires DEF CheckerClock, ReqFire
    <2>2. ~start
        BY <2>1 DEF FetchStartReady
    <2>3. pending_q' /\ address_q' = address_q
        BY <2>1, <2>2 DEF FetchClock, RequestClock
    <2>4. req_payload_q' = FetchRequest
        BY <1>1, <1>2, BusWires DEF CheckerClock
    <2> QED
        BY <2>3, <2>4 DEF FetchRequest
<1>3. ASSUME rsp_stalled_q'
      PROVE  /\ rsp_valid_q'
             /\ rsp_payload_q' = [rdata |-> rsp_rdata_q', error |-> rsp_error_q']
    <2>1. rsp_valid_q /\ ~FetchRspReady(TRUE, ready)
        BY <1>1, <1>3, BusWires DEF CheckerClock
    <2>2. ~RequestFire(pending_q, FetchRequest, FetchRspReady(TRUE, ready))
        BY <2>1 DEF RequestFire, RequestReady, ResponseSlotAvailable
    <2>3. rsp_valid_q' /\ rsp_rdata_q' = rsp_rdata_q
        BY <1>1, <2>1, <2>2 DEF RamClock, CountdownClock
    <2>4. rsp_error_q' = rsp_error_q
        BY <1>1, <2>2 DEF RamClock, CountdownClock, RamTypeOK, FetchBusTypeOK
    <2>5. rsp_payload_q' = [rdata |-> rsp_rdata_q, error |-> rsp_error_q]
        BY <1>1, <1>3, BusWires DEF CheckerClock
    <2> QED
        BY <2>3, <2>4, <2>5
<1> QED
    BY <1>2, <1>3 DEF StalledTransfersKept

\* An edge with a polite caller preserves the invariant.
LEMMA FetchBusClock ==
    ASSUME FetchBusInv, NEW ready \in BOOLEAN, NEW start \in BOOLEAN, NEW pc \in Nat,
           NEW b \in Backdoor, TargetClock(ready, b), FetchClock(start, pc, ready),
           start => FetchStartReady(TRUE, ready)
    PROVE  FetchBusInv'
<1> QED
    BY FetchBusClockType, FetchBusClockViews, FetchBusClockStalled DEF FetchBusInv

-----------------------------------------------------------------------------
\* No fatal assertion of the fetch path or of the bus protocol checker fires while
\* the invariant holds and the caller is polite.
LEMMA FetchBusNeverFatal ==
    ASSUME FetchBusInv, NEW ready \in BOOLEAN, NEW start \in BOOLEAN,
           start => FetchStartReady(TRUE, ready)
    PROVE  FetchBusAssertions(start, ready)
<1> DEFINE bus == FetchBus(TRUE, ready)
<1>1. InFlightViewsAgree /\ StalledTransfersKept /\ FetchBusTypeOK
    BY DEF FetchBusInv
<1>2. FetchInOnePlace /\ AwaitsWhatRamOwes
    BY <1>1 DEF InFlightViewsAgree
<1>3. FetchBlockAssertions(start, ready)
    BY <1>2 DEF FetchBlockAssertions, R5900_FETCH_RESTART, R5900_FETCH_RESPONSE_OVERLAP,
          R5900_FETCH_RESPONSE_UNEXPECTED, InstructionSlotAvailable, FetchInOnePlace,
          AwaitsWhatRamOwes, FetchStartReady
<1>4. /\ ReqFire(bus) => ~response_pending_q /\ ~rsp_valid_q
      /\ bus.rsp_valid = rsp_valid_q
      /\ bus.rsp = [rdata |-> rsp_rdata_q, error |-> rsp_error_q]
      /\ bus.req = FetchRequest /\ bus.req_valid = pending_q
    BY <1>1, BusWires, FetchHandshakes
<1>5. FetchRequest.size = 2
    BY DEF FetchRequest
<1> HIDE DEF bus
<1>6. TargetAssertions(bus)
    BY <1>1, <1>4 DEF TargetAssertions, MEMBUS_RSP_VALID, MEMBUS_RSP_STABLE,
          MEMBUS_RSP_CAUSAL, MEMBUS_OUTSTANDING, InFlightViewsAgree, StalledTransfersKept
<1>7. InitiatorAssertions(bus)
    BY <1>1, <1>4, <1>5 DEF InitiatorAssertions, MEMBUS_SIZE, MEMBUS_REQ_VALID,
          MEMBUS_REQ_STABLE, StalledTransfersKept
<1> QED
    BY <1>3, <1>6, <1>7 DEF FetchBusAssertions, bus

-----------------------------------------------------------------------------
(* What a fetch reads, for the refinement proofs. *)

\* The beat answered to a fetch holds the four bytes at its address.
LEMMA FetchedWord ==
    ASSUME address_q \in Nat, SupportedRequest(FetchRequest)
    PROVE  /\ LowWord(ReadBeat(storage, FetchRequest))
                  = [k \in 0 .. 3 |-> storage[address_q + k]]
           /\ \A k \in 0 .. 3 : address_q + k \in 0 .. SIZE_BYTES - 1
<1>1. FetchRequest.addr = address_q /\ FetchRequest.size = 2
    BY DEF FetchRequest
<1>2. BeatBytes(FetchRequest.size) = 4
    BY <1>1 DEF BeatBytes
<1>3. address_q <= SIZE_BYTES - 4
    BY <1>1, <1>2 DEF SupportedRequest
<1>4. \A k \in 0 .. 3 : address_q + k \in 0 .. SIZE_BYTES - 1
    BY <1>3, SizeAssumption
<1>5. \A k \in 0 .. 3 : k \in Lane /\ k < 4
    BY DEF Lane
<1>6. \A k \in 0 .. 3 : ReadBeat(storage, FetchRequest)[k] = storage[address_q + k]
    BY <1>1, <1>2, <1>5 DEF ReadBeat
<1> QED
    BY <1>4, <1>6 DEF LowWord

\* A fetch reads the storage as it is at its acceptance and never writes it, so the
\* backdoor is the only writer.
LEMMA FetchData ==
    ASSUME FetchBusInv, NEW ready \in BOOLEAN, NEW b \in Backdoor, TargetClock(ready, b)
    PROVE  /\ FetchAccepted(TRUE, ready) =>
                  /\ LowWord(rsp_rdata_q)' = [k \in 0 .. 3 |-> storage[address_q + k]]
                  /\ \A k \in 0 .. 3 : address_q + k \in 0 .. SIZE_BYTES - 1
           /\ ~FetchAccepted(TRUE, ready) => rsp_rdata_q' = rsp_rdata_q
           /\ \/ storage' = storage
              \/ \E a \in 0 .. SIZE_BYTES - 1, v \in Byte :
                     storage' = [storage EXCEPT ![a] = v]
<1>1. /\ storage \in [0 .. SIZE_BYTES - 1 -> Byte] /\ address_q \in Nat
      /\ RamClock(pending_q, FetchRequest, FetchRspReady(TRUE, ready), b)
    BY DEF FetchBusInv, FetchBusTypeOK, RamTypeOK, FetchTypeOK, TargetClock
<1>2. /\ RequestFire(pending_q, FetchRequest, FetchRspReady(TRUE, ready))
            <=> FetchAccepted(TRUE, ready)
      /\ ~FetchRequest.write
    BY DEF FetchAccepted, FetchRequest
<1>3. /\ rsp_rdata_q' = IF FetchAccepted(TRUE, ready) THEN ReadBeat(storage, FetchRequest)
                        ELSE rsp_rdata_q
      /\ storage' = AfterBackdoor(storage, b)
    BY <1>1, <1>2 DEF RamClock
<1>4. ASSUME FetchAccepted(TRUE, ready)
      PROVE  /\ LowWord(rsp_rdata_q)' = [k \in 0 .. 3 |-> storage[address_q + k]]
             /\ \A k \in 0 .. 3 : address_q + k \in 0 .. SIZE_BYTES - 1
    <2>1. SupportedRequest(FetchRequest)
        BY <1>2, <1>4 DEF RequestFire, RequestReady
    <2>2. LowWord(rsp_rdata_q)' = LowWord(ReadBeat(storage, FetchRequest))
        BY <1>3, <1>4 DEF LowWord
    <2> QED
        BY <1>1, <2>1, <2>2, FetchedWord
<1>5. ~FetchAccepted(TRUE, ready) => rsp_rdata_q' = rsp_rdata_q
    BY <1>3
<1>6. \/ storage' = storage
      \/ \E a \in 0 .. SIZE_BYTES - 1, v \in Byte : storage' = [storage EXCEPT ![a] = v]
  <2>1. \/ AfterBackdoor(storage, b) = storage
        \/ \E a \in 0 .. SIZE_BYTES - 1, v \in Byte :
               AfterBackdoor(storage, b) = [storage EXCEPT ![a] = v]
      BY <1>1, BackdoorStore, Zenon
  <2> QED
      BY <1>3, <2>1, Zenon
<1> QED
    BY <1>4, <1>5, <1>6, Zenon

=============================================================================
