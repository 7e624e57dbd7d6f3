---------------------------- MODULE SimTop_proofs ----------------------------
(***************************************************************************)
(* Proofs about the external-master platform, for every storage size, response *)
(* latency, set of bytes, of requests and of backdoor values, and for every     *)
(* limit, counter width and set of failure codes.  The memory port comes first,  *)
(* then the port beside its reference model, then control and trace sinks.       *)
(*                                                                         *)
(* Memory port.  PortInv is inductive.  The assertions of the protocol checker *)
(* compare the bus with what the checker recorded one edge earlier, so the      *)
(* invariant relates the checker's registers to the RAM's: a transaction is     *)
(* outstanding exactly while the RAM is busy or answering, and a stalled answer *)
(* is still in the RAM's response register.  The refinement maps an edge that    *)
(* accepts a request to one transfer of AtomicMemory; every other edge moves     *)
(* that transfer on or holds it.  For the latency, AgeInv ties the age of the       *)
(* request in flight, a clock that sees the bus alone, to the RAM's registers:      *)
(* while a response is pending, age and countdown add up to the latency.           *)
(*                                                                         *)
(* Reference model.  DifferentialInv adds that both memories hold the same       *)
(* bytes and that the answer on its way is the one the model returned.  The      *)
(* checks of the two sides are compared as operators: they refuse alike.         *)
(*                                                                         *)
(* Control.  The verdict is inductive once the history is typed: a latched        *)
(* result has a first request behind it, so a later request finds it taken.      *)
(* The watchdog's count equals the number of active edges until it saturates,     *)
(* because the limit is below the counter's modulus.                          *)
(*                                                                         *)
(* Trace sinks.  SinkInv ties the counters of the two sinks, and the number of     *)
(* the next event, to the edges and records of the history.  $fatal and $finish    *)
(* end an edge before some sinks have seen it, so the number of the next event is   *)
(* tied to the events only while the simulation runs.  That the memory trace tells what the    *)
(* bus holds follows because a record is written at the edge of its handshake.      *)
(***************************************************************************)
EXTENDS SimTopObserver, MemoryDifferential, MemoryLatency, FetchBus_proofs, FiniteSetTheorems,
        SequenceTheorems

USE DEF ramVars, checkerVars, wires, vars

-----------------------------------------------------------------------------
(* PortInv is inductive. *)

\* Power-up satisfies the invariant.
LEMMA InitPortInv == Init => PortInv
<1> SUFFICES ASSUME Init PROVE PortInv
    OBVIOUS
<1>1. RamTypeOK
    BY RamInitType DEF Init
<1>2. TypeOK
    BY <1>1 DEF Init, CheckerInit, TypeOK
<1> QED
    BY <1>2 DEF Init, RamInit, CheckerInit, PortInv, OutstandingExact, CountdownArmed,
                StalledResponseKept, NeverAnError

\* The wires keep their types whatever the environment does.
LEMMA DriveType ==
    ASSUME TypeOK, Drive
    PROVE  /\ rst_n' \in BOOLEAN
           /\ req_valid' \in BOOLEAN
           /\ req' \in Requests
           /\ rsp_ready' \in BOOLEAN
           /\ bd' \in Backdoors
    BY DEF TypeOK, Drive

\* An edge with reset asserted establishes the invariant.
LEMMA ResetPortInv ==
    ASSUME PortInv, ResetEdge
    PROVE  PortInv'
<1> USE DEF PortInv
<1>1. RamTypeOK'
    BY RamResetType DEF ResetEdge, TypeOK
<1>2. TypeOK'
    BY <1>1, DriveType DEF ResetEdge, CheckerReset, TypeOK
<1> QED
    BY <1>2 DEF ResetEdge, RamReset, CheckerReset, OutstandingExact, CountdownArmed,
                StalledResponseKept, NeverAnError

\* An edge with reset released preserves the invariant.
LEMMA ClockPortInv ==
    ASSUME PortInv, ClockEdge
    PROVE  PortInv'
<1> DEFINE fire == RequestFire(req_valid, req, rsp_ready)
<1>1. /\ rst_n /\ TypeOK /\ RamTypeOK
      /\ RamClock(req_valid, req, rsp_ready, bd)
      /\ CheckerClock(bus)
      /\ req_valid \in BOOLEAN /\ rsp_ready \in BOOLEAN
    BY DEF PortInv, TypeOK, ClockEdge
<1>2. /\ ReqFire(bus) <=> fire
      /\ RspFire(bus) <=> rsp_valid_q /\ rsp_ready
      /\ bus.rsp_valid = rsp_valid_q /\ bus.rsp_ready = rsp_ready
      /\ bus.rsp = [rdata |-> rsp_rdata_q, error |-> rsp_error_q]
    BY <1>1 DEF bus, ReqFire, RspFire, req_ready, RequestFire
<1>3. fire => ~response_pending_q /\ (~rsp_valid_q \/ rsp_ready)
    BY DEF RequestFire, RequestReady, ResponseSlotAvailable
<1>4. TypeOK'
    <2>1. RamTypeOK'
        BY <1>1, RamClockType, RequestsAssumption, BackdoorsAssumption
           DEF PortInv, TypeOK, CountdownArmed
    <2>2. outstanding_q' \in BOOLEAN /\ req_stalled_q' \in BOOLEAN /\ rsp_stalled_q' \in BOOLEAN
        BY <1>1 DEF CheckerClock, ReqFire, bus, TypeOK
    <2>3. Drive
        BY DEF ClockEdge
    <2> QED
        BY <1>1, <2>1, <2>2, <2>3, DriveType DEF TypeOK
<1>5. OutstandingExact'
    <2>1. /\ rsp_valid_q' = IF fire THEN RESPONSE_LATENCY_CYCLES = 0
                            ELSE \/ response_pending_q /\ response_delay_q = 1
                                 \/ rsp_valid_q /\ ~rsp_ready
          /\ response_pending_q' = (\/ fire /\ RESPONSE_LATENCY_CYCLES # 0
                                    \/ response_pending_q /\ response_delay_q # 1)
        BY <1>1 DEF RamClock, CountdownClock
    <2>2. /\ fire /\ ~(rsp_valid_q /\ rsp_ready) => outstanding_q'
          /\ ~fire /\ rsp_valid_q /\ rsp_ready => ~outstanding_q'
          /\ (fire <=> rsp_valid_q /\ rsp_ready) => outstanding_q' = outstanding_q
        BY <1>1, <1>2 DEF CheckerClock, ReqFire, RspFire, RequestFire
    <2>3. OutstandingExact
        BY DEF PortInv
    <2> HIDE DEF fire
    <2> QED
        BY <1>1, <1>3, <2>1, <2>2, <2>3 DEF OutstandingExact, RamTypeOK, TypeOK
<1>6. CountdownArmed'
    BY <1>1, <1>3, LatencyAssumption
       DEF RamClock, CountdownClock, RamTypeOK, CountdownArmed, PortInv
<1>7. StalledResponseKept'
    <2> SUFFICES ASSUME rsp_stalled_q'
                 PROVE  /\ rsp_valid_q'
                        /\ rsp_payload_q' = [rdata |-> rsp_rdata_q', error |-> rsp_error_q']
        BY DEF StalledResponseKept
    <2>1. rsp_valid_q /\ ~rsp_ready
        BY <1>1, <1>2 DEF CheckerClock
    <2>2. ~fire
        BY <1>3, <2>1
    <2>3. rsp_valid_q' /\ rsp_rdata_q' = rsp_rdata_q
        BY <1>1, <2>1, <2>2 DEF RamClock, CountdownClock
    <2>4. rsp_error_q' = rsp_error_q
        BY <1>1, <2>2 DEF RamClock, CountdownClock, RamTypeOK
    <2>5. rsp_payload_q' = [rdata |-> rsp_rdata_q, error |-> rsp_error_q]
        BY <1>1, <1>2, <2>1 DEF CheckerClock
    <2> QED
        BY <2>3, <2>4, <2>5
<1>8. NeverAnError'
    BY <1>1 DEF RamClock, CountdownClock, NeverAnError, PortInv
<1> QED
    BY <1>4, <1>5, <1>6, <1>7, <1>8 DEF PortInv

\* Every step preserves the invariant.
LEMMA NextPortInv == PortInv /\ [Next]_vars => PortInv'
<1> SUFFICES ASSUME PortInv, [Next]_vars PROVE PortInv'
    OBVIOUS
<1>1. CASE ResetEdge
    BY <1>1, ResetPortInv
<1>2. CASE ClockEdge
    BY <1>2, ClockPortInv
<1>3. CASE UNCHANGED vars
    BY <1>3 DEF PortInv, TypeOK, RamTypeOK, OutstandingExact, CountdownArmed,
                StalledResponseKept, NeverAnError
<1> QED
    BY <1>1, <1>2, <1>3 DEF Next

\* The inductive invariant holds for ever.
THEOREM PortInvariant == Spec => []PortInv
<1>1. Init => PortInv
    BY InitPortInv
<1>2. PortInv /\ [Next]_vars => PortInv'
    BY NextPortInv
<1> QED
    BY <1>1, <1>2, PTL DEF Spec

-----------------------------------------------------------------------------
(* What it implies. *)

\* Every register and wire of the port keeps its type.
THEOREM PortTypeCorrect == Spec => []TypeOK
<1>1. PortInv => TypeOK
    BY DEF PortInv
<1> QED
    BY <1>1, PortInvariant, PTL

\* The checker's view of the bus and the RAM's registers never drift apart.
THEOREM PortOutstandingExact == Spec => []OutstandingExact
<1>1. PortInv => OutstandingExact
    BY DEF PortInv
<1> QED
    BY <1>1, PortInvariant, PTL

\* No fatal assertion of the protocol checker about the responder ever fires.
THEOREM PortObeysProtocol == Spec => []TargetObeysProtocol
<1>1. PortInv => TargetObeysProtocol
    <2> SUFFICES ASSUME PortInv, rst_n PROVE TargetAssertions(bus)
        BY DEF TargetObeysProtocol
    <2>1. OutstandingExact /\ StalledResponseKept
        BY DEF PortInv
    <2>2. /\ bus.rsp_valid = rsp_valid_q
          /\ bus.rsp = [rdata |-> rsp_rdata_q, error |-> rsp_error_q]
          /\ ReqFire(bus) => ~response_pending_q /\ (~rsp_valid_q \/ rsp_ready)
          /\ RspFire(bus) <=> rsp_valid_q /\ rsp_ready
        BY DEF bus, ReqFire, RspFire, req_ready, RequestReady, ResponseSlotAvailable
    <2>3. MEMBUS_RSP_VALID(bus) /\ MEMBUS_RSP_STABLE(bus)
        BY <2>1, <2>2 DEF MEMBUS_RSP_VALID, MEMBUS_RSP_STABLE, StalledResponseKept
    <2>4. MEMBUS_RSP_CAUSAL(bus)
        BY <2>1, <2>2 DEF MEMBUS_RSP_CAUSAL, OutstandingExact
    <2>5. MEMBUS_OUTSTANDING(bus)
        BY <2>1, <2>2 DEF MEMBUS_OUTSTANDING, OutstandingExact
    <2> QED
        BY <2>3, <2>4, <2>5 DEF TargetAssertions
<1> QED
    BY <1>1, PortInvariant, PTL
-----------------------------------------------------------------------------
(* The port implements AtomicMemory. *)

\* What AtomicMemory's transfer is for a request on the bus.
TransferOf(r) == [write |-> r.write, first |-> r.addr, count |-> BeatBytes(r.size),
                  data |-> r.wdata, lanes |-> r.wstrb]

\* The data path of the RAM is that of AtomicMemory.
LEMMA AtomicData ==
    ASSUME storage \in [0 .. SIZE_BYTES - 1 -> Byte], NEW r \in Request
    PROVE  /\ AfterWrite(storage, r) = Memory!Written(TransferOf(r))
           /\ ReadBeat(storage, r) = Memory!Read(TransferOf(r))
           /\ ZeroBeat = Memory!NoAnswer
<1>1. r.wstrb \subseteq Lane /\ r.addr \in Nat
    BY DEF Request
<1>2. /\ TransferOf(r).first = r.addr /\ TransferOf(r).count = BeatBytes(r.size)
      /\ TransferOf(r).data = r.wdata /\ TransferOf(r).lanes = r.wstrb
    BY DEF TransferOf
<1>3. AfterWrite(storage, r) = Memory!Written(TransferOf(r))
  <2>1. ASSUME NEW a \in 0 .. SIZE_BYTES - 1
        PROVE  a - r.addr \in r.wstrb <=> \E k \in r.wstrb : a = r.addr + k
    <3>1. a \in Int /\ r.addr \in Int
        BY <1>1, SizeAssumption
    <3>2. a = r.addr + (a - r.addr)
        BY <3>1
    <3>3. \A x, y, z \in Int : x = y + z => x - y = z
        OBVIOUS
    <3>4. \A k \in r.wstrb : k \in Int
        BY <1>1 DEF Lane
    <3>5. ASSUME NEW k \in r.wstrb, a = r.addr + k
          PROVE  a - r.addr = k
      <4>1. k \in Int
          BY <3>4
      <4> QED
          BY <3>1, <3>3, <3>5, <4>1
    <3> QED
        BY <3>2, <3>5
  <2>2. DOMAIN storage = 0 .. SIZE_BYTES - 1
      OBVIOUS
  <2> QED
      BY <1>2, <2>1, <2>2 DEF AfterWrite, Memory!Written
<1>4. ReadBeat(storage, r) = Memory!Read(TransferOf(r))
    BY <1>2 DEF ReadBeat, Memory!Read, Lane, Memory!LaneIndex
<1>5. ZeroBeat = Memory!NoAnswer
    BY DEF ZeroBeat, Memory!NoAnswer, Lane, Memory!LaneIndex
<1> QED
    BY <1>3, <1>4, <1>5

\* What the backdoor does to the storage is a harness store.
LEMMA AtomicBackdoor ==
    ASSUME storage \in [0 .. SIZE_BYTES - 1 -> Byte], bd \in Backdoor,
           storage' = AfterBackdoor(storage, bd)
    PROVE  Memory!HarnessStore
<1>1. \/ AfterBackdoor(storage, bd) = storage
      \/ \E a \in 0 .. SIZE_BYTES - 1, v \in Byte :
             AfterBackdoor(storage, bd) = [storage EXCEPT ![a] = v]
    BY BackdoorStore, Zenon
<1> QED
    BY <1>1 DEF Memory!HarnessStore, Memory!Loaded

\* An accepted request is a transfer of AtomicMemory, in one step.
LEMMA AcceptStep ==
    ASSUME PortInv, AvoidsWriteConflict, ClockEdge, request_fire
    PROVE  Memory!Next
<1> DEFINE t == TransferOf(req)
<1>1. /\ rst_n /\ req_valid /\ SupportedRequest(req) /\ req \in Requests /\ req \in Request
      /\ ~response_pending_q /\ RequestFire(req_valid, req, rsp_ready)
      /\ RamClock(req_valid, req, rsp_ready, bd)
      /\ storage \in [0 .. SIZE_BYTES - 1 -> Byte] /\ bd \in Backdoor
    BY RequestsAssumption, BackdoorsAssumption
       DEF PortInv, TypeOK, RamTypeOK, ClockEdge, request_fire, req_ready, RequestFire,
           RequestReady, ResponseSlotAvailable
<1>2. t \in {TransferOf(r) : r \in {q \in Requests : SupportedRequest(q)}}
    BY <1>1
<1>3. /\ rsp_valid_q' <=> RESPONSE_LATENCY_CYCLES = 0
      /\ response_pending_q' <=> RESPONSE_LATENCY_CYCLES # 0
    BY <1>1 DEF RamClock, CountdownClock
<1>4. CASE req.write
  <2>1. ~bd.write
      BY <1>4 DEF AvoidsWriteConflict
  <2>2. storage' = AfterWrite(storage, req) /\ rsp_rdata_q' = ZeroBeat
      BY <1>1, <1>4, <2>1 DEF RamClock, AfterBackdoor
  <2>3. storage' = Memory!Written(t) /\ rsp_rdata_q' = Memory!NoAnswer /\ t.write
      BY <1>1, <1>4, <2>2, AtomicData DEF TransferOf
  <2>4. Memory!Accept(t)
      BY <1>1, <1>3, <2>3 DEF Memory!Accept
  <2> QED
      BY <1>2, <2>4 DEF Memory!Next, TransferOf
<1>5. CASE ~req.write
  <2>1. storage' = AfterBackdoor(storage, bd) /\ rsp_rdata_q' = ReadBeat(storage, req)
      BY <1>1, <1>5 DEF RamClock
  <2>2. Memory!HarnessStore /\ rsp_rdata_q' = Memory!Read(t) /\ ~t.write
      BY <1>1, <1>5, <2>1, AtomicData, AtomicBackdoor DEF TransferOf
  <2>3. Memory!Accept(t)
      BY <1>1, <1>3, <2>2 DEF Memory!Accept
  <2> QED
      BY <1>2, <2>3 DEF Memory!Next, TransferOf
<1> QED
    BY <1>4, <1>5

\* Any other edge moves a transaction on, or holds it.
LEMMA MoveStep ==
    ASSUME PortInv, ClockEdge, ~request_fire
    PROVE  Memory!Next
<1>1. /\ rst_n /\ ~RequestFire(req_valid, req, rsp_ready)
      /\ RamClock(req_valid, req, rsp_ready, bd)
      /\ storage \in [0 .. SIZE_BYTES - 1 -> Byte] /\ bd \in Backdoor
      /\ ~(response_pending_q /\ rsp_valid_q)
    BY BackdoorsAssumption
       DEF PortInv, TypeOK, RamTypeOK, OutstandingExact, ClockEdge, request_fire, req_ready,
           RequestFire
<1>2. /\ rsp_valid_q' <=> \/ response_pending_q /\ response_delay_q = 1
                          \/ rsp_valid_q /\ ~rsp_ready
      /\ response_pending_q' <=> response_pending_q /\ response_delay_q # 1
      /\ rsp_rdata_q' = rsp_rdata_q
    BY <1>1 DEF RamClock, CountdownClock
<1>3. Memory!HarnessStore
  <2>1. storage' = AfterBackdoor(storage, bd)
      BY <1>1 DEF RamClock
  <2> QED
      BY <1>1, <2>1, AtomicBackdoor
<1>4. CASE response_pending_q /\ response_delay_q = 1
  <2>1. Memory!Answer
      BY <1>1, <1>2, <1>3, <1>4 DEF Memory!Answer
  <2> QED
      BY <2>1 DEF Memory!Next
<1>5. CASE response_pending_q /\ response_delay_q # 1
  <2>1. Memory!Hold
      BY <1>1, <1>2, <1>3, <1>5 DEF Memory!Hold
  <2> QED
      BY <2>1 DEF Memory!Next
<1>6. CASE ~response_pending_q /\ rsp_valid_q /\ rsp_ready
  <2>1. Memory!Consume
      BY <1>1, <1>2, <1>3, <1>6 DEF Memory!Consume
  <2> QED
      BY <2>1 DEF Memory!Next
<1>7. CASE ~response_pending_q /\ ~(rsp_valid_q /\ rsp_ready)
  <2>1. Memory!Hold
      BY <1>1, <1>2, <1>3, <1>7 DEF Memory!Hold
  <2> QED
      BY <2>1 DEF Memory!Next
<1> QED
    BY <1>4, <1>5, <1>6, <1>7

\* An edge with reset asserted drops the transaction and keeps the storage.
LEMMA ResetStep ==
    ASSUME ResetEdge
    PROVE  Memory!Next
<1>1. /\ storage' = storage /\ ~rsp_valid_q' /\ ~response_pending_q'
      /\ rsp_rdata_q' = Memory!NoAnswer
    BY DEF ResetEdge, RamReset, ZeroBeat, Memory!NoAnswer, Lane, Memory!LaneIndex
<1>2. Memory!Reset
    BY <1>1 DEF Memory!Reset
<1> QED
    BY <1>2 DEF Memory!Next

\* Every behaviour of the port is one of the atomic memory (behavioral_system_ram.sv:
\* 142-294): whatever the latency, a read returns the bytes of the instant its request
\* was accepted.  The harness's part, AvoidsWriteConflict, is needed for the writes.
THEOREM PortImplementsAtomicMemory == Spec => ImplementsAtomicMemory
<1>1. Init => PortInv /\ AvoidsWriteConflict
    BY InitPortInv DEF Init, AvoidsWriteConflict, request_fire
<1>2. PortInv /\ AvoidsWriteConflict /\ [Next]_vars => (PortInv /\ AvoidsWriteConflict)'
  <2> SUFFICES ASSUME PortInv, AvoidsWriteConflict, [Next]_vars
               PROVE  PortInv' /\ AvoidsWriteConflict'
      OBVIOUS
  <2>1. CASE Next
      BY <2>1, NextPortInv DEF Next, ResetEdge, ClockEdge, Drive
  <2>2. CASE UNCHANGED vars
      BY <2>2, NextPortInv
         DEF AvoidsWriteConflict, request_fire, req_ready, RequestReady,
             ResponseSlotAvailable, SupportedRequest
  <2> QED
      BY <2>1, <2>2
<1>3. Init => Memory!Init
    BY DEF Init, RamInit, Memory!Init, ZeroBeat, Memory!NoAnswer, Lane, Memory!LaneIndex
<1>4. PortInv /\ AvoidsWriteConflict /\ [Next]_vars => [Memory!Next]_Memory!vars
  <2> SUFFICES ASSUME PortInv, AvoidsWriteConflict, [Next]_vars
               PROVE  [Memory!Next]_Memory!vars
      OBVIOUS
  <2>1. CASE ResetEdge
      BY <2>1, ResetStep
  <2>2. CASE ClockEdge
      BY <2>2, AcceptStep, MoveStep
  <2>3. CASE UNCHANGED vars
      BY <2>3 DEF Memory!vars
  <2> QED
      BY <2>1, <2>2, <2>3 DEF Next
<1> QED
    BY <1>1, <1>2, <1>3, <1>4, PTL DEF Spec, ImplementsAtomicMemory, Memory!Spec

-----------------------------------------------------------------------------
(* The latency. *)

\* The age of the request in flight, read off the RAM's registers: while a response is
\* pending the age and the countdown add up to the latency, and an offered response is due.
AgeInv ==
    age = IF response_pending_q THEN RESPONSE_LATENCY_CYCLES - response_delay_q
          ELSE IF rsp_valid_q THEN RESPONSE_LATENCY_CYCLES
          ELSE Idle

\* A step moves the clock of the bus as it moves the countdown.
LEMMA AgeStepInv ==
    ASSUME PortInv, AgeInv, [LatencyNext]_<<vars, age>>
    PROVE  AgeInv'
<1> DEFINE fire == RequestFire(req_valid, req, rsp_ready)
           L == RESPONSE_LATENCY_CYCLES
<1>1. /\ L \in Nat /\ response_delay_q \in 0 .. L
      /\ response_pending_q \in BOOLEAN /\ rsp_valid_q \in BOOLEAN
      /\ response_pending_q <=> response_delay_q # 0
      /\ ~(response_pending_q /\ rsp_valid_q)
    BY LatencyAssumption DEF PortInv, TypeOK, RamTypeOK, CountdownArmed, OutstandingExact
<1>2. age = IF response_pending_q THEN L - response_delay_q
            ELSE IF rsp_valid_q THEN L ELSE -1
    BY DEF AgeInv, Idle
<1>3. CASE ClockEdge /\ AgeStep
  <2>1. /\ rst_n
        /\ rsp_valid_q' = IF fire THEN L = 0
                          ELSE \/ response_pending_q /\ response_delay_q = 1
                               \/ rsp_valid_q /\ ~rsp_ready
        /\ response_pending_q' = (\/ fire /\ L # 0
                                  \/ response_pending_q /\ response_delay_q # 1)
        /\ response_delay_q' = IF fire /\ L # 0 THEN L
                               ELSE IF response_pending_q THEN response_delay_q - 1
                               ELSE response_delay_q
      BY <1>3 DEF ClockEdge, RamClock, CountdownClock
  <2>2. fire => ~response_pending_q
      BY DEF RequestFire, RequestReady, ResponseSlotAvailable
  <2>3. request_fire <=> fire
      BY <2>1 DEF request_fire, req_ready, RequestFire
  <2>4. age' = IF fire THEN 0
               ELSE IF (rsp_valid_q /\ rsp_ready) \/ age = -1 THEN -1
               ELSE IF age < L THEN age + 1 ELSE age
      BY <1>3, <2>1, <2>3 DEF AgeStep, response_fire, Idle
  <2> HIDE DEF fire, L
  <2> SUFFICES age' = IF response_pending_q' THEN L - response_delay_q'
                      ELSE IF rsp_valid_q' THEN L ELSE -1
      BY DEF AgeInv, Idle, L
  <2>5. CASE fire
    <3>1. age' = 0 /\ ~response_pending_q /\ (response_pending_q' <=> L # 0)
        BY <2>1, <2>2, <2>4, <2>5
    <3>2. CASE L = 0
        BY <2>1, <2>5, <3>1, <3>2
    <3>3. CASE L # 0
      <4>1. response_delay_q' = L /\ L - L = 0
          BY <1>1, <2>1, <2>5, <3>3
      <4> QED
          BY <3>1, <3>3, <4>1
    <3> QED
        BY <3>2, <3>3
  <2>6. CASE ~fire /\ response_pending_q
    <3>1. age = L - response_delay_q /\ response_delay_q \in 1 .. L
        BY <1>1, <1>2, <2>6
    <3>2. age' = age + 1
        BY <1>1, <2>4, <2>6, <3>1
    <3>3. CASE response_delay_q = 1
        BY <1>1, <2>1, <2>6, <3>1, <3>2, <3>3
    <3>4. CASE response_delay_q # 1
        BY <1>1, <2>1, <2>6, <3>1, <3>2, <3>4
    <3> QED
        BY <3>3, <3>4
  <2>7. CASE ~fire /\ ~response_pending_q /\ rsp_valid_q
      BY <1>1, <1>2, <2>1, <2>4, <2>7
  <2>8. CASE ~fire /\ ~response_pending_q /\ ~rsp_valid_q
      BY <1>1, <1>2, <2>1, <2>4, <2>8
  <2> QED
      BY <2>5, <2>6, <2>7, <2>8
<1>4. CASE ResetEdge /\ AgeStep
  <2>1. response_pending_q' = FALSE /\ rsp_valid_q' = FALSE /\ age' = Idle
      BY <1>4 DEF ResetEdge, RamReset, AgeStep
  <2> QED
      BY <2>1 DEF AgeInv
<1>5. CASE UNCHANGED <<vars, age>>
    BY <1>5 DEF AgeInv
<1> QED
    BY <1>3, <1>4, <1>5 DEF LatencyNext, Next

\* For every latency, zero included, a response is offered from exactly the edge that is
\* RESPONSE_LATENCY_CYCLES after its acceptance on the bus, until it is consumed
\* (behavioral_system_ram.sv:154-179).
THEOREM PortLatencyExact == LatencySpec => []LatencyExact
<1>1. LatencyInit => PortInv /\ AgeInv
    BY InitPortInv DEF LatencyInit, AgeInit, AgeInv, Init, RamInit
<1>2. PortInv /\ [LatencyNext]_<<vars, age>> => PortInv'
    BY NextPortInv DEF LatencyNext
<1>3. PortInv /\ AgeInv /\ [LatencyNext]_<<vars, age>> => AgeInv'
    BY AgeStepInv
<1>4. PortInv /\ AgeInv => LatencyExact
    BY LatencyAssumption
       DEF PortInv, TypeOK, RamTypeOK, CountdownArmed, OutstandingExact, AgeInv, LatencyExact,
           Idle
<1> QED
    BY <1>1, <1>2, <1>3, <1>4, PTL DEF LatencySpec

-----------------------------------------------------------------------------
(* The reference model of the tests. *)

USE DEF referenceVars

\* The model holds the RAM's bytes, and what it returned for the request in flight is in
\* the response register from the acceptance on.
DifferentialInv ==
    /\ PortInv
    /\ AvoidsWriteConflict
    /\ reference = storage
    /\ rsp_rdata_q = expected

\* The arguments of the model's checks, for a request that names a beat.
LEMMA BeatChecks ==
    ASSUME storage \in [0 .. SIZE_BYTES - 1 -> Byte], NEW r \in Request, r.size \in {2, 3, 4}
    PROVE  /\ AccessValid(storage, r.addr, BeatBytes(r.size))
                  <=> /\ r.addr % BeatBytes(r.size) = 0
                      /\ r.addr <= SIZE_BYTES - BeatBytes(r.size)
           /\ BeatBytes(r.size) \in {4, 8, 16}
<1>1. /\ BeatBytes(r.size) \in {4, 8, 16} /\ r.addr \in Nat /\ SIZE_BYTES \in Nat
      /\ DOMAIN storage = 0 .. SIZE_BYTES - 1
    BY SizeAssumption DEF Request, BeatBytes
<1> DEFINE n == BeatBytes(r.size)
<1>2. r.addr + n - 1 \in 0 .. SIZE_BYTES - 1 <=> r.addr <= SIZE_BYTES - n
  <2> HIDE DEF n
  <2>1. n \in Nat /\ n >= 4
      BY <1>1 DEF n
  <2> QED
      BY <1>1, <2>1
<1> QED
    BY <1>1, <1>2 DEF AccessValid

\* The value a test passes is in range, and its lanes below the beat are the bus's.
LEMMA AccessValueFits ==
    ASSUME req \in Request, req.size \in {2, 3, 4}
    PROVE  /\ ValueValid(AccessValue, BeatBytes(req.size))
           /\ AccessValue \in Beat
           /\ \A lane \in 0 .. BeatBytes(req.size) - 1 : AccessValue[lane] = req.wdata[lane]
<1>1. BeatBytes(req.size) \in {4, 8, 16} /\ req.wdata \in Beat
    BY DEF Request, BeatBytes
<1> DEFINE n == BeatBytes(req.size)
<1>2. \A lane \in Lane : AccessValue[lane] = IF lane < n THEN req.wdata[lane] ELSE ZeroByte
    BY DEF AccessValue
<1>3. ASSUME NEW lane \in ValueLane, lane >= n
      PROVE  AccessValue[lane] = ZeroByte
    BY <1>1, <1>2, <1>3 DEF ValueLane, QUADWORD_BYTES, Lane
<1>4. AccessValue \in Beat
    BY <1>1, ByteAssumption DEF AccessValue, Beat
<1>5. ASSUME NEW lane \in 0 .. n - 1
      PROVE  AccessValue[lane] = req.wdata[lane]
    BY <1>1, <1>2 DEF Lane
<1> QED
    BY <1>3, <1>4, <1>5 DEF ValueValid

\* What the model does with the access on the bus, case by case.
LEMMA ReferenceAccessIs ==
    ASSUME storage \in [0 .. SIZE_BYTES - 1 -> Byte], reference = storage, req \in Request
    PROVE  /\ ~SupportedRequest(req) => ReferenceAccess = ValueError
           /\ SupportedRequest(req) /\ ~req.write => ReferenceAccess = ReadBeat(storage, req)
           /\ SupportedRequest(req) /\ req.write => ReferenceAccess = AfterWrite(storage, req)
<1> DEFINE n == BeatBytes(req.size)
           valid == AccessValid(storage, req.addr, n)
<1>1. CASE req.size \notin {2, 3, 4}
    BY <1>1 DEF ReferenceAccess, SupportedRequest
<1>2. CASE req.size \in {2, 3, 4} /\ ~req.write
  <2>1. ReferenceAccess = Read(storage, req.addr, n)
      BY <1>2 DEF ReferenceAccess
  <2>2. SupportedRequest(req) <=> valid
      BY <1>2, BeatChecks DEF SupportedRequest
  <2>3. ReadBeat(storage, req) = [lane \in ValueLane |->
            IF lane < n THEN storage[req.addr + lane] ELSE ZeroByte]
      BY DEF ReadBeat, Lane, ValueLane, QUADWORD_BYTES
  <2> QED
      BY <1>2, <2>1, <2>2, <2>3 DEF Read
<1>3. CASE req.size \in {2, 3, 4} /\ req.write
  <2>1. ReferenceAccess = WriteMasked(storage, req.addr, n, AccessValue, req.wstrb)
    <3>1. CASE req.wstrb = 0 .. n - 1
        BY <1>3, <3>1 DEF ReferenceAccess, Write
    <3>2. CASE req.wstrb # 0 .. n - 1
        BY <1>3, <3>2 DEF ReferenceAccess
    <3> QED
        BY <3>1, <3>2
  <2>2. SupportedRequest(req) <=> valid /\ req.wstrb \subseteq 0 .. n - 1
      BY <1>3, BeatChecks DEF SupportedRequest
  <2>3. ValueValid(AccessValue, n)
      BY <1>3, AccessValueFits
  <2>4. CASE valid /\ req.wstrb \subseteq 0 .. n - 1
    <3>1. ReferenceAccess = [a \in DOMAIN storage |->
              IF a - req.addr \in req.wstrb THEN AccessValue[a - req.addr] ELSE storage[a]]
        BY <2>1, <2>3, <2>4 DEF WriteMasked, StrobeValid
    <3>2. \A lane \in req.wstrb : AccessValue[lane] = req.wdata[lane]
        BY <1>3, <2>4, AccessValueFits
    <3>3. ReferenceAccess = AfterWrite(storage, req)
        BY <3>1, <3>2 DEF AfterWrite
    <3> QED
        BY <1>3, <2>2, <2>4, <3>3
  <2>5. CASE ~(valid /\ req.wstrb \subseteq 0 .. n - 1)
    <3>1. ReferenceAccess = ValueError
        BY <2>1, <2>5 DEF WriteMasked, StrobeValid
    <3> QED
        BY <2>2, <2>5, <3>1
  <2> QED
      BY <2>4, <2>5
<1> QED
    BY <1>1, <1>2, <1>3

\* The model takes what the backdoor stores, and raises where the RAM ignores it.
LEMMA ReferenceBackdoorIs ==
    ASSUME storage \in [0 .. SIZE_BYTES - 1 -> Byte], reference = storage, bd \in Backdoor
    PROVE  WriteByte(reference, bd.addr, bd.wdata) =
               IF BackdoorInBounds(bd) THEN [storage EXCEPT ![bd.addr] = bd.wdata]
               ELSE ValueError
<1>1. bd.addr \in Nat /\ bd.wdata \in Byte /\ DOMAIN storage = 0 .. SIZE_BYTES - 1
    BY DEF Backdoor
<1>2. bd.addr \in 0 .. SIZE_BYTES - 1 <=> BackdoorInBounds(bd)
    BY <1>1, SizeAssumption DEF BackdoorInBounds
<1> QED
    BY <1>1, <1>2 DEF WriteByte

\* Power-up: the harness starts the model with the RAM's bytes.
LEMMA InitDifferentialInv == DifferentialInit => DifferentialInv
    BY InitPortInv
       DEF DifferentialInit, DifferentialInv, ReferenceInit, Init, RamInit,
           AvoidsWriteConflict, request_fire

\* An edge leaves the RAM and the model with the same bytes and the same answer.
LEMMA DifferentialStep ==
    ASSUME DifferentialInv, Next, ReferenceStep
    PROVE  DifferentialInv'
<1>1. PortInv' /\ AvoidsWriteConflict'
    BY NextPortInv DEF DifferentialInv, Next, ResetEdge, ClockEdge, Drive
<1>2. /\ storage \in [0 .. SIZE_BYTES - 1 -> Byte] /\ reference = storage
      /\ rsp_rdata_q = expected /\ req \in Request /\ bd \in Backdoor
      /\ AvoidsWriteConflict
    BY RequestsAssumption, BackdoorsAssumption
       DEF DifferentialInv, PortInv, TypeOK, RamTypeOK
<1>3. CASE ResetEdge
  <2>1. /\ storage' = storage /\ rsp_rdata_q' = ZeroBeat
        /\ reference' = reference /\ expected' = ZeroBeat
      BY <1>3 DEF ResetEdge, RamReset, ReferenceStep
  <2> QED
      BY <1>1, <1>2, <2>1 DEF DifferentialInv
<1>4. CASE ClockEdge
  <2> DEFINE fire == RequestFire(req_valid, req, rsp_ready)
             loaded == AfterBackdoor(storage, bd)
  <2>1. /\ rst_n
        /\ storage' = IF fire /\ req.write THEN AfterWrite(loaded, req) ELSE loaded
        /\ rsp_rdata_q' = IF ~fire THEN rsp_rdata_q
                          ELSE IF req.write THEN ZeroBeat ELSE ReadBeat(storage, req)
      BY <1>4 DEF ClockEdge, RamClock
  <2>2. request_fire <=> fire
      BY <2>1 DEF request_fire, req_ready, RequestFire
  <2>3. fire => SupportedRequest(req)
      BY DEF RequestFire, RequestReady
  <2>4. /\ reference' = IF fire /\ req.write THEN ReferenceAccess
                        ELSE IF bd.write /\ BackdoorInBounds(bd)
                        THEN WriteByte(reference, bd.addr, bd.wdata) ELSE reference
        /\ expected' = IF ~fire THEN expected
                       ELSE IF req.write THEN ZeroBeat ELSE ReferenceAccess
      BY <2>1, <2>2 DEF ReferenceStep
  <2>5. reference' = storage'
    <3>1. CASE fire /\ req.write
      <4>1. ~bd.write
          BY <1>2, <2>2, <3>1 DEF AvoidsWriteConflict
      <4>2. loaded = storage
          BY <4>1 DEF AfterBackdoor
      <4> QED
          BY <1>2, <2>1, <2>3, <2>4, <3>1, <4>2, ReferenceAccessIs
    <3>2. CASE ~(fire /\ req.write)
      <4>1. reference' = loaded
          BY <1>2, <2>4, <3>2, ReferenceBackdoorIs DEF AfterBackdoor
      <4> QED
          BY <2>1, <3>2, <4>1
    <3> QED
        BY <3>1, <3>2
  <2>6. rsp_rdata_q' = expected'
      BY <1>2, <2>1, <2>3, <2>4, ReferenceAccessIs
  <2> QED
      BY <1>1, <2>5, <2>6 DEF DifferentialInv
<1> QED
    BY <1>3, <1>4 DEF Next

\* The differential invariant holds along every behaviour of the port and the model.
THEOREM DifferentialInvariant == DifferentialSpec => []DifferentialInv
<1>1. DifferentialInv /\ [DifferentialNext]_<<vars, referenceVars>> => DifferentialInv'
  <2> SUFFICES ASSUME DifferentialInv, [DifferentialNext]_<<vars, referenceVars>>
               PROVE  DifferentialInv'
      OBVIOUS
  <2>1. CASE DifferentialNext
      BY <2>1, DifferentialStep DEF DifferentialNext
  <2>2. CASE UNCHANGED <<vars, referenceVars>>
    <3>1. PortInv'
        BY <2>2, NextPortInv DEF DifferentialInv
    <3> QED
        BY <2>2, <3>1
           DEF DifferentialInv, AvoidsWriteConflict, request_fire, req_ready, RequestReady,
               ResponseSlotAvailable, SupportedRequest
  <2> QED
      BY <2>1, <2>2
<1> QED
    BY <1>1, InitDifferentialInv, PTL DEF DifferentialSpec

\* After every access and backdoor store the RAM holds the bytes of the tests' reference
\* model, and every response offers what that model returned
\* (behavioral_system_ram.sv:154-292 against byte_memory.py:31-138).
THEOREM RamMatchesReference == DifferentialSpec => []ReferenceAgrees
<1>1. DifferentialInv => ReferenceAgrees
    BY DEF DifferentialInv, ReferenceAgrees
<1> QED
    BY <1>1, DifferentialInvariant, PTL

\* The reference model raises on exactly the requests that the RAM never accepts and on
\* exactly the backdoor stores it ignores (behavioral_system_ram.sv:86-133 against
\* byte_memory.py:31-117).
THEOREM RefusalsMatchReference == DifferentialSpec => []ReferenceRaisesWhereRefused
<1>1. DifferentialInv => ReferenceRaisesWhereRefused
  <2> SUFFICES ASSUME DifferentialInv PROVE ReferenceRaisesWhereRefused
      OBVIOUS
  <2>1. /\ storage \in [0 .. SIZE_BYTES - 1 -> Byte] /\ reference = storage
        /\ req \in Request /\ bd \in Backdoor
      BY RequestsAssumption, BackdoorsAssumption
         DEF DifferentialInv, PortInv, TypeOK, RamTypeOK
  <2>2. SupportedRequest(req) => ReferenceAccess # ValueError
    <3>1. SupportedRequest(req) /\ ~req.write => ReadBeat(storage, req) \in Beat
        BY <2>1, ReadType
    <3>2. AfterWrite(storage, req) \in [0 .. SIZE_BYTES - 1 -> Byte]
        BY <2>1, WriteType
    <3> QED
        BY <2>1, <3>1, <3>2, ReferenceAccessIs, ValueErrorAssumption
  <2>3. ReferenceAccess = ValueError <=> ~SupportedRequest(req)
      BY <2>1, <2>2, ReferenceAccessIs
  <2>4. BackdoorInBounds(bd) =>
            [storage EXCEPT ![bd.addr] = bd.wdata] \in [0 .. SIZE_BYTES - 1 -> Byte]
      BY <2>1 DEF Backdoor
  <2>5. WriteByte(reference, bd.addr, bd.wdata) = ValueError <=> ~BackdoorInBounds(bd)
      BY <2>1, <2>4, ReferenceBackdoorIs, ValueErrorAssumption
  <2> QED
      BY <2>3, <2>5 DEF ReferenceRaisesWhereRefused
<1> QED
    BY <1>1, DifferentialInvariant, PTL

-----------------------------------------------------------------------------
(* The platform around the port. *)

USE DEF timeoutVars, terminationVars, traceVars, simWires, simVars, history

-----------------------------------------------------------------------------
(* The verdict. *)

\* The history and the wires are typed, and the verdict is the first request.
VerdictInv ==
    /\ first \in Verdicts \cup {None}
    /\ fail_code \in FailCodes \cup {NoCode}
    /\ code \in FailCodes \cup {NoCode}
    /\ first # None /\ first.result = "pass" => first.code = NoCode
    /\ VerdictIsFirstRequest

\* The two kinds of verdict are verdicts, and neither is None.
LEMMA VerdictFacts ==
    /\ \A c \in FailCodes \cup {NoCode} :
         /\ [result |-> "fail", code |-> c] \in Verdicts
         /\ [result |-> "pass", code |-> c] \in Verdicts
    /\ \A v \in Verdicts : v # None /\ v.result \in {"pass", "fail"}
    BY ObserverAssumption DEF Verdicts

\* Power-up has no verdict.
LEMMA InitVerdictInv == ObserverInit => VerdictInv
    BY DEF ObserverInit, SimInit, Init, VerdictInv, VerdictIsFirstRequest

\* Reset forgets the verdict and the request behind it.
LEMMA ResetVerdictInv ==
    ASSUME VerdictInv, Edge, Observe, ~rst_n
    PROVE  VerdictInv'
<1>1. /\ first' = None /\ ~fresh'
      /\ ~pass_latched' /\ ~fail_latched' /\ fail_code' = NoCode
      /\ ~pass_event' /\ ~fail_event'
    BY DEF Edge, Observe, TerminationClock, Passes, Fails
<1>2. code' \in FailCodes \cup {NoCode}
    BY DEF Edge
<1> QED
    BY <1>1, <1>2 DEF VerdictInv, VerdictIsFirstRequest

\* An active edge takes a verdict only when there is none, and keeps the one there is.
LEMMA ActiveVerdictInv ==
    ASSUME VerdictInv, Edge, Observe, rst_n
    PROVE  VerdictInv'
<1>1. code' \in FailCodes \cup {NoCode}
    BY DEF Edge
<1>2. /\ (pass_event' <=> Passes) /\ (fail_event' <=> Fails)
      /\ (pass_latched' <=> pass_latched \/ Passes)
      /\ (fail_latched' <=> fail_latched \/ Fails)
      /\ fail_code' = IF Fails THEN code ELSE fail_code
    BY DEF Edge, TerminationClock
<1>3. /\ (fresh' <=> first = None /\ (pass \/ fail))
      /\ first' = IF ~fresh' THEN first
                  ELSE IF fail THEN [result |-> "fail", code |-> code]
                  ELSE [result |-> "pass", code |-> NoCode]
    BY DEF Observe
<1>4. CASE first # None
  <2>1. first \in Verdicts /\ (pass_latched \/ fail_latched)
      BY <1>4, VerdictFacts DEF VerdictInv, VerdictIsFirstRequest
  <2>2. ~Passes /\ ~Fails
      BY <2>1 DEF Passes, Fails
  <2>3. /\ ~fresh' /\ first' = first /\ fail_code' = fail_code
        /\ ~pass_event' /\ ~fail_event'
        /\ (pass_latched' <=> pass_latched) /\ (fail_latched' <=> fail_latched)
      BY <1>2, <1>3, <1>4, <2>2 DEF VerdictInv
  <2> QED
      BY <1>1, <1>4, <2>3 DEF VerdictInv, VerdictIsFirstRequest
<1>5. CASE first = None /\ fail
  <2>1. Fails /\ ~Passes /\ ~pass_latched /\ ~fail_latched
      BY <1>5 DEF VerdictInv, VerdictIsFirstRequest, Fails, Passes
  <2>2. /\ fresh' /\ first' = [result |-> "fail", code |-> code] /\ fail_code' = code
        /\ ~pass_event' /\ fail_event'
        /\ ~pass_latched' /\ fail_latched'
      BY <1>2, <1>3, <1>5, <2>1
  <2>3. first' \in Verdicts /\ first' # None /\ first'.result = "fail" /\ first'.code = code
      BY <2>2, VerdictFacts DEF VerdictInv
  <2> QED
      BY <1>1, <2>2, <2>3 DEF VerdictInv, VerdictIsFirstRequest
<1>6. CASE first = None /\ ~fail /\ pass
  <2>1. Passes /\ ~Fails /\ ~pass_latched /\ ~fail_latched /\ fail_code = NoCode
      BY <1>6 DEF VerdictInv, VerdictIsFirstRequest, Fails, Passes
  <2>2. /\ fresh' /\ first' = [result |-> "pass", code |-> NoCode] /\ fail_code' = NoCode
        /\ pass_event' /\ ~fail_event'
        /\ pass_latched' /\ ~fail_latched'
      BY <1>2, <1>3, <1>6, <2>1
  <2>3. first' \in Verdicts /\ first' # None /\ first'.result = "pass" /\ first'.code = NoCode
      BY <2>2, VerdictFacts
  <2> QED
      BY <1>1, <2>2, <2>3 DEF VerdictInv, VerdictIsFirstRequest
<1>7. CASE first = None /\ ~fail /\ ~pass
  <2>1. ~Passes /\ ~Fails /\ ~pass_latched /\ ~fail_latched
      BY <1>7 DEF VerdictInv, VerdictIsFirstRequest, Fails, Passes
  <2>2. /\ ~fresh' /\ first' = None /\ fail_code' = fail_code
        /\ ~pass_event' /\ ~fail_event'
        /\ ~pass_latched' /\ ~fail_latched'
      BY <1>2, <1>3, <1>7, <2>1
  <2> QED
      BY <1>1, <1>7, <2>2 DEF VerdictInv, VerdictIsFirstRequest
<1> QED
    BY <1>4, <1>5, <1>6, <1>7

\* The verdict invariant holds along every behaviour.
THEOREM VerdictInvariant == ObserverSpec => []VerdictInv
<1>1. VerdictInv /\ [ObserverNext]_<<simVars, history>> => VerdictInv'
  <2> SUFFICES ASSUME VerdictInv, [ObserverNext]_<<simVars, history>> PROVE VerdictInv'
      OBVIOUS
  <2>1. CASE Edge /\ Observe
      BY <2>1, ResetVerdictInv, ActiveVerdictInv DEF VerdictInv
  <2>2. CASE UNCHANGED <<simVars, history>>
      BY <2>2 DEF VerdictInv, VerdictIsFirstRequest, vars, wires
  <2> QED
      BY <2>1, <2>2 DEF ObserverNext, Stopped
<1> QED
    BY <1>1, InitVerdictInv, PTL DEF ObserverSpec

\* In every simulation the latched result is that of the first edge of the reset epoch
\* that asked for one (sim_termination.sv:32-48).
THEOREM VerdictIsFirst == ObserverSpec => []VerdictIsFirstRequest
    BY VerdictInvariant, PTL DEF VerdictInv

-----------------------------------------------------------------------------
(* The watchdog. *)

TimeoutInv ==
    /\ active \in 0 .. ActiveBound
    /\ TimeoutExact

\* An edge takes the count and the expiry to those of the new number of active edges.
LEMMA EdgeTimeoutInv ==
    ASSUME TimeoutInv, Edge, Observe
    PROVE  TimeoutInv'
<1>1. /\ MAX_CYCLES \in Nat /\ COUNT_MODULUS \in Nat /\ MAX_CYCLES < COUNT_MODULUS
      /\ ActiveBound \in Nat /\ MAX_CYCLES < ActiveBound /\ active \in 0 .. ActiveBound
    BY SimAssumption, ObserverAssumption DEF TimeoutInv
<1>2. CASE ~rst_n \/ MAX_CYCLES = 0
  <2>1. ~timeout' /\ cycle_count' = 0
      BY <1>2 DEF Edge, TimeoutClock
  <2>2. active' \in 0 .. ActiveBound /\ (MAX_CYCLES # 0 => active' = 0)
      BY <1>1, <1>2 DEF Observe
  <2> QED
      BY <1>1, <2>1, <2>2 DEF TimeoutInv, TimeoutExact
<1>3. CASE rst_n /\ MAX_CYCLES # 0 /\ timeout
  <2>1. active >= MAX_CYCLES /\ cycle_count = MAX_CYCLES
      BY <1>1, <1>3 DEF TimeoutInv, TimeoutExact
  <2>2. timeout' /\ cycle_count' = MAX_CYCLES
      BY <1>3, <2>1 DEF Edge, TimeoutClock
  <2>3. active' >= MAX_CYCLES /\ active' \in 0 .. ActiveBound
      BY <1>1, <1>3, <2>1 DEF Observe
  <2> QED
      BY <1>1, <1>3, <2>2, <2>3 DEF TimeoutInv, TimeoutExact
<1>4. CASE rst_n /\ MAX_CYCLES # 0 /\ ~timeout
  <2>1. active < MAX_CYCLES /\ cycle_count = active
      BY <1>1, <1>4 DEF TimeoutInv, TimeoutExact
  <2>2. active' = active + 1
      BY <1>1, <1>4, <2>1 DEF Observe
  <2>3. cycle_count' = active + 1
    <3>1. cycle_count' = (active + 1) % COUNT_MODULUS
        BY <1>4, <2>1 DEF Edge, TimeoutClock
    <3> QED
        BY <1>1, <2>1, <3>1
  <2>4. timeout' <=> active + 1 = MAX_CYCLES
    <3>1. timeout' <=> Expires
        BY <1>4 DEF Edge, TimeoutClock
    <3>2. Expires <=> active = MAX_CYCLES - 1
        BY <1>4, <2>1 DEF Expires
    <3> QED
        BY <1>1, <3>1, <3>2
  <2> QED
      BY <1>1, <1>4, <2>1, <2>2, <2>3, <2>4 DEF TimeoutInv, TimeoutExact
<1> QED
    BY <1>2, <1>3, <1>4

\* The watchdog invariant holds along every behaviour.
THEOREM WatchdogInvariant == ObserverSpec => []TimeoutInv
<1>1. ObserverInit => TimeoutInv
  <2> SUFFICES ASSUME ObserverInit PROVE TimeoutInv
      OBVIOUS
  <2>1. active = 0 /\ ~timeout /\ cycle_count = 0
      BY DEF ObserverInit, SimInit
  <2> QED
      BY <2>1, SimAssumption, ObserverAssumption DEF TimeoutInv, TimeoutExact
<1>2. TimeoutInv /\ [ObserverNext]_<<simVars, history>> => TimeoutInv'
  <2> SUFFICES ASSUME TimeoutInv, [ObserverNext]_<<simVars, history>> PROVE TimeoutInv'
      OBVIOUS
  <2>1. CASE Edge /\ Observe
      BY <2>1, EdgeTimeoutInv
  <2>2. CASE UNCHANGED <<simVars, history>>
      BY <2>2 DEF TimeoutInv, TimeoutExact
  <2> QED
      BY <2>1, <2>2 DEF ObserverNext, Stopped
<1> QED
    BY <1>1, <1>2, PTL DEF ObserverSpec

\* The watchdog fires after exactly MAX_CYCLES active edges, for every limit that the
\* counter can hold (sim_cycle_timeout.sv:19-30).
THEOREM WatchdogExact == ObserverSpec => []TimeoutExact
    BY WatchdogInvariant, PTL DEF TimeoutInv

-----------------------------------------------------------------------------
(* The exit status.  A simulation that still runs has behind it neither an expiry   *)
(* that is fatal, nor a verdict whose parameter ends the simulation.  So the edge    *)
(* that ends it took the first request or reached the limit, and an expiry beside a  *)
(* PASS, where it is fatal, is of the same edge.                                   *)

\* The calls of one edge, as the history tells them after it: the watchdog expires at
\* the limit, and a request that gives a result is the first.
LEMMA EdgeCalls ==
    ASSUME VerdictInv, TimeoutInv, Edge, Observe
    PROVE  /\ Expires => active' = MAX_CYCLES /\ MAX_CYCLES # 0
           /\ Passes => first' # None /\ first'.result = "pass" /\ fresh'
           /\ Fails => first' # None /\ first'.result = "fail" /\ fresh'
<1>1. VerdictInv' /\ TimeoutInv'
    BY ResetVerdictInv, ActiveVerdictInv, EdgeTimeoutInv
<1>2. ASSUME Expires
      PROVE  active' = MAX_CYCLES /\ MAX_CYCLES # 0
  <2>1. active = MAX_CYCLES - 1 /\ rst_n /\ MAX_CYCLES # 0
      BY <1>2, SimAssumption, ObserverAssumption DEF Expires, TimeoutInv, TimeoutExact
  <2> QED
      BY <2>1, SimAssumption, ObserverAssumption DEF TimeoutInv, Observe
<1>3. Passes => pass_latched' /\ pass_event'
    BY DEF Edge, TerminationClock, Passes
<1>4. Fails => fail_latched' /\ fail_event'
    BY DEF Edge, TerminationClock, Fails
<1> QED
    BY <1>1, <1>2, <1>3, <1>4 DEF VerdictInv, VerdictIsFirstRequest

\* What is behind the simulation after an edge was behind it before, or is of this edge.
LEMMA EdgePast ==
    ASSUME VerdictInv, TimeoutInv, Edge, Observe
    PROVE  /\ MAX_CYCLES # 0 /\ active' >= MAX_CYCLES => Expires \/ active >= MAX_CYCLES
           /\ first' # None /\ first'.result = "pass" =>
                 Passes \/ (first # None /\ first.result = "pass")
           /\ first' # None /\ first'.result = "fail" =>
                 Fails \/ (first # None /\ first.result = "fail")
<1>1. VerdictInv' /\ TimeoutInv'
    BY ResetVerdictInv, ActiveVerdictInv, EdgeTimeoutInv
<1>2. timeout' => Expires \/ timeout
    BY DEF Edge, TimeoutClock
<1>3. MAX_CYCLES # 0 /\ active' >= MAX_CYCLES => Expires \/ active >= MAX_CYCLES
    BY <1>1, <1>2 DEF TimeoutInv, TimeoutExact
<1>4. /\ pass_latched' => Passes \/ pass_latched
      /\ fail_latched' => Fails \/ fail_latched
    BY DEF Edge, TerminationClock
<1> QED
    BY <1>1, <1>3, <1>4 DEF VerdictInv, VerdictIsFirstRequest

LEMMA EdgeExitStatus ==
    ASSUME VerdictInv, TimeoutInv, ExitStatusSound, Edge, Observe
    PROVE  ExitStatusSound'
<1> DEFINE onTimeout == "FATAL_ON_TIMEOUT" \in enabled
           onFail == "FATAL_ON_FAIL" \in enabled
           onPass == "FINISH_ON_PASS" \in enabled
           passed == first # None /\ first.result = "pass"
           failed == first # None /\ first.result = "fail"
<1>1. /\ enabled' = enabled
      /\ exit' \in IF Statuses = {} THEN {"running"} ELSE Statuses
    BY DEF Edge, ExitClock
<1>2. /\ ~(onTimeout /\ MAX_CYCLES # 0 /\ active >= MAX_CYCLES)
      /\ ~(onPass /\ passed) /\ ~(onFail /\ failed)
    BY DEF Edge, ExitStatusSound
<1>3. /\ Expires => active' = MAX_CYCLES /\ MAX_CYCLES # 0
      /\ Passes => passed' /\ fresh'
      /\ Fails => failed' /\ fresh'
    BY EdgeCalls
<1>4. /\ MAX_CYCLES # 0 /\ active' >= MAX_CYCLES => Expires \/ active >= MAX_CYCLES
      /\ passed' => Passes \/ passed
      /\ failed' => Fails \/ failed
    BY EdgePast
<1>5. MAX_CYCLES \in Nat
    BY SimAssumption
<1>6. ASSUME exit' = "running"
      PROVE  /\ ~(onTimeout /\ MAX_CYCLES # 0 /\ active' >= MAX_CYCLES)
             /\ ~(onPass /\ passed') /\ ~(onFail /\ failed')
  <2>1. ~Fatal /\ ~Finish
      BY <1>1, <1>6 DEF Statuses
  <2> QED
      BY <1>2, <1>4, <2>1 DEF Fatal, Finish
<1>7. ASSUME exit' = "zero"
      PROVE  /\ onPass /\ passed' /\ fresh'
             /\ onTimeout /\ MAX_CYCLES # 0 /\ active' >= MAX_CYCLES => active' = MAX_CYCLES
  <2>1. Finish
      BY <1>1, <1>7 DEF Statuses
  <2> QED
      BY <1>2, <1>3, <1>4, <2>1 DEF Finish
<1>8. ASSUME exit' = "nonzero"
      PROVE  \/ onTimeout /\ MAX_CYCLES # 0 /\ active' >= MAX_CYCLES /\ active' = MAX_CYCLES
             \/ onFail /\ failed' /\ fresh'
  <2>1. Fatal
      BY <1>1, <1>8 DEF Statuses
  <2> QED
      BY <1>3, <1>5, <2>1 DEF Fatal
<1> QED
    BY <1>1, <1>6, <1>7, <1>8 DEF ExitStatusSound

\* The exit status means what it says, for each of the eight settings of the parameters:
\* zero only for a PASS that was the first request, with no fatal expiry on an earlier
\* edge; nonzero only for a fatal expiry or a fatal first FAIL; running only with none of
\* them behind (sim_termination.sv:34-47, sim_cycle_timeout.sv:22-28,
\* ps2_sim_top.sv:263-277).
THEOREM ExitStatusIsSound == ObserverSpec => []ExitStatusSound
<1>1. ObserverInit => ExitStatusSound
    BY SimAssumption DEF ObserverInit, SimInit, ExitStatusSound
<1>2. VerdictInv /\ TimeoutInv /\ ExitStatusSound /\ [ObserverNext]_<<simVars, history>>
          => ExitStatusSound'
  <2> SUFFICES ASSUME VerdictInv, TimeoutInv, ExitStatusSound,
                      [ObserverNext]_<<simVars, history>>
               PROVE  ExitStatusSound'
      OBVIOUS
  <2>1. CASE Edge /\ Observe
      BY <2>1, EdgeExitStatus
  <2>2. CASE UNCHANGED <<simVars, history>>
      BY <2>2 DEF ExitStatusSound
  <2> QED
      BY <2>1, <2>2 DEF ObserverNext, Stopped
<1> QED
    BY <1>1, <1>2, VerdictInvariant, WatchdogInvariant, PTL DEF ObserverSpec
-----------------------------------------------------------------------------
(* The port inside the platform.  The observed platform steps the memory port at every *)
(* edge, so the port's invariant holds in it.                                         *)

\* The port's invariant holds along every behaviour of the platform.
THEOREM PlatformPortInvariant == ObserverSpec => []PortInv
<1>1. ObserverInit => PortInv
    BY InitPortInv DEF ObserverInit, SimInit
<1>2. PortInv /\ [ObserverNext]_<<simVars, history>> => PortInv'
    BY NextPortInv DEF ObserverNext, Edge, Stopped
<1> QED
    BY <1>1, <1>2, PTL DEF ObserverSpec

-----------------------------------------------------------------------------
(* The trace sinks. *)

\* Counting modulo the counter's width.
LEMMA StampType ==
    ASSUME NEW count \in Int
    PROVE  Stamp(count) \in 0 .. COUNT_MODULUS - 1
    BY SimAssumption DEF Stamp

\* A stamped count differs by one from the count it was made of, modulo the width.
LEMMA StampBack ==
    ASSUME NEW count \in 0 .. COUNT_MODULUS - 1
    PROVE  (Stamp(count) - 1) % COUNT_MODULUS = count
<1>1. COUNT_MODULUS \in Nat /\ COUNT_MODULUS > 0
    BY SimAssumption
<1>2. CASE count + 1 < COUNT_MODULUS
  <2>1. Stamp(count) = count + 1
      BY <1>1, <1>2 DEF Stamp
  <2> QED
      BY <1>1, <2>1
<1>3. CASE count + 1 = COUNT_MODULUS
  <2>1. Stamp(count) = 0
      BY <1>1, <1>3 DEF Stamp
  <2>2. (-1) % COUNT_MODULUS = COUNT_MODULUS - 1
      BY <1>1
  <2> QED
      BY <1>1, <1>3, <2>1, <2>2
<1> QED
    BY <1>1, <1>2, <1>3

\* A remainder is known by its quotient.
LEMMA ModuloOfMultiple ==
    ASSUME NEW M \in Nat \ {0}, NEW q \in Int, NEW r \in 0 .. M - 1
    PROVE  ((M * q) + r) % M = r
    OBVIOUS

\* The stamp of a number of edges modulo the width is that of the next number.
LEMMA StampModulo ==
    ASSUME NEW n \in Nat
    PROVE  Stamp(n % COUNT_MODULUS) = (n + 1) % COUNT_MODULUS
<1> DEFINE M == COUNT_MODULUS
           s == n % M
           p == n \div M
<1>1. M \in Nat /\ M > 0
    BY SimAssumption
<1>2. n = (M * p) + s /\ p \in Int /\ s \in 0 .. M - 1
    BY <1>1
<1>3. Stamp(s) = (s + 1) % M
    BY DEF Stamp
<1> HIDE DEF M, s, p
<1>4. CASE s + 1 < M
  <2>1. n + 1 = (M * p) + (s + 1) /\ s + 1 \in 0 .. M - 1
      BY <1>1, <1>2, <1>4
  <2>2. (n + 1) % M = s + 1
      BY <1>1, <1>2, <2>1, ModuloOfMultiple
  <2>3. (s + 1) % M = s + 1
      BY <1>1, <1>2, <1>4
  <2> QED
      BY <1>3, <2>2, <2>3 DEF s, M
<1>5. CASE s + 1 = M
  <2>1. n + 1 = (M * (p + 1)) + 0 /\ 0 \in 0 .. M - 1 /\ p + 1 \in Int
      BY <1>1, <1>2, <1>5
  <2>2. (n + 1) % M = 0
      BY <1>1, <2>1, ModuloOfMultiple
  <2>3. (s + 1) % M = 0
      BY <1>1, <1>5
  <2> QED
      BY <1>3, <2>2, <2>3 DEF s, M
<1> QED
    BY <1>1, <1>2, <1>4, <1>5
\* What the sinks and the registers beside them satisfy: while the simulation runs the
\* architectural sink's counter is the number of its records.  The edge that ends it may
\* be cut short before a record is written, which is why the two may differ from then on.
SinkInv ==
    /\ enabled \subseteq ExitParameters
    /\ exit \in {"running", "zero", "nonzero"}
    /\ timeout \in BOOLEAN
    /\ {pass_event, pass_latched, fail_event, fail_latched} \subseteq BOOLEAN
    /\ mem_cycle \in 0 .. COUNT_MODULUS - 1
    /\ arch_sequence \in 0 .. COUNT_MODULUS - 1
    /\ exit = "running" => arch_sequence = events
    /\ StampsAgree
    /\ TraceMatchesBus

\* The invariant holds at power-up.
LEMMA InitSinkInv == ObserverInit => SinkInv
<1> SUFFICES ASSUME ObserverInit PROVE SinkInv
    OBVIOUS
<1>1. /\ enabled \subseteq ExitParameters
      /\ exit = "running" /\ ~timeout /\ timeout \in BOOLEAN
      /\ {pass_event, pass_latched, fail_event, fail_latched} \subseteq BOOLEAN
      /\ mem_cycle = 0 /\ arch_cycle = 0 /\ arch_sequence = 0 /\ events = 0 /\ active = 0
      /\ mem_records = <<>> /\ arch_records = <<>>
      /\ unanswered = 0 /\ ~outstanding_q
    BY DEF ObserverInit, SimInit, Init, CheckerInit
<1>2. 0 \in 0 .. COUNT_MODULUS - 1 /\ 0 % COUNT_MODULUS = 0
    BY SimAssumption
<1>3. StampsAgree
    BY <1>1, <1>2 DEF StampsAgree
<1> QED
    BY <1>1, <1>2, <1>3 DEF SinkInv, TraceMatchesBus

\* The memory sink writes at most one record of each kind, all with the cycle of this
\* edge, and those it writes are the transfers of the bus.
LEMMA RecordsOfTheEdge ==
    ASSUME rst_n
    PROVE  /\ \A k \in 1 .. Len(MemoryRecords) : MemoryRecords[k].cycle = Stamp(mem_cycle)
           /\ Count("REQ", MemoryRecords) = IF request_fire THEN 1 ELSE 0
           /\ Count("RSP", MemoryRecords) = IF response_fire THEN 1 ELSE 0
<1> DEFINE q == [cycle |-> Stamp(mem_cycle), kind |-> "REQ"]
           p == [cycle |-> Stamp(mem_cycle), kind |-> "RSP"]
           Of(kind, records) == {k \in DOMAIN records : records[k].kind = kind}
<1>1. q.kind = "REQ" /\ p.kind = "RSP" /\ q.kind # p.kind
      /\ q.cycle = Stamp(mem_cycle) /\ p.cycle = Stamp(mem_cycle)
    OBVIOUS
<1>2. MemoryRecords = (IF request_fire THEN <<q>> ELSE <<>>)
                      \o (IF response_fire THEN <<p>> ELSE <<>>)
    BY DEF MemoryRecords
<1>3. \A kind, records : Count(kind, records) = Cardinality(Of(kind, records))
    BY DEF Count
<1>4. Cardinality({}) = 0 /\ Cardinality({1}) = 1 /\ Cardinality({2}) = 1
    BY FS_EmptySet, FS_Singleton
<1> HIDE DEF q, p
<1>5. CASE request_fire /\ response_fire
  <2>1. MemoryRecords = <<q>> \o <<p>>
      BY <1>2, <1>5
  <2>2. /\ Len(MemoryRecords) = 2 /\ DOMAIN MemoryRecords = {1, 2}
        /\ MemoryRecords[1] = q /\ MemoryRecords[2] = p
    <3>1. <<q>> \in Seq({q, p}) /\ <<p>> \in Seq({q, p}) /\ Len(<<q>>) = 1 /\ Len(<<p>>) = 1
          /\ <<q>>[1] = q /\ <<p>>[1] = p
        OBVIOUS
    <3>2. /\ MemoryRecords \in Seq({q, p})
          /\ Len(MemoryRecords) = Len(<<q>>) + Len(<<p>>)
          /\ \A i \in 1 .. Len(<<q>>) + Len(<<p>>) : MemoryRecords[i] =
                 IF i <= Len(<<q>>) THEN <<q>>[i] ELSE <<p>>[i - Len(<<q>>)]
        BY <2>1, <3>1, ConcatProperties, Zenon
    <3>3. Len(MemoryRecords) = 2
        BY <3>1, <3>2
    <3> QED
        BY <3>1, <3>2, <3>3
  <2>3. Of("REQ", MemoryRecords) = {1} /\ Of("RSP", MemoryRecords) = {2}
      BY <1>1, <2>2
  <2> QED
      BY <1>1, <1>3, <1>4, <1>5, <2>2, <2>3
<1>6. CASE request_fire /\ ~response_fire
  <2>1. MemoryRecords = <<q>>
      BY <1>2, <1>6
  <2>2. Of("REQ", <<q>>) = {1} /\ Of("RSP", <<q>>) = {}
      BY <1>1
  <2> QED
      BY <1>1, <1>3, <1>4, <1>6, <2>1, <2>2
<1>7. CASE ~request_fire /\ response_fire
  <2>1. MemoryRecords = <<p>>
      BY <1>2, <1>7
  <2>2. Of("REQ", <<p>>) = {} /\ Of("RSP", <<p>>) = {1}
      BY <1>1
  <2> QED
      BY <1>1, <1>3, <1>4, <1>7, <2>1, <2>2
<1>8. CASE ~request_fire /\ ~response_fire
  <2>1. MemoryRecords = <<>>
      BY <1>2, <1>8
  <2>2. Of("REQ", <<>>) = {} /\ Of("RSP", <<>>) = {}
      OBVIOUS
  <2> QED
      BY <1>3, <1>4, <1>8, <2>1, <2>2
<1> QED
    BY <1>5, <1>6, <1>7, <1>8

\* An edge ends the simulation exactly when it calls $fatal or $finish.
LEMMA EdgeExit ==
    ASSUME Edge
    PROVE  /\ exit' \in {"running", "zero", "nonzero"}
           /\ exit' = "running" <=> Statuses = {}
<1>1. exit' \in IF Statuses = {} THEN {"running"} ELSE Statuses
    BY DEF Edge, ExitClock
<1>2. Statuses \subseteq {"zero", "nonzero"}
    BY DEF Statuses
<1> QED
    BY <1>1, <1>2

\* An edge with reset released numbers its records like the edge.
LEMMA ActiveStampsAgree ==
    ASSUME SinkInv, TimeoutInv, Edge, Observe, rst_n
    PROVE  /\ StampsAgree'
           /\ mem_cycle' \in 0 .. COUNT_MODULUS - 1
           /\ arch_sequence' \in 0 .. COUNT_MODULUS - 1
           /\ exit' = "running" => arch_sequence' = events'
<1>1. /\ exit = "running" /\ arch_sequence = events /\ mem_cycle = arch_cycle
      /\ arch_sequence \in 0 .. COUNT_MODULUS - 1 /\ mem_cycle \in 0 .. COUNT_MODULUS - 1
      /\ active < ActiveBound => mem_cycle = active % COUNT_MODULUS
      /\ active \in 0 .. ActiveBound
    BY DEF SinkInv, StampsAgree, Edge, TimeoutInv
<1>2. /\ mem_cycle' = Stamp(mem_cycle) /\ arch_cycle' = Stamp(mem_cycle)
      /\ arch_sequence' = IF event_valid THEN Stamp(arch_sequence) ELSE arch_sequence
      /\ mem_records' = MemoryRecords \/ (Statuses # {} /\ mem_records' = <<>>)
      /\ arch_records' = ArchRecords \/ (Statuses # {} /\ arch_records' = <<>>)
    BY <1>1 DEF Edge, TraceClock
<1>3. mem_cycle' \in 0 .. COUNT_MODULUS - 1 /\ arch_sequence' \in 0 .. COUNT_MODULUS - 1
  <2>1. mem_cycle \in Int /\ arch_sequence \in Int
      BY <1>1, SimAssumption
  <2>2. Stamp(mem_cycle) \in 0 .. COUNT_MODULUS - 1
        /\ Stamp(arch_sequence) \in 0 .. COUNT_MODULUS - 1
      BY <2>1, StampType
  <2> QED
      BY <1>1, <1>2, <2>2
<1>4. active' < ActiveBound => mem_cycle' = active' % COUNT_MODULUS
  <2>1. active' = IF active < ActiveBound THEN active + 1 ELSE active
      BY DEF Observe
  <2>2. active' < ActiveBound => active < ActiveBound /\ active' = active + 1
      BY <1>1, <2>1, ObserverAssumption
  <2>3. Stamp(active % COUNT_MODULUS) = (active + 1) % COUNT_MODULUS
      BY <1>1, StampModulo, ObserverAssumption
  <2> QED
      BY <1>1, <1>2, <2>2, <2>3
<1>5. \A k \in 1 .. Len(mem_records') : mem_records'[k].cycle = mem_cycle'
    BY <1>2, RecordsOfTheEdge
<1>6. events' = (events + Len(arch_records')) % COUNT_MODULUS
    BY DEF Observe
<1>7. CASE event_valid /\ arch_records' = ArchRecords
  <2>1. arch_records' = <<[cycle |-> Stamp(arch_cycle), sequence |-> arch_sequence]>>
      BY <1>7 DEF ArchRecords
  <2>2. events' = Stamp(arch_sequence)
      BY <1>1, <1>6, <2>1 DEF Stamp
  <2>3. arch_sequence = (events' - 1) % COUNT_MODULUS
      BY <1>1, <2>2, StampBack
  <2>4. \A k \in 1 .. Len(arch_records') :
            /\ arch_records'[k].cycle = arch_cycle'
            /\ arch_records'[k].sequence = (events' - 1) % COUNT_MODULUS
      BY <1>1, <1>2, <2>1, <2>3
  <2> QED
      BY <1>2, <1>3, <1>4, <1>5, <1>7, <2>2, <2>4 DEF StampsAgree
<1>8. CASE ~event_valid \/ arch_records' # ArchRecords
  <2>1. arch_records' = <<>>
      BY <1>2, <1>8 DEF ArchRecords
  <2>2. events' = events
      BY <1>1, <1>6, <2>1, SimAssumption
  <2>3. exit' = "running" => ~event_valid
      BY <1>2, <1>8, EdgeExit
  <2> QED
      BY <1>1, <1>2, <1>3, <1>4, <1>5, <2>1, <2>2, <2>3 DEF StampsAgree
<1> QED
    BY <1>2, <1>7, <1>8

\* A request or a response is recorded at the edge that the protocol checker counts it.
LEMMA ActiveTraceMatchesBus ==
    ASSUME PortInv, SinkInv, Edge, Observe, rst_n
    PROVE  TraceMatchesBus'
<1> SUFFICES ASSUME exit' = "running"
             PROVE  unanswered' = IF outstanding_q' THEN 1 ELSE 0
    BY DEF TraceMatchesBus
<1>1. mem_records' = MemoryRecords
    BY EdgeExit DEF Edge, TraceClock
<1>2. unanswered = IF outstanding_q THEN 1 ELSE 0
    BY DEF SinkInv, TraceMatchesBus, Edge
<1>3. unanswered' = (unanswered + (IF request_fire THEN 1 ELSE 0))
                    - (IF response_fire THEN 1 ELSE 0)
    BY <1>1, <1>2, RecordsOfTheEdge DEF Observe
<1>4. /\ ReqFire(bus) <=> request_fire
      /\ RspFire(bus) <=> response_fire
    BY DEF bus, ReqFire, RspFire, request_fire, response_fire
<1>5. /\ request_fire /\ ~response_fire => outstanding_q'
      /\ ~request_fire /\ response_fire => ~outstanding_q'
      /\ (request_fire <=> response_fire) => outstanding_q' = outstanding_q
  <2>1. CheckerClock(bus)
      BY DEF Edge, Next, ResetEdge, ClockEdge
  <2> QED
      BY <1>4, <2>1 DEF CheckerClock, ReqFire, RspFire, request_fire, response_fire
<1>6. /\ request_fire => ~response_pending_q /\ (~rsp_valid_q \/ response_fire)
      /\ response_fire => rsp_valid_q
    BY DEF request_fire, req_ready, RequestReady, ResponseSlotAvailable, response_fire
<1>7. /\ request_fire /\ ~response_fire => ~outstanding_q
      /\ response_fire => outstanding_q
    BY <1>6 DEF PortInv, OutstandingExact
<1> QED
    BY <1>2, <1>3, <1>5, <1>7

\* Every edge preserves the sinks' invariant.
LEMMA EdgeSinkInv ==
    ASSUME PortInv, TimeoutInv, SinkInv, Edge, Observe
    PROVE  SinkInv'
<1>1. enabled' \subseteq ExitParameters /\ exit' \in {"running", "zero", "nonzero"}
    BY EdgeExit DEF SinkInv, Edge
<1>2. timeout' \in BOOLEAN
    BY DEF Edge, TimeoutClock, Expires, SinkInv
<1>3. {pass_event', pass_latched', fail_event', fail_latched'} \subseteq BOOLEAN
  <2>1. pass_event' \in BOOLEAN /\ fail_event' \in BOOLEAN
      BY DEF Edge, TerminationClock, Passes, Fails
  <2>2. pass_latched' \in BOOLEAN /\ fail_latched' \in BOOLEAN
      BY DEF Edge, TerminationClock
  <2> QED
      BY <2>1, <2>2
<1>4. CASE rst_n
    BY <1>1, <1>2, <1>3, <1>4, ActiveStampsAgree, ActiveTraceMatchesBus DEF SinkInv
<1>5. CASE ~rst_n
  <2>1. /\ mem_cycle' = 0 /\ arch_cycle' = 0 /\ arch_sequence' = 0
        /\ mem_records' = <<>> /\ arch_records' = <<>>
      BY <1>5 DEF Edge, TraceClock, MemoryRecords, ArchRecords
  <2>2. active' = 0 /\ events' = 0 /\ unanswered' = 0
      BY <1>5 DEF Observe
  <2>3. ~outstanding_q'
      BY <1>5 DEF Edge, Next, ResetEdge, ClockEdge, CheckerReset
  <2>4. 0 \in 0 .. COUNT_MODULUS - 1 /\ 0 % COUNT_MODULUS = 0
      BY SimAssumption
  <2>5. StampsAgree'
      BY <2>1, <2>2, <2>4 DEF StampsAgree
  <2> QED
      BY <1>1, <1>2, <1>3, <2>1, <2>2, <2>3, <2>4, <2>5 DEF SinkInv, TraceMatchesBus
<1> QED
    BY <1>4, <1>5

\* The sinks' invariant holds along every behaviour.
THEOREM SinkInvariant == ObserverSpec => []SinkInv
<1>1. PortInv /\ TimeoutInv /\ SinkInv /\ [ObserverNext]_<<simVars, history>> => SinkInv'
  <2> SUFFICES ASSUME PortInv, TimeoutInv, SinkInv, [ObserverNext]_<<simVars, history>>
               PROVE  SinkInv'
      OBVIOUS
  <2>1. CASE Edge /\ Observe
      BY <2>1, EdgeSinkInv
  <2>2. CASE UNCHANGED <<simVars, history>>
      BY <2>2 DEF SinkInv, StampsAgree, TraceMatchesBus, vars, checkerVars
  <2> QED
      BY <2>1, <2>2 DEF ObserverNext, Stopped
<1> QED
    BY <1>1, InitSinkInv, PlatformPortInvariant, WatchdogInvariant, PTL DEF ObserverSpec

\* Every register and wire of the platform keeps its type; in particular no counter
\* leaves its width.
THEOREM SimTypeCorrect == ObserverSpec => []SimTypeOK
<1>1. PortInv /\ VerdictInv /\ TimeoutInv /\ SinkInv => SimTypeOK
  <2> SUFFICES ASSUME PortInv, VerdictInv, TimeoutInv, SinkInv PROVE SimTypeOK
      OBVIOUS
  <2>1. TypeOK /\ fail_code \in FailCodes \cup {NoCode}
      BY DEF PortInv, VerdictInv
  <2>2. cycle_count \in 0 .. COUNT_MODULUS - 1
      BY SimAssumption, ObserverAssumption DEF TimeoutInv, TimeoutExact
  <2> QED
      BY <2>1, <2>2 DEF SimTypeOK, SinkInv, StampsAgree
<1> QED
    BY <1>1, PlatformPortInvariant, VerdictInvariant, WatchdogInvariant, SinkInvariant, PTL

\* All observers number the edges alike, for every width of their counters
\* (memory_transaction_trace.sv:38-59, architectural_trace_sink.sv:42-61).
THEOREM SinksAgree == ObserverSpec => []StampsAgree
    BY SinkInvariant, PTL DEF SinkInv

\* The memory trace by itself tells how many requests are unanswered, also across resets
\* that drop one (memory_transaction_trace.sv:39-59).
THEOREM TraceTellsOutstanding == ObserverSpec => []TraceMatchesBus
    BY SinkInvariant, PTL DEF SinkInv
==============================================================================
