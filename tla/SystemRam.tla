------------------------------ MODULE SystemRam ------------------------------
(***************************************************************************)
(* The behavioural system RAM (sim/models/behavioral_system_ram.sv): a     *)
(* byte-addressed storage behind a single-outstanding request/response     *)
(* port, plus the backdoor through which the simulation harness loads it.  *)
(*                                                                         *)
(* The module declares the RAM's registers and says what one clock edge    *)
(* does to them as a function of the wires at that edge.  Who drives the   *)
(* wires is left to the module that composes the RAM with a bus master.    *)
(***************************************************************************)
EXTENDS Integers

CONSTANTS
    SIZE_BYTES,               \* bytes of storage
    RESPONSE_LATENCY_CYCLES,  \* extra cycles between acceptance and response
    Byte,                     \* the values a byte can hold
    ZeroByte,                 \* the all-zero byte
    PowerUpStorage            \* storage has no reset: the contents it may start with

ASSUME SizeAssumption == SIZE_BYTES \in Nat /\ SIZE_BYTES >= 16
ASSUME LatencyAssumption == RESPONSE_LATENCY_CYCLES \in Nat
ASSUME ByteAssumption == ZeroByte \in Byte
ASSUME PowerUpAssumption == PowerUpStorage \subseteq [0 .. SIZE_BYTES - 1 -> Byte]

VARIABLES
    storage,             \* [0 .. SIZE_BYTES - 1 -> Byte]
    rsp_valid_q,         \* a response is being offered
    rsp_rdata_q,         \* its data, one byte per lane
    rsp_error_q,         \* its error flag
    response_pending_q,  \* an accepted request is counting down to its response
    response_delay_q     \* edges left to count

ramVars == <<storage, rsp_valid_q, rsp_rdata_q, rsp_error_q,
             response_pending_q, response_delay_q>>

------------------------------------------------------------------------------
(* The wires of memory_bus_if, grouped. *)

Lane == 0 .. 15
Beat == [Lane -> Byte]
ZeroBeat == [lane \in Lane |-> ZeroByte]

\* The payload a master presents with req_valid.  The strobes are a set of lanes.
Request == [write : BOOLEAN, addr : Nat, size : 0 .. 7,
            wdata : Beat, wstrb : SUBSET Lane]

\* The backdoor's wires.
Backdoor == [write : BOOLEAN, addr : Nat, wdata : Byte]

BeatBytes(size) ==
    CASE size = 2 -> 4
      [] size = 3 -> 8
      [] size = 4 -> 16

------------------------------------------------------------------------------
(* Combinational decisions. *)

\* Only aligned 4-, 8- and 16-byte accesses that fit in the storage are ever
\* accepted; a write may strobe only the lanes of its beat.
SupportedRequest(req) ==
    /\ req.size \in {2, 3, 4}
    /\ req.addr % BeatBytes(req.size) = 0
    /\ req.addr <= SIZE_BYTES - BeatBytes(req.size)
    /\ req.write => req.wstrb \subseteq 0 .. BeatBytes(req.size) - 1

\* Mutant: a countdown in progress no longer blocks the next request.
ResponseSlotAvailable_IgnoresPending(rsp_ready) == ~rsp_valid_q \/ rsp_ready

ResponseSlotAvailable(rsp_ready) ==
    /\ ~response_pending_q
    /\ ~rsp_valid_q \/ rsp_ready

\* req_ready while reset is released.
RequestReady(req, rsp_ready) ==
    ResponseSlotAvailable(rsp_ready) /\ SupportedRequest(req)

RequestFire(req_valid, req, rsp_ready) ==
    req_valid /\ RequestReady(req, rsp_ready)

BackdoorInBounds(bd) == bd.addr < SIZE_BYTES

------------------------------------------------------------------------------
(* The data path.  A supported request lies inside the storage, so the      *)
(* truncation of its address to the index width never changes it.           *)

AfterBackdoor(mem, bd) ==
    IF bd.write /\ BackdoorInBounds(bd)
    THEN [mem EXCEPT ![bd.addr] = bd.wdata]
    ELSE mem

\* Mutant: a write replaces its whole beat, strobed or not.
AfterWrite_IgnoresStrobes(mem, req) ==
    [a \in DOMAIN mem |-> IF a - req.addr \in 0 .. BeatBytes(req.size) - 1
                          THEN req.wdata[a - req.addr]
                          ELSE mem[a]]

AfterWrite(mem, req) ==
    [a \in DOMAIN mem |-> IF a - req.addr \in req.wstrb
                          THEN req.wdata[a - req.addr]
                          ELSE mem[a]]

ReadBeat(mem, req) ==
    [lane \in Lane |-> IF lane < BeatBytes(req.size)
                       THEN mem[req.addr + lane]
                       ELSE ZeroByte]

------------------------------------------------------------------------------
RamInit ==
    /\ storage \in PowerUpStorage
    /\ rsp_valid_q = FALSE
    /\ rsp_rdata_q = ZeroBeat
    /\ rsp_error_q = FALSE
    /\ response_pending_q = FALSE
    /\ response_delay_q = 0

\* An edge with reset asserted: the port forgets, the storage does not, and the
\* backdoor is ignored.
RamReset ==
    /\ rsp_valid_q' = FALSE
    /\ rsp_rdata_q' = ZeroBeat
    /\ rsp_error_q' = FALSE
    /\ response_pending_q' = FALSE
    /\ response_delay_q' = 0
    /\ UNCHANGED storage

\* Mutant: the delay is decremented whether or not it is counting.
CountdownClock_NeverStops(fire, rsp_ready) ==
    /\ rsp_valid_q' =
          IF fire THEN RESPONSE_LATENCY_CYCLES = 0
          ELSE (response_pending_q /\ response_delay_q = 1) \/ (rsp_valid_q /\ ~rsp_ready)
    /\ response_pending_q' =
          \/ fire /\ RESPONSE_LATENCY_CYCLES # 0
          \/ response_pending_q /\ response_delay_q # 1
    /\ response_delay_q' =
          IF fire /\ RESPONSE_LATENCY_CYCLES # 0 THEN RESPONSE_LATENCY_CYCLES
          ELSE IF response_delay_q > -2 THEN response_delay_q - 1
          ELSE response_delay_q

\* Mutant: the delay loaded is one too short, so that it never reaches the value
\* that fires from above.
CountdownClock_OffByOne(fire, rsp_ready) ==
    /\ rsp_valid_q' =
          IF fire THEN RESPONSE_LATENCY_CYCLES = 0
          ELSE (response_pending_q /\ response_delay_q = 1) \/ (rsp_valid_q /\ ~rsp_ready)
    /\ response_pending_q' =
          \/ fire /\ RESPONSE_LATENCY_CYCLES # 0
          \/ response_pending_q /\ response_delay_q # 1
    /\ response_delay_q' =
          IF fire /\ RESPONSE_LATENCY_CYCLES # 0 THEN RESPONSE_LATENCY_CYCLES - 1
          ELSE IF response_delay_q > 0 THEN response_delay_q - 1
          ELSE response_delay_q

\* Mutant: an accepted request is answered at once, whatever the latency.
CountdownClock_IgnoresLatency(fire, rsp_ready) ==
    /\ rsp_valid_q' = (fire \/ (rsp_valid_q /\ ~rsp_ready))
    /\ UNCHANGED <<response_pending_q, response_delay_q>>

\* The response's registers at an edge with reset released: a consumed response
\* leaves, a countdown that is at its last edge fires, and an accepted request
\* starts a countdown or, at latency zero, is answered at once.
CountdownClock(fire, rsp_ready) ==
    /\ rsp_valid_q' =
          IF fire THEN RESPONSE_LATENCY_CYCLES = 0
          ELSE \/ response_pending_q /\ response_delay_q = 1
               \/ rsp_valid_q /\ ~rsp_ready
    /\ response_pending_q' =
          \/ fire /\ RESPONSE_LATENCY_CYCLES # 0
          \/ response_pending_q /\ response_delay_q # 1
    /\ response_delay_q' =
          IF fire /\ RESPONSE_LATENCY_CYCLES # 0 THEN RESPONSE_LATENCY_CYCLES
          ELSE IF response_pending_q THEN response_delay_q - 1
          ELSE response_delay_q

\* An edge with reset released.  Reads sample the storage as it was before the
\* edge; a bus write and a backdoor write of the same edge are applied in the
\* order of the code's assignments (the harness keeps them apart).
RamClock(req_valid, req, rsp_ready, bd) ==
    LET fire == RequestFire(req_valid, req, rsp_ready)
        loaded == AfterBackdoor(storage, bd)
    IN  /\ storage' = IF fire /\ req.write THEN AfterWrite(loaded, req) ELSE loaded
        /\ CountdownClock(fire, rsp_ready)
        /\ rsp_rdata_q' =
              IF ~fire THEN rsp_rdata_q
              ELSE IF req.write THEN ZeroBeat
              ELSE ReadBeat(storage, req)
        /\ rsp_error_q' = (rsp_error_q /\ ~fire)

------------------------------------------------------------------------------
RamTypeOK ==
    /\ storage \in [0 .. SIZE_BYTES - 1 -> Byte]
    /\ rsp_valid_q \in BOOLEAN
    /\ rsp_rdata_q \in Beat
    /\ rsp_error_q \in BOOLEAN
    /\ response_pending_q \in BOOLEAN
    /\ response_delay_q \in 0 .. RESPONSE_LATENCY_CYCLES
==============================================================================
