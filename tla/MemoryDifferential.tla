-------------------------- MODULE MemoryDifferential --------------------------
(***************************************************************************)
(* The memory port beside the reference model of the tests, as the            *)
(* differential tests run them: the harness makes on the model each access that *)
(* the RAM accepts and each store it makes through the backdoor.              *)
(***************************************************************************)
EXTENDS MemoryPort

CONSTANT ValueError   \* what the model raises

\* An exception is no value and no data.
ASSUME ValueErrorAssumption ==
    ValueError \notin Beat /\ ValueError \notin [0 .. SIZE_BYTES - 1 -> Byte]

INSTANCE ByteMemory WITH MemoryByte <- Byte, MemoryZero <- ZeroByte

VARIABLES
    reference,   \* the model's data
    expected     \* what the model returned for the request in flight

referenceVars == <<reference, expected>>

\* The value a test passes has no more bytes than the access.
AccessValue == [lane \in Lane |-> IF lane < BeatBytes(req.size) THEN req.wdata[lane]
                                  ELSE ZeroByte]

\* The access of the request that is on the bus, made on the model.
ReferenceAccess ==
    IF req.size \notin {2, 3, 4} THEN ValueError
    ELSE LET n == BeatBytes(req.size)
         IN  CASE ~req.write -> Read(reference, req.addr, n)
               [] req.write /\ req.wstrb = 0 .. n - 1 ->
                      Write(reference, req.addr, n, AccessValue)
               [] OTHER -> WriteMasked(reference, req.addr, n, AccessValue, req.wstrb)

ReferenceInit == reference = storage /\ expected = ZeroBeat

ReferenceStep ==
    /\ reference' =
          IF rst_n /\ request_fire /\ req.write THEN ReferenceAccess
          ELSE IF rst_n /\ bd.write /\ BackdoorInBounds(bd)
          THEN WriteByte(reference, bd.addr, bd.wdata)
          ELSE reference
    /\ expected' =
          IF ~rst_n THEN ZeroBeat
          ELSE IF ~request_fire THEN expected
          ELSE IF req.write THEN ZeroBeat
          ELSE ReferenceAccess

DifferentialInit == Init /\ ReferenceInit
DifferentialNext == Next /\ ReferenceStep
DifferentialSpec == DifferentialInit /\ [][DifferentialNext]_<<vars, referenceVars>>

------------------------------------------------------------------------------
\* After every access and every backdoor store the RAM and the reference model hold the
\* same bytes, and a response offers what the model returned when its request was
\* accepted (behavioral_system_ram.sv:154-292 against byte_memory.py:31-138).
ReferenceAgrees ==
    /\ reference = storage
    /\ rsp_valid_q => rsp_rdata_q = expected

\* The model raises on exactly the accesses that the RAM never accepts, whatever the
\* address, the width and the strobes, and on exactly the backdoor addresses it reports
\* out of bounds (behavioral_system_ram.sv:86-133 against byte_memory.py:31-117).
ReferenceRaisesWhereRefused ==
    /\ ReferenceAccess = ValueError <=> ~SupportedRequest(req)
    /\ WriteByte(reference, bd.addr, bd.wdata) = ValueError <=> ~BackdoorInBounds(bd)
==============================================================================
