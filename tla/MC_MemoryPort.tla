----------------------------- MODULE MC_MemoryPort -----------------------------
(***************************************************************************)
(* A small instance of MemoryPort beside the reference model of the tests: 20  *)
(* bytes of storage, so that a 4-byte beat at 16 is the last one that fits and  *)
(* a 16-byte beat there does not, two byte values, and one payload of each      *)
(* kind that the RAM or the model treats differently.                        *)
(***************************************************************************)
EXTENDS MemoryDifferential, MemoryLatency

Bytes == {0, 1}
Blank == [a \in 0 .. SIZE_BYTES - 1 |-> 0]
PowerUps == {Blank, [Blank EXCEPT ![0] = 1, ![8] = 1, ![19] = 1]}

Ones == [lane \in Lane |-> 1]
ReadAt(a, s) == [write |-> FALSE, addr |-> a, size |-> s,
                 wdata |-> [lane \in Lane |-> 0], wstrb |-> {}]
WriteAt(a, s, lanes) == [write |-> TRUE, addr |-> a, size |-> s,
                         wdata |-> Ones, wstrb |-> lanes]

\* Accepted: the last word, the whole first beat, a strobed doubleword.  Never
\* accepted: a beat that ends or starts past the storage, a misaligned word, a strobe
\* above the beat.
MCRequests == {ReadAt(16, 2), ReadAt(0, 4), WriteAt(8, 3, {1, 6}),
               ReadAt(16, 4), ReadAt(20, 2), ReadAt(2, 2), WriteAt(0, 2, {0, 4})}

\* A smaller set for the liveness run.
LiveRequests == {ReadAt(16, 2), ReadAt(2, 2), WriteAt(8, 3, {0, 7})}

Quiet == [write |-> FALSE, addr |-> 0, wdata |-> 0]
MCBackdoors == {Quiet, [write |-> TRUE, addr |-> 19, wdata |-> 0],
                [write |-> TRUE, addr |-> 20, wdata |-> 1]}
LiveBackdoors == {Quiet}

MCInit == DifferentialInit /\ AgeInit
MCNext == DifferentialNext /\ AgeStep
MCSpec == MCInit /\ [][MCNext]_<<vars, referenceVars, age>>
MCFairSpec == MCSpec /\ WF_registers(MCNext)
==============================================================================
