------------------------------ MODULE MC_SimTop ------------------------------
(***************************************************************************)
(* A small instance of the observed simulation platform: one RAM beat, read    *)
(* requests only.                                                           *)
(***************************************************************************)
EXTENDS SimTopObserver

Bytes == {0}
PowerUps == {[a \in 0 .. SIZE_BYTES - 1 |-> 0]}
ReadAt(a, s) == [write |-> FALSE, addr |-> a, size |-> s,
                 wdata |-> [lane \in Lane |-> 0], wstrb |-> {}]
MCRequests == {ReadAt(0, 2)}
MCBackdoors == {[write |-> FALSE, addr |-> 0, wdata |-> 0]}
==============================================================================
