----------------------------- MODULE MC_FetchRam -----------------------------
(***************************************************************************)
(* A small instance of FetchRam: 20 bytes of storage, fetches of the first   *)
(* and of the last word and of the first address past the end, and a         *)
(* backdoor that rewrites one byte of each word while fetches are in flight. *)
(***************************************************************************)
EXTENDS FetchRam

Bytes == {0, 1}
Blank == [a \in 0 .. SIZE_BYTES - 1 |-> 0]
PowerUps == {Blank}
Pcs == {0, 16, 20}
Quiet == [write |-> FALSE, addr |-> 0, wdata |-> 0]
MCBackdoors == {Quiet} \cup
    {[write |-> TRUE, addr |-> a, wdata |-> v] : a \in {1, 19}, v \in Bytes}
LiveBackdoors == {Quiet, [write |-> TRUE, addr |-> 19, wdata |-> 1]}
==============================================================================
