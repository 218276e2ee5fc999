------------------------------ MODULE MCSocket ------------------------------
(***************************************************************************)
(* An instance of Socket for TLC: the client's thread writes messages, the *)
(* live queue's thread mux packets without a checksum of the payload.      *)
(***************************************************************************)
EXTENDS Socket, TLC

CONSTANTS client, live

MCWriters   == {client, live}
MCRetries   == {client}
MCUnchecked == {live}
MCPackets   == (client :> 2) @@ (live :> 1)
MCPayload   == [p \in Packets |-> IF p = [w |-> client, n |-> 2] THEN 0 ELSE 1]
=============================================================================
