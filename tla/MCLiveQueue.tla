----------------------------- MODULE MCLiveQueue -----------------------------
(***************************************************************************)
(* An instance of LiveQueue for TLC.                                       *)
(***************************************************************************)
EXTENDS LiveQueue

\* Both descriptors, none, or only the first one.
MCOpenOutcomes == {[read |-> TRUE,  write |-> TRUE],
                   [read |-> FALSE, write |-> FALSE],
                   [read |-> TRUE,  write |-> FALSE]}
=============================================================================
