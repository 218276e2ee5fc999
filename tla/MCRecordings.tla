----------------------------- MODULE MCRecordings -----------------------------
(***************************************************************************)
(* Instances of Recordings for TLC.  No step but those of the whole cache  *)
(* relates one recording to another one, so there is one.                  *)
(***************************************************************************)
EXTENDS Recordings, TLC

CONSTANTS r1, c1, c2

MCRecs    == {r1}
MCClients == {c1, c2}

Symmetry == Permutations(MCClients)
=============================================================================
