---------------------------- MODULE OrderedStream ----------------------------
(***************************************************************************)
(* What a live stream promises to the XBMC client that opened it: packets  *)
(* are numbered in the order in which the streamer hands them over, some   *)
(* may be left out, and none ever arrives twice or behind a later one.     *)
(* Once the timeshift file has lost that order (unordered) only packets    *)
(* that were handed over are promised.  LiveQueue.tla implements this.     *)
(***************************************************************************)
EXTENDS Naturals

VARIABLES accepted,   \* number of packets handed over so far
          delivered,  \* number of the last packet given to the socket, 0: none
          unordered   \* the order is no longer promised

Init == accepted = 0 /\ delivered = 0 /\ unordered = FALSE

Accept  == /\ accepted' = accepted + 1
           /\ unordered' \in {unordered, TRUE}
           /\ UNCHANGED delivered

Unorder == /\ unordered' = TRUE
           /\ UNCHANGED <<accepted, delivered>>

Deliver == /\ delivered' \in (IF unordered THEN 1 ELSE delivered + 1) .. accepted
           /\ UNCHANGED <<accepted, unordered>>

Next == Accept \/ Unorder \/ Deliver

Spec == Init /\ [][Next]_<<accepted, delivered, unordered>>
=============================================================================
