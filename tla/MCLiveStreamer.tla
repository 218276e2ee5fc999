--------------------------- MODULE MCLiveStreamer ---------------------------
(***************************************************************************)
(* Instances of LiveStreamer for TLC.                                      *)
(***************************************************************************)
EXTENDS LiveStreamer

\* A client that waits for an I-frame, or one that does not.
MCWaitOrNot == {TRUE, FALSE}

\* Only one that does not.
MCNoWait == {FALSE}

\* A television channel or a radio, or only the first.
MCWithOrWithout == {TRUE, FALSE}
MCWith == {TRUE}
=============================================================================
