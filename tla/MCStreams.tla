------------------------------- MODULE MCStreams -------------------------------
(***************************************************************************)
(* An instance of Streams for TLC.                                         *)
(***************************************************************************)
EXTENDS Streams

S(pid, type, lang, info) == [pid |-> pid, type |-> type, lang |-> lang, info |-> info]

\* Two channels of audio in one language, one of them dolby.
MCEvening == <<S(1, "H264", "und", "hd"), S(2, "MPEG2AUDIO", "ger", "stereo"),
               S(3, "EAC3", "ger", "5.1"), S(4, "DVBSUB", "eng", "known")>>

\* The picture gets smaller, dolby moves into another PID and a second
\* picture, a stream nobody can use and teletext come with it.
MCNight == <<S(1, "H264", "und", "sd"), S(2, "MPEG2AUDIO", "ger", "stereo"),
             S(5, "H264", "und", "hd"), S(3, "none", "und", "known"),
             S(4, "TELETEXT", "und", "known")>>

\* Simple audio where dolby was.
MCNoon == <<S(1, "H264", "und", "hd"), S(2, "MPEG2AUDIO", "ger", "stereo"),
            S(3, "MPEG2AUDIO", "ger", "mono"), S(4, "DVBSUB", "eng", "known")>>

\* On another PID: an old picture, too small to be believed in.
MCMorning == <<S(1, "MPEG1VIDEO", "und", Insane), S(3, "MPEG2AUDIO", "ger", "mono")>>

MCLineups == {MCEvening, MCNight, MCMorning, MCNoon}
MCFirstKnown == {MCEvening}
MCPmtPids == [l \in MCLineups |-> IF l = MCMorning THEN 2 ELSE 1]
===============================================================================
