------------------------------- MODULE MCParser -------------------------------
(***************************************************************************)
(* An instance of Parser: short broadcasts, one for each kind of parser.   *)
(***************************************************************************)
EXTENDS Parser

None(n)     == [i \in 1 .. n |-> NoMark]
Mark(m)     == <<[is |-> m, size |-> 0]>>
Frame(n)    == <<[is |-> "frame", size |-> n]>> \o None(n - 1)

\* A frame of five units, the third of which looks like the header of one.
Disguised   == <<[is |-> "frame", size |-> 5]>> \o None(1)
                 \o <<[is |-> "fake", size |-> 4]>> \o None(2)

\* The same, with what looks like the header of a frame of size 0.
Stuck       == <<[is |-> "frame", size |-> 5]>> \o None(1)
                 \o <<[is |-> "fake", size |-> 0]>> \o None(2)

\* Frames of several sizes, some of them across the borders of PES packets;
\* time stamps that start over, and a PES packet without one.
MCAudio ==
  [waiting |-> 2,
   marks |-> Frame(3) \o Frame(3) \o Frame(3) \o Disguised \o Frame(5) \o Frame(3)
               \o Frame(3) \o Frame(5) \o Disguised \o Frame(5) \o Frame(3),
   pes   |-> <<[start |-> 1,  stop |-> 9,  pts |-> 58, sized |-> TRUE],
               [start |-> 10, stop |-> 20, pts |-> 61, sized |-> TRUE],
               [start |-> 21, stop |-> 28, pts |-> 0,  sized |-> FALSE],
               [start |-> 29, stop |-> 35, pts |-> NoPts, sized |-> TRUE],
               [start |-> 36, stop |-> 43, pts |-> 3,  sized |-> TRUE]>>]

\* Frames smaller than the payload of a TS packet, with which the buffer
\* overflows, as it does behind a header of size 0.
MCSmall ==
  [waiting |-> 5,
   marks |-> Frame(2) \o Frame(2) \o Frame(2) \o Frame(2) \o Stuck \o Frame(2)
               \o Frame(2) \o Frame(2) \o Frame(2) \o Frame(2) \o Frame(2) \o Frame(2)
               \o Frame(2) \o Stuck \o Frame(2) \o Frame(2) \o Frame(2),
   pes   |-> <<[start |-> 1,  stop |-> 10, pts |-> 5,  sized |-> TRUE],
               [start |-> 11, stop |-> 20, pts |-> 10, sized |-> TRUE],
               [start |-> 21, stop |-> 30, pts |-> 14, sized |-> TRUE],
               [start |-> 31, stop |-> 40, pts |-> 19, sized |-> TRUE]>>]

\* PES packets with a length and without one.
MCPesPackets ==
  [waiting |-> 0,
   marks |-> None(22),
   pes   |-> <<[start |-> 1,  stop |-> 5,  pts |-> 10, sized |-> FALSE],
               [start |-> 6,  stop |-> 11, pts |-> 12, sized |-> FALSE],
               [start |-> 12, stop |-> 13, pts |-> 0,  sized |-> TRUE],
               [start |-> 14, stop |-> 18, pts |-> 16, sized |-> TRUE],
               [start |-> 19, stop |-> 22, pts |-> 18, sized |-> FALSE]>>]

MCSubtitle ==
  [waiting |-> 0,
   marks |-> Mark("first") \o None(4) \o Mark("last") \o Mark("first") \o None(3)
               \o Mark("last") \o None(4) \o Mark("first") \o None(1) \o Mark("last"),
   pes   |-> <<[start |-> 1,  stop |-> 6,  pts |-> 10, sized |-> TRUE],
               [start |-> 7,  stop |-> 11, pts |-> 20, sized |-> TRUE],
               [start |-> 12, stop |-> 15, pts |-> 30, sized |-> TRUE],
               [start |-> 16, stop |-> 18, pts |-> 40, sized |-> TRUE]>>]

\* A sequence header and a picture; two pictures; no picture; one picture.
MCVideo ==
  [waiting |-> 0,
   marks |-> Mark("sequence") \o Mark("picture") \o None(4)
               \o Mark("picture") \o None(2) \o Mark("picture") \o None(3)
               \o None(2)
               \o Mark("picture") \o None(1) \o Mark("picture") \o Mark("picture") \o None(2),
   pes   |-> <<[start |-> 1,  stop |-> 6,  pts |-> 10, sized |-> FALSE],
               [start |-> 7,  stop |-> 13, pts |-> 12, sized |-> TRUE],
               [start |-> 14, stop |-> 15, pts |-> 14, sized |-> FALSE],
               [start |-> 16, stop |-> 21, pts |-> 16, sized |-> FALSE]>>]

MCBroadcasts ==
  [k \in {"audio", "adts", "pes", "subtitle", "mpeg2"} |->
     CASE k = "audio"       -> MCAudio
       [] k = "adts"        -> MCSmall
       [] k = "pes"         -> MCPesPackets
       [] k = "subtitle"    -> MCSubtitle
       [] k = "mpeg2"       -> MCVideo]
=============================================================================
