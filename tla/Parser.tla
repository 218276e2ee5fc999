-------------------------------- MODULE Parser --------------------------------
(***************************************************************************)
(* From TS packets to the packets that are sent: a demuxer                 *)
(* (src/src/demuxer/demuxer.c) and its parser.  There are parsers that cut *)
(* audio frames out of what arrives, whatever PES packets it comes in      *)
(* (parser.c: MPEG2 audio, AC3, ADTS; LATM is cut alike, then converted),  *)
(* and parsers that assemble PES packets (demuxer_PES.c: H264 and teletext *)
(* as they are, subtitles without their frame, MPEG2 video in pictures).   *)
(*                                                                         *)
(* The payload that is broadcast is a row of units, which stand for bytes; *)
(* a unit is its place in the row, and a mark tells what begins there.     *)
(* TS packets get lost, are damaged or stay scrambled.  Time stamps are    *)
(* kept for the parsers of frames and for PES packets that are sent as     *)
(* they are; PTS and DTS of the former are treated alike, so one is kept.  *)
(***************************************************************************)
EXTENDS Naturals, Sequences, FiniteSets

CONSTANTS
  Broadcasts,   \* for each kind of parser, the PES packets, the marks, and how
                \* many frames wait in the buffer at most
  Payload,      \* units in a TS packet
  Margin,       \* the parameter packetsize of a parser of frames
  HeaderSize,   \* m_headersize
  BufferSize,
  Duration,     \* of a frame
  Modulus,      \* 2^33, where time stamps start over
  MaxLost       \* bound of the model: lost TS packets

Framed == {"audio", "adts"}
Kinds  == Framed \cup {"pes", "subtitle", "mpeg2"}

\* Marks: nothing, a frame of so many units, what only looks like the header
\* of a frame, of any size; the sequence header and the start of a picture;
\* the first and the last byte of a subtitle.
NoMark   == [is |-> "none", size |-> 0]
MarkKinds == {"none", "frame", "fake", "sequence", "picture", "first", "last"}

NoPts == 0 - 1   \* DVD_NOPTS_VALUE, smaller than any time stamp

Stamps == {NoPts} \cup 0 .. (Modulus - 1)

\* A row of units, divided into PES packets.
IsBroadcast(b) ==
  /\ b.marks \in Seq([is : MarkKinds, size : Nat])
  /\ \A u \in DOMAIN b.marks :
       b.marks[u].is = "frame" => b.marks[u].size > HeaderSize
  /\ b.pes \in Seq([start : Nat, stop : Nat, pts : Stamps, sized : BOOLEAN])
  /\ \A n \in DOMAIN b.pes : b.pes[n].start <= b.pes[n].stop
  /\ \A m, n \in DOMAIN b.pes : m < n => b.pes[m].stop < b.pes[n].start
  /\ DOMAIN b.marks = UNION {b.pes[n].start .. b.pes[n].stop : n \in DOMAIN b.pes}
  /\ b.waiting \in Nat

ASSUME ParserAssumption ==
  /\ DOMAIN Broadcasts \subseteq Kinds
  /\ \A k \in DOMAIN Broadcasts : IsBroadcast(Broadcasts[k])
  /\ {Payload, BufferSize, Modulus} \subseteq Nat \ {0}
  /\ {Margin, HeaderSize, Duration, MaxLost} \subseteq Nat

VARIABLES
  kind,      \* the kind of parser
  next,      \* the first unit of the next TS packet
  buffer,    \* the ring buffer
  startup,   \* m_startup
  length,    \* m_length
  curPTS,    \* m_curPTS
  sequence,  \* MPEG2: m_duration # 0
  sent,      \* what was handed to the streamer, data and time stamp (history)
  gone,      \* units that were lost, or dropped by a reset (history)
  lost       \* how many TS packets were lost (bound)

parserVars ==
  <<kind, next, buffer, startup, length, curPTS, sequence, sent, gone, lost>>

Marks == Broadcasts[kind].marks
Pes   == Broadcasts[kind].pes
PesOf(u) == CHOOSE n \in DOMAIN Pes : u \in Pes[n].start .. Pes[n].stop

Least(a, b)   == IF a < b THEN a ELSE b
Greatest(a, b) == IF a > b THEN a ELSE b
Units(a, b)   == [i \in 1 .. (b + 1 - a) |-> a + i - 1]
Cut(s, n)     == SubSeq(s, n + 1, Len(s))
Elements(s)   == {s[i] : i \in DOMAIN s}

\* DVD_NOPTS_VALUE has none of the bits of a time stamp.
PtsAdd(a, b) == ((IF a = NoPts THEN 0 ELSE a) + b) % Modulus

ParserInit ==
  /\ kind \in DOMAIN Broadcasts
  /\ next = 1 /\ buffer = <<>> /\ startup = TRUE /\ length = 0
  /\ curPTS = NoPts /\ sequence = FALSE /\ sent = <<>> /\ gone = {} /\ lost = 0

\* The next TS packet: its units, and whether a PES packet starts.
LastOfPacket == Least(next + Payload - 1, Pes[PesOf(next)].stop)
Data == Units(next, LastOfPacket)
Pusi == next = Pes[PesOf(next)].start

\* ParsePESHeader: a time stamp of 0 is not taken.
HeaderPts(pts) ==
  LET p == Pes[PesOf(next)].pts IN IF p = 0 THEN pts ELSE p
-----------------------------------------------------------------------------
(* cParser: frames.                                                        *)

\* Get: nothing before there is more than the margin.
Got == IF Len(buffer) >= Margin THEN buffer ELSE <<>>

\* CheckAlignmentHeader at a place of what Get has returned.
Aligned(o) == Marks[Got[o + 1]].is \in {"frame", "fake"}
FrameSize(o) == Marks[Got[o + 1]].size

\* FindAlignmentOffset: without a header, or with one of a frame of size 0,
\* nothing is deleted.
Places == {o \in 0 .. (Len(Got) - 1) : o + HeaderSize < Len(Got) /\ Aligned(o)}

FindAlignmentOffset ==
  LET first == CHOOSE o \in Places : \A p \in Places : o <= p
  IN IF Places = {} \/ FrameSize(first) = 0 THEN 0 ELSE first

\* A frame is at the start of the buffer, and it is complete.
InSync   == Len(Got) > HeaderSize /\ Aligned(0)
Complete == InSync /\ FrameSize(0) > 0 /\ Len(Got) >= FrameSize(0)

\* Del(framesize)
Taken(size) == Cut(buffer, size)

\* SendPayload
SendFrame ==
  sent' = Append(sent, [data |-> SubSeq(buffer, 1, FrameSize(0)), pts |-> curPTS])

\* Mutant: the time stamp of the PES packet is taken as it is.
NewPtsAny(pts) == HeaderPts(pts)

\* Mutant: the time stamp of the PES packet is not taken.
NewPtsKept(pts) == pts

\* PutData: time stamps do not go back.
NewPts(pts) == Greatest(pts, HeaderPts(pts))

\* Put: more than there is room for.
Overflow(rest) == Len(rest) + Len(Data) > BufferSize

\* Mutant: the buffer is not reset.
FilledUp(rest) == rest \o Data

\* Put, and the reset on overflow.
Filled(rest) == IF Overflow(rest) THEN <<>> ELSE rest \o Data

PutData(rest, pts) ==
  /\ curPTS' = IF Pusi THEN NewPts(pts) ELSE pts
  /\ startup' = (startup /\ ~Pusi)
  /\ buffer' = IF startup' THEN rest ELSE Filled(rest)
  /\ gone' = IF ~startup' /\ Overflow(rest)
             THEN gone \cup Elements(rest) \cup Elements(Data) ELSE gone

\* cParser::Parse
ParseFrames ==
  /\ \/ /\ Complete
        /\ SendFrame
        /\ PutData(Taken(FrameSize(0)),
                   PtsAdd(curPTS, Duration))
     \/ /\ InSync /\ ~Complete
        /\ PutData(buffer, curPTS)
        /\ UNCHANGED sent
     \/ /\ ~InSync
        /\ PutData(Cut(buffer, FindAlignmentOffset), curPTS)
        /\ UNCHANGED sent
  /\ UNCHANGED <<length, sequence>>
-----------------------------------------------------------------------------
(* cParserPES: PES packets.                                                *)

\* Mutant: a packet of unknown length is never complete.
AssembledSized == length # 0 /\ Len(buffer) >= length

\* Is the packet complete when the next TS packet arrives?
Assembled ==
  \/ length # 0 /\ Len(buffer) >= length
  \/ length = 0 /\ Pusi /\ buffer # <<>>

Assembling == SubSeq(buffer, 1, IF length = 0 THEN Len(buffer) ELSE length)

IsAt(data, i, mark) == Marks[data[i]].is = mark

\* Where the second picture of a packet and the later ones start.
NextPictures(data) ==
  {j \in DOMAIN data :
     IsAt(data, j, "picture") /\ \E i \in 1 .. (j - 1) : IsAt(data, i, "picture")}

\* The member of a set of numbers with k members up to it.
Nth(S, k) == CHOOSE i \in S : Cardinality({j \in S : j <= i}) = k

\* cParserMPEG2Video::ParsePayload: the first part runs from the start of
\* the packet to its second picture, the others from picture to picture.
Pictures(data) ==
  LET cuts   == {1} \cup NextPictures(data)
      end(k) == IF k < Cardinality(cuts) THEN Nth(cuts, k + 1) - 1 ELSE Len(data)
  IN IF \A i \in DOMAIN data : ~IsAt(data, i, "picture") THEN <<>>
     ELSE [k \in 1 .. Cardinality(cuts) |->
             [data |-> SubSeq(data, Nth(cuts, k), end(k)), pts |-> NoPts]]

HasSequence(data) == \E i \in DOMAIN data : IsAt(data, i, "sequence")

\* cParserSubtitle::SendPayload: without the first and the last byte.
Subtitle(data) ==
  IF Len(data) >= 3 /\ IsAt(data, 1, "first") /\ IsAt(data, Len(data), "last")
  THEN <<[data |-> SubSeq(data, 2, Len(data) - 1), pts |-> curPTS]>>
  ELSE <<>>

\* ParsePayload and SendPayload of an assembled packet.
SendPayload(data) ==
  /\ sequence' = (sequence \/ (kind = "mpeg2" /\ HasSequence(data)))
  /\ sent' = sent \o CASE kind = "mpeg2" -> IF sequence' THEN Pictures(data) ELSE <<>>
                       [] kind = "subtitle" -> Subtitle(data)
                       [] OTHER -> <<[data |-> data, pts |-> curPTS]>>

\* The start of a packet: its length and time stamp, and an empty buffer.
StartPes ==
  LET pes == Pes[PesOf(next)]
  IN /\ length' = IF pes.sized THEN pes.stop + 1 - pes.start ELSE 0
     /\ curPTS' = HeaderPts(curPTS)
     /\ startup' = FALSE
     /\ buffer' = SubSeq(Data, 1, Least(Len(Data), BufferSize))

\* Any other TS packet: as much of it as there is room for.
ContinuePes ==
  /\ buffer' = IF startup THEN buffer
               ELSE buffer \o SubSeq(Data, 1, Least(Len(Data), BufferSize - Len(buffer)))
  /\ UNCHANGED <<length, curPTS, startup>>

\* cParserPES::Parse
ParsePes ==
  /\ IF ~startup /\ Assembled THEN SendPayload(Assembling)
     ELSE UNCHANGED <<sent, sequence>>
  /\ IF Pusi THEN StartPes ELSE ContinuePes
  /\ UNCHANGED gone
-----------------------------------------------------------------------------
\* ProcessTSPacket
Arrive ==
  /\ next <= Len(Marks)
  /\ IF kind \in Framed THEN ParseFrames ELSE ParsePes
  /\ next' = LastOfPacket + 1
  /\ UNCHANGED <<kind, lost>>

\* A TS packet is lost, has an error or is scrambled.
LosePacket ==
  /\ next <= Len(Marks) /\ lost < MaxLost
  /\ lost' = lost + 1
  /\ gone' = gone \cup (next .. LastOfPacket)
  /\ next' = LastOfPacket + 1
  /\ UNCHANGED <<kind, buffer, startup, length, curPTS, sequence, sent>>

ParserNext == Arrive \/ LosePacket
ParserSpec == ParserInit /\ [][ParserNext]_parserVars
-----------------------------------------------------------------------------
\* The state has its types: the buffer stays within its size, it and what is
\* sent hold only what has arrived, and nothing empty is sent.
ParserTypeOK ==
  /\ kind \in DOMAIN Broadcasts
  /\ next \in 1 .. (Len(Marks) + 1)
  /\ buffer \in Seq(1 .. (next - 1)) /\ Len(buffer) <= BufferSize
  /\ startup \in BOOLEAN /\ sequence \in BOOLEAN
  /\ length \in 0 .. Len(Marks)
  /\ curPTS \in Stamps
  /\ sent \in Seq([data : Seq(1 .. (next - 1)) \ {<<>>}, pts : Stamps])
  /\ gone \subseteq 1 .. (next - 1) /\ lost \in 0 .. MaxLost

\* What is owed to the client, as the first and the last unit.
Frames   == {<<u, u + Marks[u].size - 1>> : u \in {v \in DOMAIN Marks : Marks[v].is = "frame"}}
Whole(p) == <<p.start, p.stop>>
Inside(p) ==
  IF p.start + 2 <= p.stop /\ Marks[p.start].is = "first" /\ Marks[p.stop].is = "last"
  THEN {<<p.start + 1, p.stop - 1>>} ELSE {}
Parts(p) ==
  LET starts == {u \in p.start .. p.stop : Marks[u].is = "picture"}
      cuts   == {p.start} \cup {u \in starts : \E v \in starts : v < u}
  IN IF starts = {} THEN {}
     ELSE {o \in cuts \X (p.start .. p.stop) :
             /\ o[1] <= o[2] /\ (o[2] = p.stop \/ o[2] + 1 \in cuts)
             /\ \A u \in cuts : ~(o[1] < u /\ u <= o[2])}
InPes(p) == CASE kind = "subtitle" -> Inside(p) [] kind = "mpeg2" -> Parts(p) [] OTHER -> {Whole(p)}
Owed     == IF kind \in Framed THEN Frames ELSE UNION {InPes(Pes[n]) : n \in DOMAIN Pes}

\* The units whose loss can spoil a frame: those of the frame and of the two
\* before it.
Near(o) == {u \in 1 .. o[2] : Cardinality({f \in Frames : u < f[1] /\ f[1] <= o[1]}) <= 2}

\* Nothing of a PES packet is lost, nor of the next one, which tells where it
\* ends.
Intact(n) ==
  \A m \in DOMAIN Pes \cap {n, n + 1} : \A u \in Pes[m].start .. Pes[m].stop : u \notin gone

\* Near a frame nothing is lost, behind the start of a PES packet that
\* arrives.  Other packets are in a PES packet of which nothing is lost; those
\* of a video are behind a sequence header, too.
Spared(o) ==
  IF kind \in Framed
  THEN /\ \A u \in Near(o) : u \notin gone
       /\ \E n \in DOMAIN Pes : Pes[n].start \notin gone /\ \A u \in Near(o) : Pes[n].start <= u
  ELSE /\ Intact(PesOf(o[1]))
       /\ kind = "mpeg2" =>
            \E n \in 1 .. PesOf(o[1]) :
              Intact(n) /\ \E u \in Pes[n].start .. Pes[n].stop : Marks[u].is = "sequence"

Is(i, o) == sent[i].data = Units(o[1], o[2])
Waits(o) == o[2] >= next \/ \E i \in DOMAIN buffer : buffer[i] = o[2]

\* A packet that nobody broadcast can be sent near a loss: then it overlaps a
\* frame that is not spared, or starts in a PES packet that is not intact.
Spoilt(data) ==
  IF kind \in Framed
  THEN \E o \in Owed : ~Spared(o) /\ \E j \in DOMAIN data : data[j] \in o[1] .. o[2]
  ELSE ~Intact(PesOf(data[1]))

\* What losses spare is sent once, as it was broadcast, or it waits.
SparedOnce ==
  \A o \in Owed : Spared(o) => (Waits(o) \/ Cardinality({i \in DOMAIN sent : Is(i, o)}) = 1)

OnlyOwedOrSpoilt == \A i \in DOMAIN sent : (\E o \in Owed : Is(i, o)) \/ Spoilt(sent[i].data)

\* A PES packet with a length is sent at its length, and again as long as the
\* start of the next one is missing; all else keeps the order of the broadcast.
InBroadcastOrder ==
  \A i, j \in DOMAIN sent : \A o, q \in Owed :
    Is(i, o) /\ Is(j, q) /\ i < j =>
      o[1] <= q[1] \/ (kind \notin Framed /\ ~Spared(o) /\ ~Spared(q))

\* A parser sends what it should and nothing else, and finds its way again
\* after a loss, also behind bytes that look like the header of a frame.
WholeAndOnce == SparedOnce /\ OnlyOwedOrSpoilt /\ InBroadcastOrder

\* How many frames start from a unit on, and before another one.
FramesFrom(a, b) == Cardinality({u \in a .. (b - 1) : Marks[u].is = "frame"})

\* The PES packets with a time stamp from whose start on the frame comes.
Dated(o) == {n \in DOMAIN Pes : Pes[n].pts # NoPts /\ Pes[n].start <= o[1]}

\* When a frame is due: the time stamp of the last of them, and the frames
\* since then.
Due(o) ==
  LET p == Pes[CHOOSE n \in Dated(o) : \A m \in Dated(o) : m <= n]
  IN PtsAdd(p.pts, Duration * FramesFrom(p.start, o[1]))

Lead(i, o) == (sent[i].pts + Modulus - Due(o)) % Modulus

\* As what waits in the buffer takes the time stamp of the PES packet that
\* arrives, frames can have that of one a little later, but not of an earlier
\* one.
RightTime ==
  kind \in Framed /\ gone = {} =>
    \A i \in DOMAIN sent : \A o \in Frames :
      Is(i, o) /\ Dated(o) # {} => Lead(i, o) <= Duration * Broadcasts[kind].waiting

\* Even where packets are lost time stamps rise by the duration of a frame at
\* least, until they start over.
TimesRise ==
  kind \in Framed =>
    \A i, j \in DOMAIN sent : j = i + 1 =>
      \/ sent[i].pts + Duration <= sent[j].pts
      \/ sent[j].pts + (Modulus \div 2) < sent[i].pts
=============================================================================
