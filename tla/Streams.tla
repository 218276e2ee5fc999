-------------------------------- MODULE Streams --------------------------------
(***************************************************************************)
(* Which streams a live channel consists of, and who knows it: the table   *)
(* that is broadcast (the PMT), VDR's description of the channel, the      *)
(* channel cache in memory and on disk (src/src/live/channelcache.c), the  *)
(* copy of the PAT/PMT filter (livepatfilter.c), the demuxers of the       *)
(* streamer and the last description sent to the client (livestreamer.c).  *)
(*                                                                         *)
(* One channel, watched by one client at a time.  m_FilterMutex makes a    *)
(* switch of the channel, a packet and the change of the demuxers by the   *)
(* filter one step each.  A stream is its PID, type, language and info;    *)
(* info stands for all that is only known once the stream is parsed (size, *)
(* rate, channels), and is Unparsed before.                                *)
(***************************************************************************)
EXTENDS Naturals, Sequences, FiniteSets

CONSTANTS
  Lineups,         \* the tables that are broadcast: sequences of streams
  PmtPids,         \* for each of them, the PID its sections come on
  FirstKnown,      \* bound of the model: what VDR may know at first
  Builds,          \* subset of BOOLEAN: VDRVERSNUM >= 20106 or not
  LanguageIndex,   \* m_LanguageIndex, the language the client prefers
  LangStreamType,  \* m_LangStreamType, the audio type it prefers
  MaxPid,          \* PID_MASK
  MAXRECEIVEPIDS,
  MaxChanges,      \* bound of the model: changes of the broadcast
  MaxLosses,       \* bound of the model: losses of a device, restarts, ...
  MaxSaves         \* bound of the model: saves of the cache

Types    == {"MPEG2VIDEO", "H264", "MPEG2AUDIO", "AC3", "EAC3", "AAC", "LATM",
             "DVBSUB", "TELETEXT", "none"}
AirTypes == Types \cup {"MPEG1VIDEO", "PRIVATEAAC"}   \* AAC in private data
Unparsed == "unparsed"
Insane   == "insane"   \* a picture too small to be believed

\* What is known of a stream.
Fields == {"pid", "type", "lang", "info"}

\* A table has each PID once.
ASSUME StreamsAssumption ==
  /\ Builds \subseteq BOOLEAN /\ MaxPid \in Nat
  /\ FirstKnown \subseteq Lineups
  /\ \A l \in Lineups : PmtPids[l] \in Nat \ {0}
  /\ \A l \in Lineups :
       /\ DOMAIN l = 1 .. Len(l) /\ Len(l) \in Nat
       /\ \A i \in DOMAIN l : DOMAIN l[i] = Fields /\ l[i].pid \in 1 .. MaxPid
                               /\ l[i].type \in AirTypes
       /\ \A i, j \in DOMAIN l : l[i].pid = l[j].pid => i = j

VARIABLES
  newVdr,     \* the build: VDR reports changed channels by ChannelChange
  air,        \* the table that is broadcast, and its version
  channel,    \* the table VDR's description of the channel is made from
  reported,   \* a ChannelChange of VDR that was not delivered yet
  cache,      \* m_cache[m_uid]; NoStreams when there is no entry
  filter,     \* m_PatFilter: the table it waits for, and its m_ChannelCache
  demuxers,   \* m_Demuxers
  receiver,   \* whether it is attached, and its PIDs
  ready,      \* m_ready
  request,    \* m_requestStreamChange
  told,       \* the last XVDR_STREAM_CHANGE
  saving,     \* where SaveChannelCacheData() is
  disk,       \* the cache file and its .bak
  changes, losses, saves, writeFailed   \* bounds and history

stream == <<air, channel, reported, changes>>
tuner  == <<filter, demuxers, receiver, ready, request, told>>
files  == <<saving, disk, saves, writeFailed>>
vars   == <<newVdr, stream, cache, tuner, files, losses>>

Content(type) ==
  CASE type \in {"MPEG2VIDEO", "H264"} -> "video"
    [] type \in {"MPEG2AUDIO", "AC3", "EAC3", "AAC", "LATM"} -> "audio"
    [] type = "DVBSUB" -> "subtitle"
    [] type = "TELETEXT" -> "teletext"
    [] OTHER -> "none"
-----------------------------------------------------------------------------
(* cChannelCache: a map from PIDs to streams, here the set of its streams. *)

NoStreams == {}   \* an empty cChannelCache

PidsOf(item) == {s.pid : s \in item}

\* Mutant: any number of video streams is accepted.
AddableAll(seq) == {i \in DOMAIN seq : seq[i].type # "none"}

\* The streams of a table that AddStream accepts, added in this order: a
\* second video stream is refused.
Addable(seq) ==
  {i \in DOMAIN seq :
     /\ seq[i].type # "none"
     /\ Content(seq[i].type) = "video" =>
          \A j \in 1 .. (i - 1) : Content(seq[j].type) # "video"}

\* a.ismetaof(b): the same PIDs with the same contents and types, where AC3
\* on the left and EAC3 on the right pass for every audio type.
IsMetaOf(a, b) ==
  /\ PidsOf(a) = PidsOf(b)
  /\ \A s \in a, t \in b : s.pid = t.pid =>
       /\ Content(s.type) = Content(t.type)
       /\ s.type = t.type \/ s.type = "AC3" \/ t.type = "EAC3"

\* What a table says of a stream.  Subtitles count as parsed at once.
Described(s) == [s EXCEPT !.info = IF s.type = "DVBSUB" THEN "known" ELSE Unparsed]

\* GetStreamInfo: the filter takes MPEG-1 for MPEG-2.
TypeInPmt(type) ==
  CASE type = "MPEG1VIDEO" -> "MPEG2VIDEO"
    [] type = "PRIVATEAAC" -> "AAC"
    [] OTHER -> type

\* ItemFromChannel does not, and knows both kinds of AC3 as dolby; VDR has
\* one video stream and no AAC in private data.
TypeInChannel(type) ==
  CASE type \in {"MPEG1VIDEO", "PRIVATEAAC"} -> "none"
    [] type = "EAC3" -> "AC3"
    [] OTHER -> type

AsSeen(table)  == [i \in DOMAIN table |-> [table[i] EXCEPT !.type = TypeInPmt(@)]]
AsFiled(table) == [i \in DOMAIN table |-> [table[i] EXCEPT !.type = TypeInChannel(@)]]

ItemFromChannel(table) ==
  {Described(AsFiled(table)[i]) : i \in Addable(AsFiled(table))}

\* The streams of the PMT, up to MAXRECEIVEPIDS.
ItemFromPmt(table) ==
  {Described(AsSeen(table)[i]) : i \in
     {i \in Addable(AsSeen(table)) :
        Cardinality(Addable(AsSeen(table)) \cap 1 .. (i - 1)) < MAXRECEIVEPIDS}}

\* CreateDemuxers reuses what the old demuxers have parsed.
Reuse(ds, s) ==
  IF \E d \in ds : d.pid = s.pid /\ d.type = s.type
  THEN CHOOSE d \in ds : d.pid = s.pid /\ d.type = s.type ELSE s

WithReuse(item, ds) == {Reuse(ds, s) : s \in item}

\* cTSDemuxer: a parser for the type; teletext needs no parsing.
Demuxer(s) == IF s.type = "TELETEXT" THEN [s EXCEPT !.info = "known"] ELSE s

CreateDemuxers(item, ds) == {Demuxer(s) : s \in WithReuse(item, ds)}
-----------------------------------------------------------------------------
(* reorderStreams: a weight for each demuxer, and a map from weights.  Only *)
(* the set of demuxers is kept here, not their order.                      *)
Bit(b) == IF b THEN 1 ELSE 0

\* Mutant: without the PID as last resort, equal weights meet in the map.
WeightWithoutPid(s) ==
  16 * Bit(Content(s.type) = "video") + 8 * Bit(Content(s.type) = "audio")
  + 4 * Bit(Content(s.type) = "subtitle") + 2 * Bit(s.lang = LanguageIndex)
  + Bit(Content(s.type) = "audio" /\ s.type = LangStreamType)

Weight(s) ==
  (16 * Bit(Content(s.type) = "video") + 8 * Bit(Content(s.type) = "audio")
   + 4 * Bit(Content(s.type) = "subtitle") + 2 * Bit(s.lang = LanguageIndex)
   + Bit(Content(s.type) = "audio" /\ s.type = LangStreamType)) * (MaxPid + 1)
  + (MaxPid - s.pid)

\* Of several streams with one weight one remains.
Reorder(ds) == {CHOOSE d \in ds : Weight(d) = w : w \in {Weight(d) : d \in ds}}
-----------------------------------------------------------------------------
(* The filter is "off" (deleted), looks for its channel in the "pat", for  *)
(* the "pmt" (m_pmtVersion = -1) on m_pmtPid, "watch"es for a new version  *)
(* of it, or is about to lock m_FilterMutex and "change" the streams to    *)
(* what it has seen.  "locked": it waits for m_FilterMutex, whose holder   *)
(* waits for it to be detached.                                            *)
NoFilter    == [at |-> "off", pid |-> 0, version |-> 0,
                known |-> NoStreams, seen |-> NoStreams]
FreshFilter == [NoFilter EXCEPT !.at = "pat"]

Unattached == [attached |-> FALSE, pids |-> {}]
Attached(ds) == [attached |-> TRUE, pids |-> PidsOf(ds)]

NoFile == [state |-> "none", item |-> NoStreams]

\* The constructor of cLiveStreamer.
NewStreamer ==
  /\ filter' = NoFilter /\ demuxers' = {} /\ receiver' = Unattached
  /\ ready' = FALSE /\ request' = FALSE /\ told' = {}

Init ==
  /\ newVdr \in Builds
  /\ \E l \in Lineups : air = [table |-> l, version |-> 0]
  /\ channel \in FirstKnown /\ reported = FALSE
  /\ cache = NoStreams
  /\ filter = NoFilter /\ demuxers = {} /\ receiver = Unattached
  /\ ready = FALSE /\ request = FALSE /\ told = {}
  /\ saving = "idle" /\ disk = [file |-> NoFile, bak |-> NoFile]
  /\ changes = 0 /\ losses = 0 /\ saves = 0 /\ writeFailed = FALSE

\* The broadcast changes; PMT versions are numbers of five bits.
AirChanges ==
  /\ changes < MaxChanges /\ changes' = changes + 1
  /\ \E l \in Lineups \ {air.table} :
       air' = [table |-> l, version |-> (air.version + 1) % 32]
  /\ UNCHANGED <<newVdr, channel, reported, cache, tuner, files, losses>>

\* VDR's own filters update its channel; new versions report that.
VdrFollows ==
  /\ channel # air.table
  /\ channel' = air.table
  /\ reported' = newVdr
  /\ UNCHANGED <<newVdr, air, changes, cache, tuner, files, losses>>
-----------------------------------------------------------------------------
(* The streamer.                                                           *)

\* SwitchChannel without a device that can be tuned: the receiver and the
\* filter are gone, all else stays.
NoDevice ==
  /\ losses < MaxLosses /\ losses' = losses + 1
  /\ receiver' = [receiver EXCEPT !.attached = FALSE] /\ filter' = NoFilter
  /\ UNCHANGED <<cache, demuxers, request>>

\* SwitchChannel once a device is tuned, until AttachReceiver succeeds or
\* not.  m_ready stays as it is.
DeviceTuned ==
  LET item   == ItemFromChannel(channel)
      cached == IF cache # NoStreams THEN cache ELSE item
      new    == IF IsMetaOf(item, cached) THEN cached ELSE item
      ds     == IF new # NoStreams THEN CreateDemuxers(new, demuxers) ELSE demuxers
  IN /\ cache' = new
     /\ demuxers' = ds
     /\ request' = TRUE
     /\ \/ receiver' = Attached(ds) /\ filter' = FreshFilter /\ UNCHANGED losses
        \/ /\ losses < MaxLosses /\ losses' = losses + 1
           /\ receiver' = [Attached(ds) EXCEPT !.attached = FALSE]
           /\ filter' = NoFilter

\* A thread may lock m_FilterMutex and detach the filter.
MayDetach == filter.at \notin {"change", "locked"}

SwitchChannel ==
  /\ MayDetach
  /\ NoDevice \/ DeviceTuned
  /\ UNCHANGED <<newVdr, ready, told, files>>

\* The streamer's thread finds that it is not attached.
TryChannelSwitch ==
  /\ ~receiver.attached
  /\ SwitchChannel
  /\ UNCHANGED stream

\* VDR's main thread calls ChannelChange of the client and its streamer.
ChannelChange ==
  /\ reported
  /\ SwitchChannel
  /\ reported' = FALSE
  /\ UNCHANGED <<air, channel, changes>>

\* Under m_FilterMutex, Detach(m_PatFilter) waits for the section handler,
\* whose thread is in Process() and waits for m_FilterMutex: a switch of the
\* channel, or (losses) a lost signal or the destructor at the wrong moment.
DetachDuringProcess ==
  /\ filter.at = "change"
  /\ ~receiver.attached \/ reported \/ losses < MaxLosses
  /\ filter' = [filter EXCEPT !.at = "locked"]
  /\ UNCHANGED <<newVdr, stream, cache, demuxers, receiver, ready, request, told, files, losses>>

StandsStill == filter.at = "locked" /\ UNCHANGED vars

\* VDR takes the device away.
Lose ==
  /\ receiver.attached /\ losses < MaxLosses
  /\ losses' = losses + 1
  /\ receiver' = [receiver EXCEPT !.attached = FALSE]
  /\ UNCHANGED <<newVdr, stream, cache, filter, demuxers, ready, request, told, files>>

\* The streams on the air that can be used, second pictures included.
Broadcast == {AsSeen(air.table)[k] : k \in DOMAIN air.table}

IsAV(s) == Content(s.type) \in {"audio", "video"}

\* The stream that is broadcast is one the demuxer's parser understands.
Understands(d, s) ==
  d.pid = s.pid /\ (d.type = s.type \/ {d.type, s.type} = {"AC3", "EAC3"})

\* SetVideoInformation returns at once if it does not believe in the picture.
Believed(d, s) == IsAV(d) /\ ~(Content(d.type) = "video" /\ s.info = Insane)

\* Mutant: changed information is stored without a request for a stream
\* change.
SetInformationQuietly(d, s) ==
  [info |-> IF Believed(d, s) THEN s.info ELSE d.info, changed |-> FALSE]

\* SetVideoInformation and SetAudioInformation.
SetInformation(d, s) ==
  [info |-> IF Believed(d, s) THEN s.info ELSE d.info,
   changed |-> Believed(d, s) /\ s.info # d.info]

\* The demuxer of PID p has assembled a packet: it is parsed, and handed to
\* sendStreamPacket, which sends a stream change before it when that is due.
Packet(p) ==
  \E d \in demuxers, s \in Broadcast :
    LET got == SetInformation(d, s)
        ds  == (demuxers \ {d}) \cup {[d EXCEPT !.info = got.info]}
        allParsed == ready \/ \A e \in ds : e.info # Unparsed
        starting  == told = {}
    IN /\ receiver.attached /\ filter.at # "locked"
       /\ d.pid = p /\ Understands(d, s)
       /\ ready' = allParsed
       /\ IF /\ allParsed /\ (starting => IsAV(d))
             /\ request \/ got.changed \/ starting
            THEN /\ cache' = ds
                 /\ demuxers' = Reorder(ds) /\ told' = Reorder(ds)
                 /\ request' = FALSE
            ELSE /\ demuxers' = ds
                 /\ request' = (request \/ got.changed)
                 /\ UNCHANGED <<cache, told>>
       /\ UNCHANGED <<newVdr, stream, filter, receiver, files, losses>>

\* The client closes the stream and opens it again.
Reopen ==
  /\ losses < MaxLosses /\ losses' = losses + 1
  /\ MayDetach
  /\ NewStreamer
  /\ UNCHANGED <<newVdr, stream, cache, files>>
-----------------------------------------------------------------------------
(* The PAT/PMT filter, in VDR's section handler thread.                    *)

\* The sections of the PMT come on another PID than m_pmtPid, which is 0 in
\* the beginning and after a new version.
PatSection ==
  /\ filter.at \in {"pat", "pmt", "watch"} /\ filter.pid # PmtPids[air.table]
  /\ filter' = [filter EXCEPT !.at = "pmt", !.pid = PmtPids[air.table]]
  /\ UNCHANGED <<newVdr, stream, cache, demuxers, receiver, ready, request, told, files, losses>>

\* A new version: the filter goes back to the PAT.
NewVersion ==
  /\ filter.at = "watch" /\ filter.version # air.version
  /\ filter.pid = PmtPids[air.table]
  /\ filter' = [filter EXCEPT !.at = "pat", !.pid = 0]
  /\ UNCHANGED <<newVdr, stream, cache, demuxers, receiver, ready, request, told, files, losses>>

\* A PMT after the PAT: is there anything the cache does not know?
PmtSection ==
  LET known == IF filter.known = NoStreams THEN cache ELSE filter.known
      seen  == ItemFromPmt(air.table)
  IN /\ filter.at = "pmt" /\ filter.pid = PmtPids[air.table]
     /\ filter' = [filter EXCEPT
                     !.at = IF IsMetaOf(known, seen) THEN "watch" ELSE "change",
                     !.version = air.version, !.known = known, !.seen = seen]
     /\ UNCHANGED <<newVdr, stream, cache, demuxers, receiver, ready, request, told, files, losses>>

\* Under m_FilterMutex: older versions of VDR leave the demuxers to the
\* filter, newer ones call ChannelChange.
ChangeStreams ==
  LET item == IF newVdr THEN filter.seen ELSE WithReuse(filter.seen, demuxers)
      ds   == IF newVdr THEN demuxers ELSE CreateDemuxers(filter.seen, demuxers)
  IN /\ filter.at = "change"
     /\ filter' = [filter EXCEPT !.at = "watch", !.known = item, !.seen = NoStreams]
     /\ cache' = item
     /\ demuxers' = ds
     /\ receiver' = IF newVdr THEN receiver ELSE Attached(ds)
     /\ ready' = FALSE /\ request' = TRUE
     /\ UNCHANGED <<newVdr, stream, told, files, losses>>
-----------------------------------------------------------------------------
(* The file of the cache.                                                  *)

\* Mutant: the file is written in place.
SaveOpenInPlace ==
  /\ saving = "idle" /\ saves < MaxSaves /\ saves' = saves + 1
  /\ saving' = "open"
  /\ disk' = [disk EXCEPT !.file = [state |-> "part", item |-> NoStreams]]
  /\ UNCHANGED <<newVdr, stream, cache, tuner, losses, writeFailed>>

\* open(O_TRUNC) of the .bak file.
SaveOpen ==
  /\ saving = "idle" /\ saves < MaxSaves /\ saves' = saves + 1
  /\ saving' = "open"
  /\ disk' = [disk EXCEPT !.bak = [state |-> "part", item |-> NoStreams]]
  /\ UNCHANGED <<newVdr, stream, cache, tuner, losses, writeFailed>>

\* The write may fail, which is not noticed.
SaveWrite ==
  /\ saving = "open"
  /\ saving' = "written"
  /\ \/ /\ disk' = [disk EXCEPT !.bak = [state |-> "whole", item |-> cache]]
        /\ UNCHANGED <<writeFailed, losses>>
     \/ /\ losses < MaxLosses /\ losses' = losses + 1
        /\ writeFailed' = TRUE /\ UNCHANGED disk
  /\ UNCHANGED <<newVdr, stream, cache, tuner, saves>>

SaveRename ==
  /\ saving = "written"
  /\ saving' = "idle"
  /\ disk' = [file |-> disk.bak, bak |-> NoFile]
  /\ UNCHANGED <<newVdr, stream, cache, tuner, losses, saves, writeFailed>>

\* LoadChannelCacheData and gc(): what cannot be read leaves the cache
\* empty, and an entry whose channel VDR does not know is dropped.
Load(file) == {IF file.state = "whole" THEN file.item ELSE NoStreams, NoStreams}

\* VDR crashes or stops, and starts again.
Restart ==
  /\ losses < MaxLosses /\ losses' = losses + 1
  /\ NewStreamer
  /\ cache' \in Load(disk.file)
  /\ saving' = "idle" /\ reported' = FALSE
  /\ UNCHANGED <<newVdr, air, channel, changes, disk, saves, writeFailed>>

Pids == 1 .. MaxPid

Next ==
  \/ AirChanges \/ VdrFollows
  \/ TryChannelSwitch \/ ChannelChange \/ Lose \/ Reopen
  \/ DetachDuringProcess \/ StandsStill
  \/ \E p \in Pids : Packet(p)
  \/ PatSection \/ NewVersion \/ PmtSection \/ ChangeStreams
  \/ SaveOpen \/ SaveWrite \/ SaveRename \/ Restart

(* The streamer's thread and the section handler run, VDR follows the      *)
(* broadcast, tables and packets are broadcast again and again.  That the  *)
(* broadcast changes, or a device is lost, is never forced.                *)
Spec ==
  /\ Init /\ [][Next]_vars
  /\ WF_vars(VdrFollows) /\ WF_vars(TryChannelSwitch) /\ WF_vars(ChannelChange)
  /\ \A p \in Pids : WF_vars(Packet(p))
  /\ WF_vars(PatSection) /\ WF_vars(NewVersion)
  /\ WF_vars(PmtSection) /\ WF_vars(ChangeStreams)
-----------------------------------------------------------------------------
IsItem(item) ==
  /\ \A s \in item : s.pid \in Pids /\ s.type \in Types \ {"none"}
  /\ Cardinality(PidsOf(item)) = Cardinality(item)
  /\ Cardinality({s \in item : Content(s.type) = "video"}) <= 1

\* The state has its types: whatever is kept of the streams, wherever, has
\* one entry for a PID and at most one picture.
TypeOK ==
  /\ newVdr \in BOOLEAN
  /\ air.table \in Lineups /\ air.version \in 0 .. 31 /\ channel \in Lineups
  /\ reported \in BOOLEAN
  /\ \A item \in {cache, demuxers, told, filter.known, filter.seen} : IsItem(item)
  /\ filter.at \in {"off", "pat", "pmt", "watch", "change", "locked"}
  /\ ready \in BOOLEAN /\ request \in BOOLEAN
  /\ saving \in {"idle", "open", "written"}

\* Each PID the receiver asks for has exactly one demuxer, however often the
\* demuxers are created anew and reordered (channelcache.c:71,
\* livestreamer.c:722): a stream must not vanish with its demuxer.
EachPidHasDemuxer ==
  /\ receiver.pids = PidsOf(demuxers)
  /\ Cardinality(receiver.pids) = Cardinality(demuxers)

\* A crash at any point of SaveChannelCacheData() leaves a file that can be
\* loaded as a whole, as long as no write has failed (channelcache.c:234).
FileIsWhole == disk.file.state = "part" => writeFailed

\* What the client was told is what is broadcast: the same streams, with the
\* information of today and not of the cache.
ToldTheTruth ==
  /\ receiver.attached
  /\ PidsOf(told) = PidsOf(ItemFromPmt(air.table))
  /\ \A s \in told, b \in Broadcast :
       s.pid = b.pid => /\ Content(s.type) = Content(b.type)
                        /\ IsAV(s) => s.info = b.info

\* The comparisons take any two types of audio for the same stream if the
\* one is AC3 or the other EAC3 (streaminfo.c:116), so that a demuxer can
\* stay that does not fit its stream.
Mistaken ==
  \E d \in demuxers, b \in Broadcast :
    /\ d.pid = b.pid /\ Content(b.type) = "audio" /\ ~Understands(d, b)
    /\ {d.type, b.type} \cap {"AC3", "EAC3"} # {}

\* From 2.1.6 on the filter leaves the demuxers to VDR's ChannelChange, and
\* so never gets those for streams that are not in VDR's description of the
\* channel (channelcache.c:153, livepatfilter.c:386).
NotFiled == newVdr /\ PidsOf(ItemFromChannel(air.table)) # PidsOf(ItemFromPmt(air.table))

\* A picture that is not believed in is never parsed (demuxer.c:171).
Disbelieved ==
  \E d \in demuxers, b \in Broadcast :
    d.pid = b.pid /\ Content(b.type) = "video" /\ b.info = Insane

\* Once the broadcast stays as it is, the client comes to know it: whatever
\* the cache, its file, VDR's channel and the filter knew before, and in
\* which order they find out (livestreamer.c:337, livepatfilter.c:340), unless
\* the filter and the holder of m_FilterMutex wait for each other
\* (livepatfilter.c:377), or one of the three reasons above holds it up.
ClientLearnsStreams ==
  <>[](\/ ToldTheTruth \/ filter.at = "locked"
       \/ Mistaken \/ NotFiled \/ Disbelieved)
=============================================================================
