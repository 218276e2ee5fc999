---------------------------- MODULE LiveStreamer ----------------------------
(***************************************************************************)
(* cLiveStreamer (src/src/live/livestreamer.c): one live stream of one     *)
(* client.  Its thread (Action) tunes a device, detects a lost signal and  *)
(* turns TS packets into stream packets; VDR's main thread (ChannelChange) *)
(* and the section handler thread (cLivePatFilter::Process) change the     *)
(* demuxers under it.  m_FilterMutex makes the processing of one TS        *)
(* packet, a channel switch and a change of the filter one step each; that *)
(* a switch waits for a filter that waits for this lock is in Streams.tla. *)
(*                                                                         *)
(* The send queue is reduced to its live mode: a sequence of stream        *)
(* changes ("change") and mux packets ("mux"), see LiveQueue.tla for the   *)
(* rest.  A packet is its content and whether it is an I-frame; a tuner    *)
(* and its data are what the external device answers.                      *)
(***************************************************************************)
EXTENDS Naturals, Sequences

CONSTANTS
  QueueSize,      \* m_queuesize of the send queue
  WaitForIFrame,  \* the values of that option of XVDR_CHANNELSTREAM_OPEN
  LateOptions,    \* TRUE: the setters run while the thread already does
  Pictures,       \* whether the channel can have a picture, or none: a radio
  OldVDR          \* VDRVERSNUM < 20106

ASSUME LiveStreamerAssumption ==
  /\ QueueSize \in Nat \ {0}
  /\ WaitForIFrame \subseteq BOOLEAN /\ Pictures \subseteq BOOLEAN
  /\ LateOptions \in BOOLEAN /\ OldVDR \in BOOLEAN

VARIABLES
  pc,            \* where Action() is
  life,          \* progress of the destructor, or "crashed"
  options,       \* StartChannelStreaming has called the setters
  attached,      \* IsAttached()
  device,        \* m_Device # NULL
  filter,        \* m_PatFilter # NULL
  demuxers,      \* m_Demuxers is not empty
  parsed,        \* every demuxer IsParsed()
  ready,         \* m_ready
  startup,       \* m_startup
  requestStreamChange, signalLost, waitforiframe,   \* m_...
  expired,       \* m_last_tick.Elapsed() > m_scanTimeout
  picture,       \* I-frames are broadcast
  ring,          \* the ring buffer holds TS packets
  buf,           \* what Action() got from it: "none", "fresh", or "stale":
                 \* the ring was cleared since Get()
  queue          \* m_Queue

\* History, read by no action.
VARIABLES
  described,     \* a stream change was queued since the demuxers or their
                 \* stream information changed and the signal was restored
  old,           \* the length of the queue's part from before that
  known,         \* a stream change from behind that part was sent, or fell
                 \* out of the full queue
  status,        \* the last status message: "none", "lost", "restored"
  mux            \* what the first mux packet was, and described when the
                 \* last one was queued

tuner   == <<attached, device, filter, demuxers, parsed>>
flags   == <<ready, startup, requestStreamChange, signalLost, waitforiframe>>
wire    == <<old, known>>
history == <<described, wire, status, mux>>
vars    == <<pc, life, options, tuner, flags, expired, picture, ring, buf,
             queue, history>>

Running == life = "alive"

\* The object exists and the process runs.
Exists == life \in {"alive", "cancelled"}

Contents == {"av", "other"}
NoMux == [first |-> "none", described |-> TRUE]
-----------------------------------------------------------------------------
Init ==
  /\ pc = "get" /\ life = "alive"
  /\ options = ~LateOptions
  /\ attached = FALSE /\ device = FALSE /\ filter = FALSE
  /\ demuxers = FALSE /\ parsed = FALSE
  /\ ready = FALSE /\ startup = TRUE
  /\ requestStreamChange = FALSE /\ signalLost = FALSE
  /\ waitforiframe \in (IF options THEN WaitForIFrame ELSE {FALSE})
  /\ expired = FALSE
  /\ picture \in Pictures
  /\ ring = FALSE /\ buf = "none"
  /\ queue = <<>>
  /\ described = FALSE /\ old = 0 /\ known = FALSE /\ status = "none" /\ mux = NoMux

(* cXVDRClient::StartChannelStreaming calls the setters after the          *)
(* constructor has started the thread.                                     *)
SetOptions ==
  /\ Running /\ ~options
  /\ options' = TRUE
  /\ waitforiframe' \in WaitForIFrame
  /\ UNCHANGED <<pc, life, tuner, ready, startup, requestStreamChange,
                 signalLost, expired, picture, ring, buf, queue, history>>

\* Mutant: the queue is not trimmed.
AddAll(q, s) == q \o s

(* cLiveQueue::Add in live mode: the oldest packets leave a full queue.    *)
Add(q, s) ==
  LET all == q \o s IN
  IF Len(all) > QueueSize
    THEN SubSeq(all, Len(all) - QueueSize + 1, Len(all)) ELSE all

\* History: items are queued, after a change of what there is to describe,
\* and the oldest packets leave, to the socket or because it is full.
Track(items, changed) ==
  LET all  == queue \o items
      gone == Len(all) - Len(queue')
      o    == IF changed THEN Len(queue) ELSE old
  IN /\ old' = IF gone < o THEN o - gone ELSE 0
     /\ known' = \/ known /\ ~changed
                 \/ \E i \in o + 1 .. gone : all[i] = "change"
-----------------------------------------------------------------------------
(* SwitchChannel: the filter and the receiver are detached, then each step *)
(* of finding a device, tuning it and attaching the receiver may fail.     *)
(* Once the device is tuned, the demuxers are created anew (reusing what   *)
(* is known of their streams) unless nothing is known of the channel, a    *)
(* stream change is requested, and the ring buffer and the queue cleared.  *)

Release ==
  /\ filter' = (filter /\ ~device)
  /\ attached' = FALSE

NotDecryptable ==
  Release /\ UNCHANGED <<device, demuxers, parsed, requestStreamChange, ring,
                         buf, queue, described, wire>>

NoDevice ==
  Release /\ device' = FALSE
  /\ UNCHANGED <<demuxers, parsed, requestStreamChange, ring, buf, queue,
                 described, wire>>

NotTuned ==
  Release /\ device' = TRUE
  /\ UNCHANGED <<demuxers, parsed, requestStreamChange, ring, buf, queue,
                 described, wire>>

\* Mutant: the request is lost.
RequestLost == UNCHANGED requestStreamChange

RequestStreamChange == requestStreamChange' = TRUE

\* cChannelCache::CreateDemuxers
CreateDemuxers ==
  /\ demuxers' = TRUE
  /\ parsed' \in BOOLEAN
  /\ described' = FALSE

Tuned(success) ==
  /\ device' = TRUE
  /\ \/ CreateDemuxers /\ known' = FALSE
     \/ UNCHANGED <<demuxers, parsed, described, known>>
  /\ RequestStreamChange
  /\ ring' = FALSE
  /\ buf' = IF buf = "fresh" THEN "stale" ELSE buf
  /\ queue' = <<>> /\ old' = 0
  /\ attached' = success
  /\ filter' = (success \/ (filter /\ ~device))

SwitchFails == NotDecryptable \/ NoDevice \/ NotTuned \/ Tuned(FALSE)
-----------------------------------------------------------------------------
(* The streamer's thread, Action().                                        *)

\* while(Running()) and Get(size).
Get ==
  /\ pc = "get" /\ Running
  /\ pc' = "attach"
  /\ buf' \in {"none"} \cup (IF ring THEN {"fresh"} ELSE {})
  /\ UNCHANGED <<life, options, tuner, flags, expired, picture, ring, queue, history>>

Stop ==
  /\ pc = "get" /\ ~Running
  /\ pc' = "ended"
  /\ UNCHANGED <<life, options, tuner, flags, expired, picture, ring, buf, queue, history>>

\* TryChannelSwitch: a failure that has lasted for the timeout is reported
\* to the client, and the time starts again.
Attached ==
  /\ pc = "attach" /\ attached
  /\ pc' = "timeout"
  /\ UNCHANGED <<life, options, tuner, flags, expired, picture, ring, buf, queue, history>>

TrySwitch ==
  /\ pc = "attach" /\ ~attached
  /\ Tuned(TRUE)
  /\ pc' = "timeout"
  /\ UNCHANGED <<life, options, ready, startup, signalLost, waitforiframe,
                 expired, picture, status, mux>>

TrySwitchFails ==
  /\ pc = "attach" /\ ~attached
  /\ SwitchFails
  /\ expired' = FALSE
  /\ pc' = "timeout"
  /\ UNCHANGED <<life, options, ready, startup, signalLost, waitforiframe,
                 picture, status, mux>>

\* The channel is no longer in VDR's list: nothing is touched, but the report
\* of a failure that has lasted for the timeout reads the number and the
\* name of a channel that is NULL (line 181), which ends the process.
ChannelGone ==
  /\ pc = "attach" /\ ~attached
  /\ pc'   = IF expired THEN "ended" ELSE "timeout"
  /\ life' = IF expired THEN "crashed" ELSE life
  /\ UNCHANGED <<options, tuner, flags, expired, picture, ring, buf, queue, history>>

\* The test for a lost signal, without a lock ...
SignalOk ==
  /\ pc = "timeout"
  /\ startup \/ ~expired \/ signalLost
  /\ pc' = "data"
  /\ UNCHANGED <<life, options, tuner, flags, expired, picture, ring, buf, queue, history>>

SignalTimeout ==
  /\ pc = "timeout"
  /\ ~startup /\ expired /\ ~signalLost
  /\ status' = "lost"
  /\ signalLost' = TRUE
  /\ pc' = "detach"
  /\ UNCHANGED <<life, options, tuner, ready, startup, requestStreamChange,
                 waitforiframe, expired, picture, ring, buf, queue,
                 described, wire, mux>>

\* ... and the detaching that makes the next round tune again.
DetachLost ==
  /\ pc = "detach"
  /\ Release
  /\ pc' = "data"
  /\ UNCHANGED <<life, options, device, demuxers, parsed, flags, expired,
                 picture, ring, buf, queue, history>>

\* The rest of the loop: no more data, or the thread has to end.
EndOfData ==
  /\ pc = "data"
  /\ pc' = "get"
  /\ buf' = "none"
  /\ ring' \in (IF buf = "fresh" THEN BOOLEAN ELSE {ring})
  /\ UNCHANGED <<life, options, tuner, flags, expired, picture, queue, history>>

(* One TS packet that completes a frame: the parser may find new stream    *)
(* information (Set{Video,Audio}Information), then sendStreamPacket.       *)
\* Mutant: a stream may start with any packet.
DroppedUnready(content) == ~ready'

\* A packet is dropped at once while a demuxer is not parsed, and on
\* startup until audio or video comes.
Dropped(content) ==
  \/ ~ready'
  \/ startup /\ content # "av"

\* sendStreamChange: a pending one is queued before anything else.
Before(pending) == IF pending THEN <<"change">> ELSE <<>>

Pending(changes) == changes \/ requestStreamChange \/ startup

\* Waiting for an I-frame, which this packet is not.
AwaitIFrame(iframe, changes) ==
  /\ waitforiframe /\ ~iframe
  /\ queue' = Add(queue, Before(Pending(changes)))
  /\ Track(Before(Pending(changes)), changes)
  /\ described' = (described \/ Pending(changes))
  /\ requestStreamChange' = FALSE
  /\ expired' = (expired /\ ~startup)
  /\ UNCHANGED <<waitforiframe, signalLost, status, mux>>

\* Mutant: the test for audio and video is inverted.
RestoresInverted(content) == content # "av"

\* Audio and video packets show that the signal is back.
Restores(content) == content = "av"

\* Mutant: no stream change is requested.
SignalRestoredOnly(content, changes) ==
  /\ signalLost /\ Restores(content)
  /\ queue' = Add(queue, Before(Pending(changes)))
  /\ old' = Len(queue') /\ known' = FALSE
  /\ status' = "restored"
  /\ signalLost' = FALSE
  /\ requestStreamChange' = FALSE
  /\ described' = FALSE
  /\ expired' = FALSE
  /\ UNCHANGED mux

\* The first one is reported and dropped, and a stream change requested.
SignalRestored(content, changes) ==
  /\ signalLost /\ Restores(content)
  /\ queue' = Add(queue, Before(Pending(changes)))
  /\ old' = Len(queue') /\ known' = FALSE
  /\ status' = "restored"
  /\ signalLost' = FALSE
  /\ requestStreamChange' = TRUE
  /\ described' = FALSE
  /\ expired' = FALSE
  /\ UNCHANGED mux

\* Any other packet is dropped.
StillLost(content, changes) ==
  /\ signalLost /\ ~Restores(content)
  /\ queue' = Add(queue, Before(Pending(changes)))
  /\ Track(Before(Pending(changes)), changes)
  /\ described' = (described \/ Pending(changes))
  /\ requestStreamChange' = FALSE
  /\ UNCHANGED <<signalLost, expired, status, mux>>

\* The mux packet is queued; teletext is not while the queue fills up.
SendMux(content, iframe, changes) ==
  LET first == Before(Pending(changes)) IN
  /\ ~signalLost
  /\ \/ queue' = Add(queue, first \o <<"mux">>) /\ Track(first \o <<"mux">>, changes)
     \/ /\ content = "other"
        /\ Len(Add(queue, first)) > QueueSize \div 2
        /\ queue' = Add(queue, first) /\ Track(first, changes)
  /\ described' = (described \/ Pending(changes))
  /\ requestStreamChange' = FALSE
  /\ expired' = FALSE
  /\ mux' = [first     |-> IF mux.first # "none" THEN mux.first
                           ELSE IF iframe THEN "iframe" ELSE content,
             described |-> described \/ Pending(changes)]
  /\ UNCHANGED <<signalLost, status>>

Passed(content, iframe, changes) ==
  /\ startup' = FALSE
  /\ \/ AwaitIFrame(iframe, changes)
     \/ /\ ~waitforiframe \/ iframe
        /\ waitforiframe' = FALSE
        /\ \/ SignalRestored(content, changes)
           \/ StillLost(content, changes)
           \/ SendMux(content, iframe, changes)

Process(content, iframe, changes) ==
  /\ pc = "data" /\ buf # "none" /\ Running
  /\ demuxers
  /\ iframe => content = "av" /\ picture
  /\ parsed' \in (IF changes THEN {parsed, TRUE} ELSE {parsed})
  /\ ready' = (ready \/ parsed')
  /\ \/ /\ Dropped(content)
        /\ requestStreamChange' = (requestStreamChange \/ changes)
        /\ described' = (described /\ ~changes)
        /\ UNCHANGED queue /\ Track(<<>>, changes)
        /\ UNCHANGED <<startup, waitforiframe, signalLost, expired, status, mux>>
     \/ /\ ~Dropped(content)
        /\ Passed(content, iframe, changes)
  /\ UNCHANGED <<pc, life, options, attached, device, filter, demuxers,
                 picture, ring, buf>>

ProcessAny == \E c \in Contents, i \in BOOLEAN, n \in BOOLEAN : Process(c, i, n)

Action ==
  \/ Get \/ Stop \/ Attached \/ TrySwitch \/ TrySwitchFails \/ ChannelGone
  \/ SignalOk \/ SignalTimeout \/ DetachLost \/ EndOfData \/ ProcessAny
-----------------------------------------------------------------------------
(* The other threads and the device.                                       *)

\* VDR's main thread: cStatus::ChannelChange of the streamed channel.
ChannelChange ==
  /\ Running
  /\ SwitchFails \/ Tuned(TRUE)
  /\ UNCHANGED <<pc, life, options, ready, startup, signalLost, waitforiframe,
                 expired, picture, status, mux>>

\* The section handler thread: cLivePatFilter::Process found new streams.
\* Before VDR 2.1.6 it creates the demuxers, afterwards ChannelChange does.
NewStreams ==
  /\ Exists
  /\ filter
  /\ IF OldVDR
       THEN /\ CreateDemuxers /\ attached' \in BOOLEAN
            /\ old' = Len(queue) /\ known' = FALSE
       ELSE UNCHANGED <<demuxers, parsed, described, wire, attached>>
  /\ ready' = FALSE
  /\ RequestStreamChange
  /\ UNCHANGED <<pc, life, options, device, filter, startup, signalLost,
                 waitforiframe, expired, picture, ring, buf, queue, status, mux>>

\* The device thread: Receive() puts TS packets into the ring buffer.
Receive ==
  /\ Exists /\ attached
  /\ ring' = TRUE
  /\ UNCHANGED <<pc, life, options, tuner, flags, expired, picture, buf, queue,
                 history>>

\* VDR takes the device away and detaches the receiver.
DeviceTaken ==
  /\ Exists /\ attached
  /\ attached' = FALSE
  /\ UNCHANGED <<pc, life, options, device, filter, demuxers, parsed, flags,
                 expired, picture, ring, buf, queue, history>>

TimePasses ==
  /\ Exists /\ ~expired
  /\ expired' = TRUE
  /\ UNCHANGED <<pc, life, options, tuner, flags, picture, ring, buf, queue,
                 history>>

\* The thread of the send queue writes the oldest packet to the socket.
Deliver ==
  /\ Exists /\ queue # <<>>
  /\ queue' = Tail(queue) /\ Track(<<>>, FALSE)
  /\ UNCHANGED <<pc, life, options, tuner, flags, expired, picture, ring, buf,
                 described, status, mux>>

\* The destructor: Cancel(5), then everything is detached and deleted.
Cancel ==
  /\ life = "alive" /\ options
  /\ life' = "cancelled"
  /\ UNCHANGED <<pc, options, tuner, flags, expired, picture, ring, buf, queue, history>>

Delete ==
  /\ life = "cancelled"
  /\ life' = "deleted"
  /\ pc' = "ended"
  /\ Release
  /\ demuxers' = FALSE /\ parsed' = FALSE
  /\ queue' = <<>> /\ old' = 0
  /\ device' = FALSE
  /\ ring' = FALSE /\ buf' = "none"
  /\ UNCHANGED <<options, flags, expired, picture, described, known, status, mux>>

Terminated == ~Exists /\ UNCHANGED vars

Next ==
  \/ Action \/ SetOptions \/ ChannelChange \/ NewStreams \/ Receive
  \/ DeviceTaken \/ TimePasses \/ Deliver \/ Cancel \/ Delete \/ Terminated

Spec == Init /\ [][Next]_vars

(* The thread runs.  Of the device it is assumed that one asked again and  *)
(* again tunes in the end and sends data to an attached receiver.  Of the  *)
(* broadcast, that it goes on with I-frames, or with audio if it has no    *)
(* picture, and that a stream that is not parsed comes with properties     *)
(* that the demuxer takes; none has to change once it is parsed.           *)
LiveSpec ==
  /\ Spec
  /\ WF_vars(Action)
  /\ SF_vars(TrySwitch)
  /\ SF_vars(Receive)
  /\ SF_vars(Get /\ buf' = "fresh")
  /\ SF_vars(Process("av", picture, FALSE))
  /\ SF_vars(\E i \in BOOLEAN : Process("av", i, TRUE) /\ ~parsed /\ parsed')
-----------------------------------------------------------------------------
\* The state has its types: the send queue stays within its size, and what
\* was sent last is a packet of a known kind.
TypeOK ==
  /\ pc \in {"get", "attach", "timeout", "detach", "data", "ended"}
  /\ life \in {"alive", "cancelled", "deleted", "crashed"}
  /\ \A b \in {options, attached, device, filter, demuxers, parsed, ready,
               startup, requestStreamChange, signalLost, waitforiframe,
               expired, picture, ring, described, known} : b \in BOOLEAN
  /\ buf \in {"none", "fresh", "stale"}
  /\ queue \in Seq({"change", "mux"}) /\ Len(queue) <= QueueSize
  /\ old \in 0 .. Len(queue)
  /\ status \in {"none", "lost", "restored"}
  /\ mux \in [first : {"none", "iframe"} \cup Contents, described : BOOLEAN]

\* No mux packet is queued for demuxers the client has not been told of,
\* nor after the signal came back without telling it again, whichever of
\* the three threads changed the demuxers (livestreamer.c:364, 439, 454
\* and livepatfilter.c:395).
DescribedFirst == mux.described

\* Why that is so: what is not described yet is asked for.
Asked == described \/ requestStreamChange \/ startup

\* What goes over the wire: between a change of the demuxers or of their
\* stream information, or the return of the signal, and the next mux packet
\* of what follows there is a stream change, sent or on its way, although a
\* retune clears the queue with what was on its way (livestreamer.c:364, 374
\* and 450-456).  Only a full queue may have dropped it (livequeue.c:140).
\* The reports of the signal are no landmark: they go through another queue.
DescribedOnWire ==
  \/ known
  \/ \A i \in old + 1 .. Len(queue) : queue[i] = "mux" =>
       \E j \in old + 1 .. i - 1 : queue[j] = "change"

\* A stream starts with audio or video, though teletext or subtitles may be
\* complete first, and a stream change or a retune may come in between;
\* anything else can only come first when the signal was lost before the
\* first packet (livestreamer.c:427-430).
StartsWithAV == mux.first = "other" => status # "none"

\* VDR changes the channel and takes devices away only finitely often.
Calm == <>[][~(ChannelChange \/ DeviceTaken \/ NewStreams)]_vars

\* A lost signal is restored, or the stream ends: the test at
\* livestreamer.c:212 detaches, the next rounds attach again, and neither
\* the parsing of the streams nor the wait for an I-frame holds the
\* restoration up for ever.  A client that waits for the I-frames of a
\* radio gets nothing, and no such report (line 443).
SignalComesBack ==
  Calm => (signalLost ~> \/ ~signalLost \/ ~Running
                         \/ waitforiframe /\ ~picture)

\* livestreamer.c:165 "push notification after timeout": the report of a
\* failed switch reaches the client whatever the failure is.
FailureReported == life # "crashed"
=============================================================================
