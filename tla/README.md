# vdr-plugin-xvdr in TLA+

The plugin turns a running VDR (a digital video recorder) into a streaming
server: XBMC clients connect over TCP, watch live television with timeshift, read
recordings, edit timers and are notified of changes.  These modules model the
parts of `src/src/` that keep state and run concurrently.  TLC checks them on
small instances, and TLAPS proves their main invariants for all values of the
constants.

Contents: [the system](#the-system), [the plan](#the-plan),
[the modules](#the-modules), [the runs](#the-runs), [fairness](#fairness),
[the proofs](#the-proofs), [disagreements](#disagreements-found),
[what is left out](#what-is-left-out).

## The system

### Threads

| thread | code | what it does |
|---|---|---|
| server | `cXVDRServer::Action` | accepts and removes clients, watches channels and recordings, runs the garbage collection, notifies the clients |
| client, one each | `cXVDRClient::Action` | sends queued messages, reads a request, processes it under `m_msgLock` |
| streamer, one per live stream | `cLiveStreamer::Action` | tunes, detects a lost signal, turns TS packets into stream packets |
| queue, one per live stream | `cLiveQueue::Action` | writes the stream packets to the socket |
| VDR's main thread | `cStatus` callbacks | timer, recording and channel changes, messages on VDR's screen |
| section handler, one per device | `cLivePatFilter::Process` | finds new streams of a channel |
| device, one each | `cLiveStreamer::Receive` | puts TS packets into the ring buffer |

### Components

| component | state | operations | interacts with | hard because of | correct when |
|---|---|---|---|---|---|
| live queue and timeshift, `live/livequeue.c` | queue of packets, pause flag, a file used as a ring with a reading and a writing position | Add, Request, Pause, Cleanup, thread, destructor | streamer and client add and control, its thread writes to the socket | three threads; a thread that waits without the lock; a full queue; a file that wraps, cannot be opened or runs full | packets stay in order, none is lost untold, memory is bounded, no wake-up is missed |
| live streamer, `live/livestreamer.c` | device, receiver, demuxers, flags for start, stream change, lost signal, I-frame | SwitchChannel, Action, sendStreamPacket, sendStreamChange, ChannelChange, destructor | demuxers, PAT filter, channel cache, queue, client | three threads retune and replace the demuxers; the signal vanishes and returns; the order of descriptions and packets | the client is told of the streams before it gets their packets, anew after each change and each loss of the signal, and the signal comes back |
| PAT filter, `live/livepatfilter.c` | version of the table, its own copy of the channel's cache | Process | streamer (`m_FilterMutex`), channel cache | runs in VDR's section handler; its copy goes stale | a change of the streams is announced to the client in the end |
| client connection, `xvdr/xvdrclient.c` | request, message queue, status flag, streamer, player | 60 requests, callbacks | everything | per-client lock, global timer lock, callbacks of VDR into every client | no deadlock (there is one, and no other), requests answered in order, status messages exactly when enabled |
| server, `xvdr/xvdrserver.c` | list of clients, reload trigger and timers | Action | clients, recordings cache, channel cache | flags set by other threads, reset at other places | no change goes unnoticed, gc only when it is due |
| recording player, `recordings/recplayer.c` | segments, total length, the open file | scan, update, getBlock | files that VDR goes on writing | files grow, appear and vanish between two system calls; short reads; amounts and lengths that become ints | the client gets the bytes it asked for |
| recordings cache, `recordings/recordingscache.c` | name, play count, position of recordings; `resume.data` | Register, set, gc, save, load | clients, server, VDR's list | saves by several threads, saves that fail, crashes, gc while VDR's list is incomplete | positions survive |
| channel cache, `live/channelcache.c` | streams of each channel, a file | AddToCache, GetFromCache, CreateDemuxers, save, load, gc | streamer, filter, server | one of six places that know the streams, each with its own age; crashes while the file is written | an old entry is replaced in the end; the file can be loaded |
| message packets, `net/msgpacket.c`, `net/os-config.c` | a buffer with a header | put, get, read, write | every thread that writes to a socket | partial reads and writes, timeouts, byte order, growth of the buffer | a reader stays in step with the writer |
| channel list, `xvdr/xvdrchannels.c` | VDR's channels or a private copy, hash, two locks | Lock, CheckUpdates, Reorder | client, streamer, server, an external command | the read lock is given up before the write lock is taken; the old copy is deleted; readers keep pointers | a reader sees one list while it has locked it |
| demuxers and parsers, `demuxer/` | a ring buffer, time stamps, length of a packet | Parse, PutData, ParsePayload, SendPayload | streamer | lost TS packets, frames across packets, a buffer that overflows, time stamps that start over | what is sent is what was broadcast, once, in order, in time |
| server (channels), `xvdr/xvdrserver.c:275-301` | hash of the last turn, reload trigger and timer | a turn of the loop | channel list, clients | compares with what it remembered a turn ago, tells ten seconds later | a client whose list has changed is told |
| timer conflicts, `xvdr/timerconflicts.c` | none | a pure computation | VDR's timers and devices | | |
| channel scanner, configuration, plugin, tools | settings, an external plugin | | | | |

## The plan

Most important first; all of it is done.

1. `LiveQueue` with `OrderedStream`, what it promises to a client.
2. `LiveStreamer`: tuning, signal, stream changes.
3. `Clients`: locks and message queues of any number of clients.
4. `RecPlayer`: reading a recording that grows.
5. `Recordings`: positions, garbage collection, crashes, reload of the list.
6. `Socket`: two threads that write packets to one socket, partial writes and
   time limits, the reader that looks for the header.
7. `Streams`: what the broadcast, VDR, the channel cache, its file, the filter, the
   demuxers and the client know of a channel's streams.
8. `Server`: connections, the channel list with its locks, CheckUpdates and the
   notification of the clients.
9. `Parser`: from TS packets to frames, PES packets, pictures and time stamps.
10. Proofs: the safety properties of each component.

A module comes with its MC module, one run for its safety and, where there is
one, its liveness, and bounds in which every guard is true and false.

## The modules

Every operation is one action with the guards, early returns and error paths of
the code.  An operation that holds a lock from beginning to end, and waits for
nothing while it does, is one step; an operation that releases the lock, waits or
calls the system in between has a step for each part.  Variables have the
members' names without `m_`.  Variables under "History" are read by no action;
they record what properties talk about.  A definition marked `Mutant` is a
plausible bug in the definition that follows it: put in its place, it makes TLC
refute the property that guards against it.

**`LiveQueue`** is `cLiveQueue`.  A packet is its number in the order of the Add
calls, so order and loss can be told.  Every record of the timeshift file has
length 1: `BufferSize`, `rpos` and `wpos` count records.  Reader and writer go round the
file: `ahead` remembers that the writer has begun a round which the reader has not, and
`Unread` is what the reader has before it, in its order.  `AddToFile`,
`AddDiscarded` and `AddToQueue` are the three ways through `Add`; `Request`,
`PauseOn`, `PauseOff`, `Cleanup` the other calls; `FirstPacket` to `IdleWake` the
thread, with a step between the test of `m_pause` and the wait without the lock;
`Destroy` to `Close` the destructor, in which the thread may be killed.  Opens
and truncations fail on their own; once a write fails while the queue moves to
the file, so do the following ones.  `OrderedStream` is the abstract
specification.

**`LiveStreamer`** is `cLiveStreamer` with the streams found by
`cLivePatFilter::Process`.  The thread's loop is get, attach, test of the timeout,
detach, data; `Process` is one TS packet that completes a frame, through
`sendStreamPacket` and `sendStreamChange`.  `ChannelChange` and `NewStreams` are
the other two threads that change the demuxers, `Receive`, `DeviceTaken` and
`TimePasses` the device and the clock.  A frame is its kind (audio or video, or
anything else), whether it is an I-frame, which a radio (`picture` is FALSE) has not, and
whether the parser found new stream information in it.  A demuxer is whether there is one
and whether it is parsed.  `Deliver` gives the front of the queue to the socket; `old`
and `known` follow a change of the streams on its way there.
`Tuned`, `NotTuned`, `NoDevice` and `NotDecryptable` are the exits of
`SwitchChannel`.  The send queue only has its live mode here.

**`Clients`** is the thread of every `cXVDRClient` with `m_msgLock`, `m_timerLock`
and the message queue, and the threads that notify.  Requests are classes by what
their handlers lock and change (see `Kinds`).  A lock is held by where its owner
is.  `m_queueLock` and `m_streamerLock` are leaves: nothing is waited for under
them.

**`RecPlayer`** is `cRecPlayer` and the four requests that drive it.  A byte is its
position in the recording, so what a client gets can be compared with what it
asked for.  Each `stat` of `scan` and each `read` of `getBlock` is a step, and VDR
writes, starts files and deletes in between.  `ToInt` is what an int keeps of the 32
bits of a request and of a length, `Known` and `Clamp` are the tests of `getBlock`,
which compare such an int with numbers without a sign.

**`Recordings`** is `cRecordingsCache`, the requests that use it and the loop of
`cXVDRServer::Action` that watches the recordings.  `SaveResumeData` is two steps
(`fopen` truncates, `fclose` writes), so a crash can come between; each can fail
(`SaveFails`, `SaveCut`), and the request is answered all the same.  A restart may be
unable to read the file.  A uid is the name it is the hash of.

**`Socket`** is `MsgPacket::write`, `MsgPacket::read` and `socketread` on the two ends
of a client's socket, with the rules of its two writers: the client's thread keeps
a message it could not write (`xvdrclient.c:222-233`), the live queue's thread
deletes it (`livequeue.c:189`).  A byte is its packet and its place in it; a
`send` takes any part of what is left.  A checksum is the comparison with the
bytes it was computed from, and mux packets have none of their payload.

**`Streams`** is one channel, watched by one client at a time: `cChannelCache`, the
whole of `cLivePatFilter::Process`, and of `cLiveStreamer` what concerns the demuxers
(`SwitchChannel`, `sendStreamChange`, `reorderStreams`).  A stream is its PID, type, language
and `info`, which stands for all that only a parser finds out.  `air` is the table
that is broadcast, `channel` VDR's idea of it, `cache` and `disk` the plugin's, `filter` has a
copy of the cache that it reads only once, and `told` is what the client knows.  VDR, the
filter and the parsers each know some of the types only (`ItemFromChannel`, `ItemFromPmt`,
`Understands`).
`PatSection`, which also follows a PMT that moves to another PID, `NewVersion`,
`PmtSection` and `ChangeStreams` are `Process`, with a step between its comparison and the
lock; `NoDevice` and `DeviceTuned` are `SwitchChannel`; a `Packet`
is one that a demuxer has assembled, through `sendStreamPacket`.  The file is
opened, written and renamed in three steps.  Both builds are checked (VDR
reports changed channels since 2.1.6).

**`Server`** is the loop of `cXVDRServer::Action` as far as it concerns channels,
`cXVDRChannels`, and a client from `NewClientConnected` to `RemoveDisconnected`.
`CheckUpdates`, `Upgrade`, `Compare`, `ChannelsChanged` and `EndOfTurn` are the parts of a turn,
between which locks are taken or released.  `held` remembers which list a client has
locked.  A request that counts or sends channels holds the read lock from `LockToCount` to
`Count` and from `LockToSend` to `Send`; `Open` locks it and `FindChannel`, which locks
it once more, releases it.  A channel is its UID and whether it is free to air, which stands
for all that a client's filter asks; the hash of a list is the set of its UIDs.

**`Parser`** is `cTSDemuxer::ProcessTSPacket` with `cParser` (frames) and `cParserPES` and its
heirs (PES packets).  A unit stands for bytes; a broadcast is a row of units with marks
on them: where a frame starts and how long it is, what only looks like one, a picture, the
ends of a subtitle.  `Arrive` is one TS packet, `LosePacket` one that does not arrive.
`ParseFrames` and `ParsePes` are the two kinds of `Parse`.

**`MC...`** modules give the constants their values; a **`..._proofs`** module
has the theorems about its component, `Demuxers_proofs` those about `Streams` and
`Parser` (whose definitions of the specification therefore have `Parser` in their
names).

## The runs

Passing runs:

| run | instance | shows |
|---|---|---|
| `LiveQueue` | 3 packets, 2 pauses, queue and file of 2 | with opens, writes and truncations failing: `QueueBound` the queue is bounded, `ReaderNotStranded` a reader that finds nothing has nothing left, `InOrder` and `NothingVanishes` no packet overtakes, vanishes or is used after it was given up, round after round of the file, and `ImplementsOrderedStream` a client gets each packet at most once and in order, all three until `overtaken` or `redrained`, see [below](#exceptions); `NoLostWakeup` the paused thread wakes |
| `LiveStreamer` | queue of 2, options set late, with and without the wait for an I-frame, television and radio, old VDR | `DescribedFirst` no packet is queued before the description of its streams, `DescribedOnWire` none is sent before it either, after retunes that clear the queue and after a loss of the signal, `StartsWithAV` a stream starts with audio or video, `SignalComesBack` a lost signal is restored in the end |
| `Clients` | 2 clients that edit timers, with 1 and 2 requests; one of them updates timers, too, and turns its notifications on and off; 1 event | `OnlyEditsEntangle` an edit of timers and a request that wants `m_timerLock` are in every deadlock, `StatusOnlyWhileEnabled` notifications only between the responses that enable and disable them, `AnsweredInOrder`, `Served` each request is processed to its end, unless two clients are in that deadlock |
| `RecPlayer` | 3 files, 5 bytes, blocks of 3, ints up to 3, amounts up to 7 | `RightBytes` a client gets the bytes it asked for, `FullBlock` all that were there if an int can hold the amount, `BlockAnswered` in the end |
| `Recordings_safety` | 1 recording, 2 clients, 2 changes, 2 restarts, any save may fail | `PositionKept`, `OnDisk` what was answered is in the file, `ChangePending` a changed list is announced |
| `Socket` | 2 messages of the client's thread, 1 packet of the live queue, 3 bytes on the way, 2 writes given up | `TakenOnce`, `NothingLost`, `EndIsNoticed` |
| `Streams` | 4 tables of 2 to 5 streams, one on another PID, both builds, 1 change, 1 loss, failure or restart, 1 save | `EachPidHasDemuxer` no stream gets lost when demuxers are created anew and sorted, `FileIsWhole` a crash leaves a file that can be loaded, `ClientLearnsStreams` the client knows the streams in the end, but for four reasons |
| `Server` | 4 lists, a client with 2 requests of any kind and one that opens a channel | `ListStays` a list stays as it is while a client has locked it, `ClientsHear` a client is told of a list with other UIDs in which the number of its channels has changed |
| `Parser` | 5 broadcasts of 18 to 43 units, 3 lost TS packets | `WholeAndOnce` what losses spare is sent once, as a whole and in order, `RightTime` time stamps are those of the PES packet or ahead by the frames that wait, `TimesRise` they rise by the duration of a frame until they start over |

Runs in which TLC must find a violation, see [below](#disagreements-found):
`LiveStreamer_crash`, `Clients_deadlock`, `Recordings_gc`.

**Bounds and why they are enough.**
`MaxPackets`, `MaxPauses` (`LiveQueue`): with 3 packets and a queue and a file of
2, the queue drops, half of it discards teletext, the writer goes round the file, the reader
follows it into the next round with all three packets sent in order, and either laps the other;
the second pause drains packets that came from the file, with unread records and
without.  `MaxBacklog` only stops a client that requests without reading.  A queue of 2 in
`LiveStreamer` lets stream changes and packets of before and after a change wait together and
push each other out; the branch of `NewStreams` for new VDR versions is in `LiveStreamer_crash` and in the
theorems.  Two clients suffice in `Clients` because a cycle of waiting has two
members (only a client holds a lock while it waits, and one of them `m_timerLock`), which the
theorem shows for any number;
`MaxRequests` is a function so that the client with the notifications can turn them on
and off again; a request without a response is left to the theorems.  Three files in
`RecPlayer` give a first, an inner and a last one, blocks of 3 bytes cross up to
two borders; `IntLimit` is the 2^31 of the code: with 4, both a length of up to 5 and an
amount of up to 7 become negative ints.  In `Socket` a sync mark of 2 bytes, a header of 3 and payloads of 0 and 1 give
every part a border inside it, a connection of 3 bytes makes each packet go in
pieces, and a message follows one that was given up and tried again.  In `Recordings` two clients
save over each other, and two changes and two restarts can meet any step, so that a position is
lost, set anew and has to survive; one recording is enough, as no step but those of the
whole cache relates two (the theorems are about any number), and clients are symmetric (no
property is temporal).  The four tables of `Streams` differ in everything a change
can do: a stream changes its information, its type, its PID or goes, simple audio comes where
dolby was, a second picture and a stream of no use come, a picture is of a type that VDR does
not file and too small to be believed, two audio streams have the same weight but for
their PIDs, and the PMT moves to another PID.  VDR first knows one of them
(`FirstKnown`), which can be that of the broadcast or not.  In `Server` a channel comes, another
one becomes free to air, which the hash does not see if it is all that happens in a turn, and
channels go, so that the number a client wants grows and drops; one client does everything,
the other one holds locks and a streamer.  The
frames of `Parser` are shorter, as long as and longer than the payload of a TS packet,
lie across PES packets and contain what looks like a header, also one of a frame of size 0,
which the parser only leaves with an overflow; time stamps start over in
between, and a PES packet has none; three losses can take the start of a PES packet and two more.

`MaxRequests`, `MaxEvents`, `MaxLength`, `MaxChanges`, `MaxCrashes`, `MaxPosition`, `MaxFailures`,
`MaxLosses`, `MaxLost`, `MaxSaves` cap what is unbounded in the code and are guards of the
environment's actions or members of their inputs only.

### Exceptions

What a property does not promise it names, and each case below is one in which the code
breaks what is promised otherwise.

* `overtaken` (`LiveQueue`): the writer has run over records not yet read or begun
  a second round before the reader, or the reader went on with nothing left unread, from the end
  of the file to what an earlier round had left there.
* `redrained` (`LiveQueue`): a pause wrote packets that a Request had read back behind records
  not yet read.  A pause that finds nothing unread keeps the order and is no exception.
* `known` is also set when the full queue drops a stream change (`LiveStreamer`): an ordinary
  packet for the queue.
* `torn`, `failed`, `deleted` (`RecPlayer`): VDR started a file while the scan ran; a
  call failed or the recording is gone, for `FullBlock` only.  An amount that an int cannot hold
  gets the right bytes, but not those that are due, see [below](#disagreements-found).
* `forgotten` (`Recordings`): a recording lost its position because a garbage collection
  removed it while VDR filled its list, or at a restart during a save, after a save that
  failed, or that could not read the file.  It lasts until the position is set again.
* `stale` (`Recordings`): the last save failed, the file could not be read, or such a garbage
  collection came after it.  It lasts until the next save.  A line of the file that is cut in the
  middle counts as missing.
* `timedOut`, `mixed` (`Socket`, `NothingLost` only): a time limit passed or the connection
  ended, a packet was begun inside another one.  `TakenOnce` holds through all of them.
* `writeFailed` (`Streams`): a write of the cache file has failed, which nobody notices.
* `filter.at = "locked"`, `Mistaken`, `NotFiled`, `Disbelieved` (`Streams`): a deadlock, see
  [below](#disagreements-found); a demuxer that does not fit its stream and that `ismetaof` leaves;
  a stream that VDR's description of the channel cannot have, when the filter leaves the
  demuxers to VDR; a picture that is never parsed because its size is not believed.
* `Misled` (`Server`): a client is only told of a list whose set of UIDs is new.  A
  change of attributes alone, or a list that comes back, is not noticed.
* `Entangled` (`Clients`): the deadlock of [below](#disagreements-found).
* `gone` (`Parser`): units that were lost or dropped with the buffer spoil the frames near
  them and no others.

Each is a history variable that only such an event sets or an expression over the
state.

**Deadlock** is checked: a state without a successor is an error
unless the module says that the component has ended (`Terminated`) or stands still
(`StandsStill`).  `Parser` is checked without, as its broadcast ends, and so is `Clients`, in
which two editors of timers can stop each other; there `OnlyEditsEntangle` says what a
deadlock looks like.

## Fairness

* `LiveQueue`: the queue's thread runs (weak fairness of `Action`: its waits end
  when signalled or after 3 s) and a destructor that has begun goes on (`Cancel(3)`
  ends after 3 s).  Nobody has to add, request, pause or destroy.
* `LiveStreamer`: the thread runs.  The rest is about the device and the broadcast and is
  assumed strongly, since a signal can only come back if there is one: a device asked
  again and again tunes in the end, an attached receiver gets data, the ring buffer
  hands it out, and audio or video comes, in I-frames if the channel has a picture.  Stream
  information is only assumed to be reported by a demuxer that is not parsed yet: once it is,
  nothing has to change again (`demuxer.c:175, 210`).  `SignalComesBack` is also conditional on
  `Calm`: VDR takes the device away, changes the channel or the streams only finitely often.  A
  client that waits for the I-frames of a radio is excepted, as it never gets anything.
* `Clients`: each thread runs; waiting for `m_timerLock` and for another client's
  `m_msgLock` has strong fairness, as a mutex that is released again and again is
  handed to each waiter in the end.  `ReadNothing` is weakly fair because of
  the time limit of one second.
* `RecPlayer`: the thread that processes a request goes on with it.
* `Socket`: the peer's thread reads on (its waits have time limits); nobody has to
  write.
* `Streams`: the streamer's thread and the section handler run, VDR's own filters follow
  the broadcast and report it, and tables and packets of each PID are broadcast
  again and again.  Weak fairness is enough: changes, losses and restarts are
  bounded, so in the end nothing takes a step away that stays possible.
* `Server`: its thread and those of the clients run, and ten seconds pass.  Locks need no
  strong fairness, as the requests are bounded.
* `Recordings` and `Parser` have no liveness property and no fairness.

## The proofs

Checked by `tlapm`, for all values of the constants that satisfy the module's named
assumption.  Every safety property that a run checks is a theorem.  Those of `Parser` have
hypotheses on what is broadcast, which are named [below](#what-the-theorems-about-parser-assume).

| module | theorem | says |
|---|---|---|
| `LiveQueue_proofs` | `TypeCorrect` | `TypeOK` |
| | `QueueBounded`, `OnlyReadBack`, `NotStranded` | `QueueBound`; `ReadBackOnly`, which the run leaves to `InOrder`, without the exceptions of that; `ReaderNotStranded` |
| | `AlwaysInOrder`, `NothingLostWithoutTrace` | `InOrder`, `NothingVanishes`, for any number of rounds of the file |
| | `Refinement` | `ImplementsOrderedStream`: `LiveQueue` implements `OrderedStream` |
| `LiveStreamer_proofs` | `TypeCorrect` | `TypeOK` |
| | `AlwaysDescribed`, `AlwaysDescribedOnWire`, `AlwaysStartsWithAV` | `DescribedFirst`, `DescribedOnWire`, `StartsWithAV` |
| `Clients_proofs` | `TypeCorrect` | `TypeOK` |
| | `AlwaysOnlyWhileEnabled`, `AlwaysAnsweredInOrder` | `StatusOnlyWhileEnabled`, `AnsweredInOrder` |
| | `AlwaysEditsEntangle` | `OnlyEditsEntangle`: among clients that wait for one another, any number of them, there is an edit and a request that wants `m_timerLock` |
| `RecPlayer_proofs` | `TypeCorrect`, `AlwaysRightBytes`, `AlwaysFullBlock` | `TypeOK`, `RightBytes`, `FullBlock` |
| `Recordings_proofs` | `TypeCorrect`, `ChangeStaysPending` | `TypeOK`, `ChangePending` |
| | `PositionStaysKept`, `AnsweredIsOnDisk` | `PositionKept`, `OnDisk` |
| `Socket_proofs` | `TypeCorrect`, `AlwaysTakenOnce`, `AlwaysNothingLost` | `TypeOK`, `TakenOnce`, `NothingLost` |
| `Demuxers_proofs` | `TypeCorrect`, `EachPidIsDemuxed`, `FileStaysWhole` | of `Streams`: `TypeOK`, `EachPidHasDemuxer`, `FileIsWhole` |
| | `ParserTypeCorrect` | of `Parser`: `ParserTypeOK` |
| | `PacketsWholeAndOnce` | `WholeAndOnce` for parsers of PES packets that fit into the buffer, whatever is lost |
| | `FramesWholeAndOnce` | `WholeAndOnce` for parsers of frames as long as no unit is lost |
| | `BufferSuffices` | without a lost TS packet the buffer never overflows: nothing is `gone`, and `WholeAndOnce`, if each frame is at least as long as a TS packet and leaves room for one |
| | `FramesFoundAgain` | `WholeAndOnce` for parsers of frames, whatever is lost and however often the buffer overflows |
| | `FramesInOrder` | the same for the order alone, for every broadcast |
| | `TimeStampsRise` | `TimesRise`, whatever is lost, as long as time stamps do not start over |
| | `FramesOnTime` | `RightTime`, also when time stamps start over |
| `Server_proofs` | `TypeCorrect`, `AlwaysTheSameList` | `TypeOK`, `ListStays` |

**Assumptions.**  Sizes are positive, bounds are natural numbers, options are Booleans.
Beyond that: in `RecPlayer` the longest block is less than what an int can hold, and an amount
has one bit more than an int; in `Server` VDR's lists are finite; in `Streams` a table has each PID once
and no PID above `MaxPid`; in `Socket` a writer whose packets go without the checksum of
their payload does not try a packet again (only mux packets disable it,
`livestreamer.c:464`, and the live queue deletes what it could not write), and there is
a packet; in `Parser` a broadcast is divided into PES packets, and a frame is longer
than its header.  TLC evaluates each assumption in a run.

### What the theorems about `Parser` assume

What a parser makes of a broadcast depends on what is broadcast, so the theorems name
what they need of it.  Each hypothesis is a definition in `Demuxers_proofs`:

| hypothesis | says | why | true of |
|---|---|---|---|
| `Fits` | no PES packet is larger than the buffer | the buffer is reset when a larger one arrives (`parser.c:100-105`) | `MCPesPackets`, `MCSubtitle`, `MCVideo` |
| `Tiled` | frames follow each other from the first unit on and none starts inside another one | a broadcast may have bytes between its frames, but what is not a frame is owed to nobody | `MCAudio`, `MCSmall` |
| `Roomy` | no frame is shorter than a TS packet's payload, and the buffer has room for that behind a frame and behind what the margin keeps back | one frame is taken for each TS packet | `MCAudio`; `MCSmall` is there to break it |
| `Recoverable` | what looks like a header is inside of a frame, and near each frame there are places for the parser to stand that lead from there to the frame | the parser goes from one header to the next one, and can be led astray by what only looks like one | `MCAudio`, `MCSmall` |
| `Unwrapped` | the time stamps of the broadcast do not reach the modulus | `parser.c:90` compares them without regard to it | `MCSmall`, `MCAudio` starts over |
| `Punctual` | PES packets have the time stamps of their first frames or, but for the first one, none; no frame is shorter than a TS packet's payload, and no more frames can wait than `waiting` says | a wrong time stamp is passed on | `MCAudio`, in which a PES packet has none |

`Recoverable` is about the broadcast alone.  It holds wherever nothing inside of a frame
looks like a header, and also when such a thing reaches into the next frame, as long as
the place behind it leads back.  What looks like a header may tell any size, also 0, where the
parser stays until the buffer overflows.

**Inductive invariants and why they are needed.**

* *LiveQueue.*  The three bounds need each other and `RingInv`: while the file is
  shorter than `BufferSize` it was never cut, so the writer stands at its end and
  the reader behind the writer; without a writer the file is empty.  `QueueBound`
  needs `ReadBackOnly`'s companion, that nothing is read back without a writer.
  `QueueInv` is their conjunction with the types.  `InOrder` speaks of the thread, the
  queue and the unread part of the file as one sequence; `Straight` says the same of
  every pair of places.  `Rounds` is what keeps the unread part together on the ring: until
  one laps the other, the writer is ahead of the reader in the same round, or behind it in the
  next one; so an Add puts a record at the end of `Unread`, a Request takes its first, also
  where the writer has cut the file and where the reader starts over.  `OnlyAdded` makes
  the next packet newer than all the others.  Together with `QueueInv` they are `OrderInv`, from
  which each step maps to a step of `OrderedStream` or a stutter.  `Once` is `NothingVanishes` with the sequence taken apart
  in the same way, and `HeldToSend` says when the thread holds a packet.
* *LiveStreamer.*  `Asked`: whenever the streams are not described, a stream
  change is requested or the stream is starting, so a packet that is queued is
  preceded by it.  `WireGood`: in the part of the queue behind the last change no packet is
  ahead of the first stream change (`Ordered`), and if none was sent, is queued or fell out, one
  is asked for (`Announces`), so that a retune which clears the queue leaves a request behind.  `Begun`: before
  the first packet of a started stream the wait for an I-frame is set, and with it only
  audio and video pass, unless the signal was lost.
* *Clients.*  `ThreadInv`: what a busy thread works on is of a kind the client sends,
  and only an edit notifies; `OneEditor`: one at a time.  A client that waits for another one's
  `m_timerLock` waits for an edit that notifies; if that one waits, too, it is for the `m_msgLock`
  of a client whose request is not finished and who, waiting itself, wants `m_timerLock`: the pair
  of `OnlyEditsEntangle`.  The run `Clients_deadlock` reaches it.  `FlagInv` relates
  the flag to the messages: when it is set and the client is not just being answered, the
  last of the responses that switch it is an enabling one, and while a disabling one is
  due it is not set.  `AnswerInv`: the responses in what was sent and what is queued are those
  to the requests that are finished, with rising numbers.
* *RecPlayer.*  `PlayerInv`: the files follow each other without a gap
  (`Contiguous`), so do the segments (`SegmentsTile`), a segment starts where its file
  does and, as long as the scan runs and the file is not the last one, ends where
  it ends (`SegmentsFit`, unless `torn`), and `getBlock` goes on behind what it has
  read (`ReadOn`).  `FullInv` adds that every position below the total length is in a
  segment and no segment is longer than its file (`Covered`), which also holds of a
  disturbed scan, and that, for an amount that an int can hold, what was read and what is still
  wanted are what is due, with no conversion on the way that changes it (`Progress`, `ClampDue`).
* *Recordings.*  `PositionInv`: VDR's list has what exists unless a scan runs (`ListInv`), one client
  at a time writes the file (`WriterInv`), the cache has the last positions (`CacheKept`), and so
  has the file unless it is stale, is being written or a request that set them is not finished
  (`FileKept`): that is what a restart finds.  `AllSaved` says so of whole entries once no
  request runs.  `ChangePending` is inductive as it stands.
* *Socket.*  `OrderInv`: a byte that comes behind another one of the same writer is
  of a later packet or, if it is of the same packet, the earlier byte is not its last one
  (`Ordered`); so a packet that was taken, or whose header was read, has passed
  (`Left`, `AtPayload`), whatever else is on the way.  `FlowInv` adds, as long as
  no time limit has passed and packets were not mixed, that what is on its way is one
  unbroken piece of the row of packets (`Chain`) which begins where the reader is
  (`Front`) and ends where the writer is (`Back`, `Rest`).
* *Server.*  `HeldInv`: a client holds no list or the one that is current.  `TodoInv`: only
  clients that are still there are to be notified.
* *Streams.*  `StateInv`: what the cache, both files, the filter, the demuxers and the client
  have has one stream for each PID, and the receiver has the PIDs of the demuxers.
  `EachPidHasDemuxer` needs that the weights by which streams are sorted differ, which they do
  because the PID is their last digit.  `FileInv`: between write and rename it is the
  `.bak` file that is whole.
* *Parser, PES packets.*  `PesInv`: what is in the buffer are units of the packet whose start was the last to
  arrive (`Current`), all of them unless some are lost, and `length` is its length (`Filling`).
  Nothing that is sent reaches
  across the start of a packet that has arrived (`SentApart`), and what is owed of a packet that is intact
  is sent once it has ended (`Delivered`).
* *Parser, frames.*  As long as nothing is lost, `FramesInv`: the buffer is the row of units from the start of
  a frame on, and all frames before it were sent, in the order of the row.  `NoGap` bounds
  the buffer by a frame, the margin and a TS packet.  With losses the buffer can start anywhere.
  `OrderInv` then only says that units rise in what was sent and in the buffer, one behind the
  other.  `LossInv` follows the parser to a frame that is spared: `HoldsFrom`, from its start on the buffer
  has all that was not lost; `OnTrack`, wherever the parser stands near the frame is one of the places that lead to it;
  `Reached`, a spared frame that has begun to arrive starts in the buffer or was sent;
  `FramesGenuine`, what else was sent overlaps a frame that is not spared.
* *Parser, time stamps.*  `StampsInv`: `curPTS` is ahead of the last time stamp sent by the duration of a
  frame, and what is still to come cannot take it to the modulus.  `TimeInv`: `curPTS` is the time
  stamp of the first unit in the buffer, or of one of the frames that wait behind it.

`WholeAndOnce` needs no induction over the row of units: that a frame was sent exactly
once follows from order and presence, and where frames have to be counted, an injection does
it (`FS_Injection`).

**Only model-checked.**

* Liveness, which rests on fairness and ENABLED: `NoLostWakeup`, `SignalComesBack`,
  `Served`, `BlockAnswered`, `EndIsNoticed`, `ClientLearnsStreams`, `ClientsHear`.
* What a run refutes (`NoCyclicWait`, `FailureReported`, `GcWhenTriggered`) has no
  theorem, of course.
* `Parser` without the hypotheses of its theorems: a broadcast that misleads the parser for
  ever, frames that are not on time or a PES packet that does not fit.  The hypotheses
  were evaluated on the broadcasts of the run, see the table.

## Disagreements found

| run | source | what |
|---|---|---|
| `LiveStreamer_crash` | `live/livestreamer.c:165-181` | a channel that has left VDR's list is NULL when the failure to tune it is reported after the timeout |
| `Clients_deadlock` | `xvdr/xvdrclient.c:1250, 1299, 1324, 1355` | adding or deleting a timer under `m_timerLock` calls every client back; a client that holds its `m_msgLock` and waits for `m_timerLock` closes a cycle |
| `Recordings_gc` | `xvdr/xvdrserver.c:327-330` | `Changed()` clears what it returns and is asked twice: the garbage collection runs exactly when it was a play count that changed, or when no reload was due, though "if reload was triggered" is meant |

Seen while modelling, without a run of their own, as no document promises
otherwise, a property excepts them or the consequences are plain from the code:

* *Live queue.*  "Ring-buffer overrun ?" (`livequeue.c:67-80`) only notices the end of
  the file: once the writer has gone round and overtaken the reader, `Request` hands out old
  records behind new ones.  The drain in `Pause(true)` does not look at `BufferSize`, so
  the file can exceed it by the length of the queue; a second pause writes packets
  read back from the file behind those that were not yet read; packets dropped from a full queue are not
  deleted (`livequeue.c:143`).
* *Socket.*  The live queue's thread and the client's write without a common lock: when the socket
  takes only a part of a packet, the other thread's bytes follow, and the reader drops
  both (`mixed` in `Socket`).
* *Live streamer.*  The options of a stream are set after its thread has started; a stream
  change is an ordinary packet of the queue and can be dropped when it is full; `Action`
  goes on with data fetched before a channel switch cleared the ring buffer; `m_ready` is not
  reset by `SwitchChannel`.
* *Filter.*  `Detach(m_PatFilter)` runs under `m_FilterMutex` (`livestreamer.c:101, 221, 282`) and,
  in VDR, waits for the section handler, whose thread may be in `Process` before
  `livepatfilter.c:377`, where it waits for `m_FilterMutex`: a deadlock, which `Streams` reaches
  (`DetachDuringProcess`) and `ClientLearnsStreams` excepts.  `ismetaof` is not symmetric
  (`streaminfo.c:116`): AC3 on the left or EAC3 on the right pass for any audio type, so that
  dolby which becomes simple audio on the same PID keeps a demuxer that does not understand it.
  A language that changes on the same PID is not noticed.  `ItemFromChannel` knows fewer types than
  `GetStreamInfo`, and where VDR reports changes the filter never adds the missing ones.
* *Channel cache.*  The results of the writes are ignored; after a failed one `rename`
  puts the short file in the place of the good one.
* *Channel list.*  The hash says nothing of the order or the names.  A list that
  changes and changes back within one turn is not noticed; a client is told only if the
  number of its channels has changed.  `Reorder` closes two descriptors twice
  (`xvdrchannels.c:116-117, 129-130`) and writes the whole list before it reads.
  Nor of free to air or encrypted, types and languages, which decide what a client wants.
  A channel's pointer is used after the lock is released (`xvdrclient.c:857`).
* *Parsers.*  `Get` returns nothing below a margin, so frames that wait take the next
  packet's time stamp; one frame at most is taken for each TS packet, so frames smaller than
  its payload pile up until the buffer overflows and is reset; a time stamp that goes
  back is ignored (`parser.c:90`), one of 0 is not taken (59-60), and one is made up
  of the duration where there was none; a PES packet with a length is sent
  again with each TS packet when the start of its successor is lost
  (`demuxer_PES.c:39`), and one larger than the buffer is cut.
* *Recording player.*  `getBlock` takes the 32 bits of the amount of a request as an int
  (`recplayer.c:172-179`): one of 2^31 or more is negative, passes the test for 256 KB
  and becomes the whole length.  A length of the recording from 2^31 on becomes a negative amount
  in the same place.
* *Recordings.*  A save that fails, or that the disk is too full for, is not told to the
  client.
* *Requests.*  `LoadResumeData` does not end on a line that `fscanf` cannot parse; a pause
  without an open stream uses a null pointer.

## What is left out

* Timer conflicts (a pure computation over VDR's timers, whose result depends on VDR's
  choice of devices), the fields of headers and parameter sets and the conversion of LATM
  to ADTS, the channel scanner (calls into another plugin), configuration and plugin glue,
  hashes and URL encoding.
* The contents of EPG and timer lists: only the locking, the answer and the
  notifications of their requests are in `Clients`.  Types and languages of the channel filter,
  groups, and the pipes of the reordering command, in `Server`.
* `Clients` and `Server` are not composed: in `Server` a callback waits for a client that is in a
  request, in `Clients` the reasons why it waits are modelled.
* The lock of VDR's list of `cStatus` objects: `Server` deletes a client whose thread has ended.
* In `Streams`: several clients on one channel, which share the cache, and a channel that leaves VDR's
  list.  In `Parser`: time stamps of pictures and subtitles, DTS.
* Length of records and packets: each is a unit, except in `Socket` and `Parser`.  Elsewhere a
  write to a socket is a step, and what it returns is ignored where the code
  ignores it.  A record written in part, when the disk runs full, leaves a part of it in the
  file (`msgpacket.c:413-427`), into which the next record is read; `LiveQueue` takes it as not
  written.
* In `RecPlayer` the memory of the answer: an amount for which `reserve` runs out of it, or
  for which the size of the packet wraps (`msgpacket.c:366`).
* The order of VDR's list of `cStatus` objects is fixed, in the code it is the order in
  which clients connect.
* Two recordings with the same hash.
