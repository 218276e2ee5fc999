------------------------------ MODULE LiveQueue ------------------------------
(***************************************************************************)
(* cLiveQueue (src/src/live/livequeue.c): the send queue of one live       *)
(* stream.  The streamer and the client thread Add packets, Request them   *)
(* back from the timeshift file, Pause the stream and Cleanup the queue,   *)
(* each under m_lock; the queue's own thread (Action) takes packets off    *)
(* the front and writes them to the socket.  m_cond is VDR's cCondWait: a  *)
(* signal is remembered until a Wait consumes it.                          *)
(*                                                                         *)
(* A packet is its number in the order of the Add calls.  Every record of  *)
(* the timeshift file has length 1, so that BufferSize and the two file    *)
(* positions count records.  An operation under m_lock blocks nobody but   *)
(* the waiters for m_lock, so it is one step.                              *)
(***************************************************************************)
EXTENDS Naturals, Sequences, FiniteSets

CONSTANTS
  QueueSize,    \* m_queuesize (400)
  BufferSize,   \* MaxTimeShiftSize, in records
  OpenOutcomes, \* what opening the two descriptors of the file may give
  DiskMayFail,  \* TRUE: a write or an ftruncate of the file may fail
  MaxPackets,   \* bound of the model: number of Add calls
  MaxPauses,    \* bound of the model: number of accepted Pause(true) calls
  MaxBacklog    \* bound of the model: length of the queue that stops Request

\* The two open calls follow each other: the second can run out of
\* descriptors after the first succeeded, the reverse is left out.
ASSUME LiveQueueAssumption ==
  /\ QueueSize  \in Nat \ {0}
  /\ BufferSize \in Nat \ {0}
  /\ OpenOutcomes \subseteq {o \in [read : BOOLEAN, write : BOOLEAN] :
                               o.write => o.read}
  /\ DiskMayFail \in BOOLEAN
  /\ MaxPackets \in Nat /\ MaxPauses \in Nat /\ MaxBacklog \in Nat

VARIABLES
  queue,     \* std::queue: [n: packet number, from: "live" or "file"]
  pause,     \* m_pause
  readfd,    \* m_readfd # -1
  writefd,   \* m_writefd # -1
  file,      \* the records of the timeshift file
  rpos,      \* file position of m_readfd
  wpos,      \* file position of m_writefd
  signaled,  \* cCondWait's flag of m_cond
  pc,        \* where Action() is
  inflight,  \* the packet Action() holds between pop() and delete, 0: none
  life       \* progress of the destructor

\* History, read by no action: what was added, done with and given up.
VARIABLES
  added,     \* number of Add calls so far
  last,      \* the last packet Action() wrote to the socket, 0: none
  dropped,   \* packets given up by an operation or by a failed write
  pauses,    \* number of accepted Pause(true) calls
  ahead,     \* the writer has gone back to the start, the reader has not yet
  overtaken, \* the writer has lapped the reader, or the reader the writer
  redrained  \* Pause(true) put packets read back behind records not yet read

fileVars == <<readfd, writefd, file, rpos, wpos>>
history  == <<added, last, dropped, pauses, ahead, overtaken, redrained>>
vars == <<queue, pause, fileVars, signaled, pc, inflight, life, history>>

Packets == 1 .. MaxPackets
Entry   == [n : Packets, from : {"live", "file"}]
-----------------------------------------------------------------------------
Numbers(q) == [i \in DOMAIN q |-> q[i].n]

Elements(s) == {s[i] : i \in DOMAIN s}

\* Mutant: a resumed stream is live again although the file is open.
PausedOnly == pause

\* m_pause || m_writefd != -1: packets go to the file, not to the queue.
TimeShiftMode == pause \/ writefd

\* cThread::Running(), which Cancel() resets.
Running == life \in {"alive", "signaled"}

Signal == signaled' = TRUE

\* Mutant: a short write is taken for a complete one.
WrittenShort(pos, s) ==
  [i \in 1 .. (IF pos + Len(s) > Len(file) + 1 THEN pos + Len(s) - 1 ELSE Len(file)) |->
     IF i > pos /\ i <= pos + Len(s) THEN s[i - pos] ELSE file[i]]

\* Mutant: the packet at the front is written again for each one behind it.
WrittenFront(pos, s) ==
  [i \in 1 .. (IF pos + Len(s) > Len(file) THEN pos + Len(s) ELSE Len(file)) |->
     IF i > pos /\ i <= pos + Len(s) THEN s[1] ELSE file[i]]

\* The file after the records s were written at position pos.
Written(pos, s) ==
  [i \in 1 .. (IF pos + Len(s) > Len(file) THEN pos + Len(s) ELSE Len(file)) |->
     IF i > pos /\ i <= pos + Len(s) THEN s[i - pos] ELSE file[i]]

\* Mutant: the writer goes back one record too early.
FullEarly(pos) == pos + 1 >= BufferSize

\* The writer has reached the end of the ring.
Full(pos) == pos >= BufferSize

\* Mutant: one packet too many is kept.
ExcessLate(q) == IF Len(q) > QueueSize + 1 THEN Len(q) - QueueSize - 1 ELSE 0

\* How many packets have to leave the queue q.
Excess(q) == IF Len(q) > QueueSize THEN Len(q) - QueueSize ELSE 0

\* The records the reader has not seen, in the order in which it will.
Unread == IF ahead THEN SubSeq(file, rpos + 1, Len(file)) \o SubSeq(file, 1, wpos)
                   ELSE SubSeq(file, rpos + 1, wpos)
-----------------------------------------------------------------------------
Init ==
  /\ queue = <<>> /\ pause = FALSE
  /\ readfd = FALSE /\ writefd = FALSE
  /\ file = <<>> /\ rpos = 0 /\ wpos = 0
  /\ signaled = FALSE /\ pc = "start" /\ inflight = 0 /\ life = "alive"
  /\ added = 0 /\ last = 0 /\ dropped = {} /\ pauses = 0
  /\ ahead = FALSE /\ overtaken = FALSE /\ redrained = FALSE

(* Add() in timeshift mode: the packet is written at the writer's position *)
(* and, when that reaches BufferSize, the file is cut there and the writer *)
(* goes back to its start.  A failed write discards the packet, a failed   *)
(* ftruncate leaves the writer where it is.                                *)
AddToFile ==
  LET n == added + 1 IN
  /\ life = "alive" /\ added < MaxPackets
  /\ TimeShiftMode
  /\ added' = n
  /\ \/ /\ ~writefd \/ DiskMayFail
        /\ dropped' = dropped \cup {n}
        /\ UNCHANGED <<file, wpos, ahead, overtaken>>
     \/ /\ writefd
        /\ UNCHANGED dropped
        /\ \/ /\ ~Full(wpos + 1) \/ DiskMayFail
              /\ file' = Written(wpos, <<n>>)
              /\ wpos' = wpos + 1
              /\ overtaken' = (overtaken \/ (ahead /\ wpos + 1 > rpos))
              /\ UNCHANGED ahead
           \/ /\ Full(wpos + 1)
              /\ file' = SubSeq(Written(wpos, <<n>>), 1, wpos + 1)
              /\ wpos' = 0
              /\ overtaken' = (overtaken \/ ahead)
              /\ ahead' = TRUE
  /\ UNCHANGED <<queue, pause, readfd, writefd, rpos, signaled, pc, inflight,
                 life, last, pauses, redrained>>

(* Add() of teletext or signal information while more than half of the     *)
(* queue is in use: the packet is discarded.                               *)
AddDiscarded ==
  /\ life = "alive" /\ added < MaxPackets
  /\ ~TimeShiftMode
  /\ Len(queue) > QueueSize \div 2
  /\ added' = added + 1
  /\ dropped' = dropped \cup {added + 1}
  /\ Signal
  /\ UNCHANGED <<queue, pause, fileVars, pc, inflight, life,
                 last, pauses, ahead, overtaken, redrained>>

(* Add() of any other packet: pushed at the back, and the oldest packets   *)
(* leave until the queue is no longer too long.                            *)
AddToQueue ==
  LET pushed == Append(queue, [n |-> added + 1, from |-> "live"])
      excess == Excess(pushed)
  IN
  /\ life = "alive" /\ added < MaxPackets
  /\ ~TimeShiftMode
  /\ added' = added + 1
  /\ queue' = SubSeq(pushed, excess + 1, Len(pushed))
  /\ dropped' = dropped \cup {pushed[i].n : i \in 1 .. excess}
  /\ Signal
  /\ UNCHANGED <<pause, fileVars, pc, inflight, life,
                 last, pauses, ahead, overtaken, redrained>>

(* Request(): the record at the reader's position goes to the queue.  At   *)
(* the end of the file a reader at or behind BufferSize starts again from  *)
(* the first record; any other one returns without a packet.               *)
Request ==
  /\ life = "alive" /\ Len(queue) < MaxBacklog
  /\ readfd
  /\ \E at \in {rpos, 0} :
       /\ at = rpos \/ (rpos >= Len(file) /\ rpos >= BufferSize)
       /\ at < Len(file)
       /\ queue' = Append(queue, [n |-> file[at + 1], from |-> "file"])
       /\ rpos' = at + 1
       /\ ahead' = (ahead /\ at = rpos)
  /\ overtaken' = (overtaken \/ Unread = <<>>)
  /\ Signal
  /\ UNCHANGED <<pause, readfd, writefd, file, wpos, pc, inflight, life,
                 added, last, dropped, pauses, redrained>>

(* Pause(true): the file is opened the first time, and the packets of the  *)
(* queue move to it.  When the disk fills up during that loop, the packets *)
(* behind the first k are discarded.                                       *)
PauseOn ==
  /\ life = "alive" /\ pauses < MaxPauses
  /\ ~pause
  /\ pause' = TRUE
  /\ IF readfd
       THEN UNCHANGED <<readfd, writefd, rpos>>
       ELSE \E o \in OpenOutcomes :
              readfd' = o.read /\ writefd' = o.write /\ rpos' = 0
  /\ \E k \in 0 .. Len(queue) :
       /\ k < Len(queue) => DiskMayFail \/ ~writefd'
       /\ ~writefd' => k = 0
       /\ file' = Written(wpos, Numbers(SubSeq(queue, 1, k)))
       /\ wpos' = wpos + k
       /\ dropped' = dropped \cup {queue[i].n : i \in (k + 1) .. Len(queue)}
       /\ overtaken' = (overtaken \/ (k > 0 /\ ahead /\ wpos + k > rpos))
       /\ redrained' = \/ redrained
                       \/ Unread # <<>> /\ \E i \in 1 .. k : queue[i].from = "file"
  /\ queue' = <<>>
  /\ pauses' = pauses + 1
  /\ UNCHANGED <<signaled, pc, inflight, life, added, last, ahead>>

\* Mutant: the paused thread is not woken up.
PauseOffQuietly ==
  /\ life = "alive"
  /\ pause' = FALSE
  /\ UNCHANGED <<queue, fileVars, signaled, pc, inflight, life, history>>

(* Pause(false): the file stays open, so the stream stays in timeshift     *)
(* mode until it is closed.                                                *)
PauseOff ==
  /\ life = "alive"
  /\ pause' = FALSE
  /\ Signal
  /\ UNCHANGED <<queue, fileVars, pc, inflight, life, history>>

(* Cleanup(), called by cLiveStreamer::SwitchChannel on every retune: the  *)
(* packets of the queue are discarded, those of the file stay.             *)
Cleanup ==
  /\ life = "alive"
  /\ dropped' = dropped \cup {queue[i].n : i \in DOMAIN queue}
  /\ queue' = <<>>
  /\ UNCHANGED <<pause, fileVars, signaled, pc, inflight, life,
                 added, last, pauses, ahead, overtaken, redrained>>
-----------------------------------------------------------------------------
(* The queue's thread, Action().                                           *)

\* The first m_cond.Wait(0).
FirstPacket ==
  /\ pc = "start" /\ signaled
  /\ signaled' = FALSE
  /\ pc' = "loop"
  /\ UNCHANGED <<queue, pause, fileVars, inflight, life, history>>

\* while(Running()) ends.
Stop ==
  /\ pc = "loop" /\ ~Running
  /\ pc' = "done"
  /\ UNCHANGED <<queue, pause, fileVars, signaled, inflight, life, history>>

\* m_pause seen: the lock is released for m_cond.Wait(0).
SeePause ==
  /\ pc = "loop" /\ Running
  /\ pause
  /\ pc' = "paused"
  /\ UNCHANGED <<queue, pause, fileVars, signaled, inflight, life, history>>

\* That Wait(0) returns; m_pause is not looked at again.
WakeFromPause ==
  /\ pc = "paused" /\ signaled
  /\ signaled' = FALSE
  /\ pc' = "locked"
  /\ UNCHANGED <<queue, pause, fileVars, inflight, life, history>>

\* front() and pop() under the lock, or nothing to send.
Take ==
  /\ \/ pc = "loop" /\ Running /\ ~pause
     \/ pc = "locked"
  /\ \/ /\ queue # <<>>
        /\ inflight' = Head(queue).n
        /\ queue' = Tail(queue)
        /\ pc' = "send"
     \/ /\ queue = <<>>
        /\ pc' = "idle"
        /\ UNCHANGED <<inflight, queue>>
  /\ UNCHANGED <<pause, fileVars, signaled, life, history>>

\* p->write(m_socket, 500), whose result is ignored, and delete p.
Send ==
  /\ pc = "send"
  /\ last' = inflight
  /\ inflight' = 0
  /\ pc' = "loop"
  /\ UNCHANGED <<queue, pause, fileVars, signaled, life,
                 added, dropped, pauses, ahead, overtaken, redrained>>

\* m_cond.Wait(3000) returns, signaled or not.
IdleWake ==
  /\ pc = "idle"
  /\ signaled' = FALSE
  /\ pc' = "loop"
  /\ UNCHANGED <<queue, pause, fileVars, inflight, life, history>>

Action == \/ FirstPacket \/ Stop \/ SeePause \/ WakeFromPause
          \/ Take \/ Send \/ IdleWake
-----------------------------------------------------------------------------
(* The destructor: Signal, Cancel(3), Cleanup, CloseTimeShift.             *)

Destroy ==
  /\ life = "alive"
  /\ life' = "signaled"
  /\ Signal
  /\ UNCHANGED <<queue, pause, fileVars, pc, inflight, history>>

Cancel ==
  /\ life = "signaled"
  /\ life' = "cancelled"
  /\ UNCHANGED <<queue, pause, fileVars, signaled, pc, inflight, history>>

\* Cancel(3) sees the thread end, or kills it after three seconds.
Join ==
  /\ life = "cancelled"
  /\ life' = "joined"
  /\ pc' = IF pc = "done" THEN "done" ELSE "killed"
  /\ dropped' = dropped \cup ({inflight} \ {0})
  /\ inflight' = 0
  /\ UNCHANGED <<queue, pause, fileVars, signaled,
                 added, last, pauses, ahead, overtaken, redrained>>

Close ==
  /\ life = "joined"
  /\ life' = "closed"
  /\ dropped' = dropped \cup Elements(Numbers(queue)) \cup Elements(Unread)
  /\ queue' = <<>>
  /\ readfd' = FALSE /\ writefd' = FALSE
  /\ file' = <<>> /\ rpos' = 0 /\ wpos' = 0 /\ ahead' = FALSE
  /\ UNCHANGED <<pause, signaled, pc, inflight,
                 added, last, pauses, overtaken, redrained>>

Destructor == Cancel \/ Join \/ Close
-----------------------------------------------------------------------------
Callers == \/ AddToFile \/ AddDiscarded \/ AddToQueue
           \/ Request \/ PauseOn \/ PauseOff \/ Cleanup

\* A closed queue is deleted.
Terminated == life = "closed" /\ UNCHANGED vars

Next == Callers \/ Action \/ Destroy \/ Destructor \/ Terminated

(* The thread runs, its 3 s wait and the 3 s of Cancel end; nobody has to  *)
(* add, request, pause or destroy.                                         *)
Spec == Init /\ [][Next]_vars
LiveSpec == Spec /\ WF_vars(Action) /\ WF_vars(Destructor)
-----------------------------------------------------------------------------
\* The type invariant: descriptors, positions and packets are what the
\* class declares, and a position never lies behind the end of the data
\* that the writer can reach.
TypeOK ==
  /\ queue \in Seq(Entry)
  /\ pause \in BOOLEAN /\ readfd \in BOOLEAN /\ writefd \in BOOLEAN
  /\ file \in Seq(Packets)
  /\ rpos \in Nat /\ wpos \in 0 .. Len(file)
  /\ signaled \in BOOLEAN
  /\ pc \in {"start", "loop", "paused", "locked", "send", "idle",
             "done", "killed"}
  /\ inflight \in 0 .. MaxPackets
  /\ life \in {"alive", "signaled", "cancelled", "joined", "closed"}
  /\ added \in 0 .. MaxPackets /\ last \in 0 .. MaxPackets
  /\ dropped \subseteq Packets
  /\ pauses \in 0 .. MaxPauses
  /\ ahead \in BOOLEAN /\ overtaken \in BOOLEAN /\ redrained \in BOOLEAN

\* Outside timeshift the memory a stalled client can hold is bounded: the
\* queue is never longer than m_queuesize (Add, livequeue.c:141-144).
QueueBound == ~writefd => Len(queue) <= QueueSize

\* While the stream is paused, and ever after, only packets read back from
\* the file reach the queue: no live packet jumps over the recorded ones
\* (livequeue.c:106 and 246-254 together).
ReadBackOnly ==
  pause \/ writefd => \A i \in DOMAIN queue : queue[i].from = "file"

\* A Request that returns nothing has nothing left to read: an open reader
\* at the end of the file that does not start over stands where the writer
\* does (livequeue.c:68-80 against 117-123).
ReaderNotStranded ==
  (rpos >= Len(file) /\ rpos < BufferSize) => rpos = wpos

\* Why that is so: as long as the file is shorter than BufferSize it has
\* never been cut, so the writer stands at its end and the reader behind the
\* writer; and a file without a writer is empty.  With the two bounds above
\* this is inductive.
RingInv ==
  /\ writefd => readfd
  /\ ~writefd => Len(file) = 0
  /\ Len(file) < BufferSize => wpos = Len(file) /\ rpos <= wpos

\* What is still to be sent, in the order in which it will be.
Pipeline == (IF inflight = 0 THEN <<>> ELSE <<inflight>>)
              \o Numbers(queue) \o Unread

\* The thread, the queue and the file, used as a ring, together hold packets
\* newer than the last one sent, in the order they were added, whichever way
\* pausing, resuming, requesting and sending interleave.  The code gives this
\* up in three cases only: the writer runs over records not yet read, the
\* reader goes on although nothing is unread and takes what an earlier round
\* left (both: overtaken), and a pause writes packets that were read back
\* behind records not yet read (redrained).
InOrder ==
  (~overtaken /\ ~redrained) =>
    \A i \in DOMAIN Pipeline :
      /\ last < Pipeline[i]
      /\ \A j \in DOMAIN Pipeline : i < j => Pipeline[i] < Pipeline[j]

\* Outside the same three cases every packet newer than the last one sent is
\* either still to be sent or was given up, never both (used after delete)
\* and never neither (lost without a trace or leaked into nowhere).
NothingVanishes ==
  (~overtaken /\ ~redrained) =>
    \A n \in (last + 1) .. added :
      (n \in Elements(Pipeline)) # (n \in dropped)

\* No wake-up is lost: as long as the stream is not paused, a queue with
\* packets in it is taken from, although the thread waits without m_lock
\* and without a time limit when it has seen m_pause.
NoLostWakeup ==
  (queue # <<>> /\ ~pause)
    ~> (pc = "send" \/ queue = <<>> \/ pause \/ life # "alive")

\* The client sees an OrderedStream: whatever is added, paused, requested,
\* discarded and killed, a packet is sent at most once and behind the older
\* ones, round after round of the file, until one of the three cases of
\* InOrder happens.
Ordered == INSTANCE OrderedStream WITH
             accepted <- added, delivered <- last,
             unordered <- overtaken \/ redrained
ImplementsOrderedStream == Ordered!Spec
=============================================================================
