------------------------------ MODULE RecPlayer ------------------------------
(***************************************************************************)
(* cRecPlayer (src/src/recordings/recplayer.c) and the requests that drive *)
(* it: a client reads a recording, which is a sequence of files, as one    *)
(* range of bytes, while VDR may still be recording to it.                 *)
(*                                                                         *)
(* A byte is its position in the recording, so a file is the range of the  *)
(* bytes in it.  The player only sees the lengths of the files (stat) and  *)
(* what read returns.  Each stat and each read is a step of its own.       *)
(***************************************************************************)
EXTENDS Integers, Sequences

CONSTANTS
  MaxBlock,     \* 256*1024, the longest block
  IntLimit,     \* 2^31, the first number an int cannot hold
  MaxFiles,     \* bound of the model: number of files of the recording
  MaxLength,    \* bound of the model: length of the recording, and of the
                \* positions that are asked for
  MaxAmount     \* bound of the model: amount of a request, which is 32 bits
                \* wide

ASSUME RecPlayerAssumption ==
  /\ MaxBlock \in Nat \ {0} /\ IntLimit \in Nat /\ MaxBlock < IntLimit
  /\ MaxFiles \in Nat /\ MaxLength \in Nat
  /\ MaxAmount \in Nat /\ MaxAmount < 2 * IntLimit

VARIABLES
  files,    \* the files of the recording: [start, end)
  deleted,  \* VDR has removed the recording's directory

  pc,       \* what processRequest is doing: "closed" and "open" between two
            \* requests without and with an m_RecPlayer, "scan", "read"
  segments, \* m_segments
  total,    \* m_totalLength
  fileOpen, \* m_fileOpen + 1, 0: none
  scanned,  \* number of files scan() has seen
  wanted,   \* getBlock: [position, amount] that is still to be read
  block     \* the bytes read so far by the last request for a block

\* History, read by no action.
VARIABLES
  asked,    \* [position, amount] of the last request for a block
  torn,     \* VDR started a new file while the last scan() was running
  told,     \* the last length told to the client
  failed    \* an error ended the last request for a block

disk   == <<files, deleted>>
player == <<segments, total, fileOpen, scanned>>
vars   == <<disk, pc, player, wanted, block, asked, torn, told, failed>>

Lesser(a, b) == IF a < b THEN a ELSE b

\* Bytes from a position on.
Bytes(position, amount) == [position |-> position, amount |-> amount]
Length(f) == f.end - f.start
NoBlock   == Bytes(0, 0)

Init ==
  /\ files = <<>> /\ deleted = FALSE
  /\ pc = "closed" /\ segments = <<>> /\ total = 0
  /\ fileOpen = 0 /\ scanned = 0
  /\ wanted = NoBlock /\ block = <<>>
  /\ asked = NoBlock /\ torn = FALSE /\ told = 0 /\ failed = FALSE
-----------------------------------------------------------------------------
(* VDR: the recorder writes to the last file or starts the next one; the   *)
(* user deletes the recording, whose open file stays readable.             *)
Record ==
  /\ files # <<>> /\ ~deleted
  /\ files[Len(files)].end < MaxLength
  /\ files' = [files EXCEPT ![Len(files)].end = @ + 1]
  /\ UNCHANGED <<deleted, pc, player, wanted, block, asked, torn, told, failed>>

NextFile ==
  /\ Len(files) < MaxFiles /\ ~deleted
  /\ LET end == IF files = <<>> THEN 0 ELSE files[Len(files)].end IN
       files' = Append(files, [start |-> end, end |-> end])
  /\ torn' = (torn \/ pc = "scan")
  /\ UNCHANGED <<deleted, pc, player, wanted, block, asked, told, failed>>

Delete ==
  /\ ~deleted
  /\ deleted' = TRUE
  /\ UNCHANGED <<files, pc, player, wanted, block, asked, torn, told, failed>>
-----------------------------------------------------------------------------
\* Mutant: m_totalLength is not reset.
StartScanOnTop ==
  /\ pc' = "scan"
  /\ segments' = <<>> /\ total' = total /\ scanned' = 0
  /\ torn' = FALSE
  /\ wanted' = NoBlock /\ block' = <<>> /\ asked' = NoBlock /\ failed' = FALSE

\* scan() forgets the segments and looks at the files from the first one on.
StartScan ==
  /\ pc' = "scan"
  /\ segments' = <<>> /\ total' = 0 /\ scanned' = 0
  /\ torn' = FALSE
  /\ wanted' = NoBlock /\ block' = <<>> /\ asked' = NoBlock /\ failed' = FALSE

\* processRecStream_Open
Open ==
  /\ pc = "closed"
  /\ StartScan
  /\ fileOpen' = 0
  /\ told' = 0
  /\ UNCHANGED disk

\* processRecStream_Update, at least m_rescanInterval after the last scan.
Update ==
  /\ pc = "open"
  /\ StartScan
  /\ UNCHANGED <<disk, fileOpen, told>>

\* stat() of the next file.
ScanFile ==
  /\ pc = "scan"
  /\ scanned < Len(files) /\ ~deleted
  /\ LET end == total + Length(files[scanned + 1]) IN
       /\ segments' = Append(segments, [start |-> total, end |-> end])
       /\ total' = end
  /\ scanned' = scanned + 1
  /\ UNCHANGED <<disk, pc, fileOpen, wanted, block, asked, torn, told, failed>>

\* stat() fails: there is no such file.
ScanEnd ==
  /\ pc = "scan"
  /\ scanned = Len(files) \/ deleted
  /\ pc' = "open"
  /\ told' = total
  /\ UNCHANGED <<disk, player, wanted, block, asked, torn, failed>>

\* processRecStream_Close
Close ==
  /\ pc = "open"
  /\ pc' = "closed"
  /\ segments' = <<>> /\ total' = 0 /\ fileOpen' = 0 /\ scanned' = 0
  /\ wanted' = NoBlock /\ block' = <<>> /\ asked' = NoBlock /\ failed' = FALSE
  /\ torn' = FALSE /\ told' = 0
  /\ UNCHANGED disk
-----------------------------------------------------------------------------
(* getBlock().                                                             *)

\* What is left of a number that is put into an int.
ToInt(n) ==
  LET low == n % (2 * IntLimit) IN
  IF low < IntLimit THEN low ELSE low - 2 * IntLimit

\* The first two tests of an amount.  The second one compares 64 bits without
\* a sign: a negative amount is beyond every length.
Known(amount) ==
  LET limited == Lesser(amount, MaxBlock) IN
  IF limited \in 0 .. total THEN limited ELSE ToInt(total)

\* What is left of an amount, an int, after the tests at the start of
\* getBlock.
Clamp(position, amount) ==
  IF position >= total THEN 0
  ELSE IF position + Known(amount) \in 0 .. total THEN Known(amount)
  ELSE ToInt(total - position)

\* processRecStream_GetBlock: the amount of the request becomes an int.
GetBlock(position, amount) ==
  /\ pc = "open"
  /\ pc' = "read"
  /\ asked'  = Bytes(position, amount)
  /\ wanted' = Bytes(position, Clamp(position, ToInt(amount)))
  /\ block' = <<>> /\ failed' = FALSE
  /\ UNCHANGED <<disk, player, torn, told>>

\* Mutant: the end counts as a part of the segment.
SegmentInclusive(position) ==
  {i \in DOMAIN segments :
     position >= segments[i].start /\ position <= segments[i].end}

\* The segment a position lies in.
Segment(position) ==
  {i \in DOMAIN segments :
     position >= segments[i].start /\ position < segments[i].end}

\* openFile(): the file that is open already is read even if it was deleted.
Opens(i) == fileOpen = i \/ (~deleted /\ i <= Len(files))

\* Some bytes are read from file i, not necessarily all, and getBlock calls
\* itself for the rest.
ReadBytes ==
  /\ pc = "read" /\ wanted.amount > 0
  /\ \E i \in Segment(wanted.position) :
       LET offset == wanted.position - segments[i].start IN
       /\ Opens(i)
       /\ fileOpen' = i
       /\ \E n \in 1 .. wanted.amount :
            /\ offset + n <= Length(files[i])
            /\ block' = block \o [k \in 1 .. n |-> files[i].start + offset + k - 1]
            /\ wanted' = Bytes(wanted.position + n,
                               Clamp(wanted.position + n, wanted.amount - n))
  /\ UNCHANGED <<disk, pc, segments, total, scanned, asked, torn, told, failed>>

\* Nothing left to read.
BlockDone ==
  /\ pc = "read" /\ wanted.amount = 0
  /\ pc' = "open"
  /\ UNCHANGED <<disk, player, wanted, block, asked, torn, told, failed>>

\* Mutant: a file that cannot be opened is tried again.
BlockCutRetry ==
  /\ pc = "read" /\ wanted.amount # 0
  /\ \E i \in Segment(wanted.position) : ~Opens(i)
  /\ fileOpen' = 0
  /\ UNCHANGED <<disk, pc, segments, total, scanned, wanted, block, asked, torn,
                 told, failed>>

\* No segment, no such file, no byte at that position or a negative amount,
\* which read refuses: what was read so far is the answer ...
BlockCut ==
  /\ pc = "read" /\ wanted.amount # 0
  /\ \/ Segment(wanted.position) = {} /\ UNCHANGED fileOpen
     \/ \E i \in Segment(wanted.position) :
          \/ ~Opens(i) /\ fileOpen' = 0
          \/ /\ Opens(i)
             /\ \/ wanted.position - segments[i].start >= Length(files[i])
                \/ wanted.amount < 0
             /\ fileOpen' = i
  /\ pc' = "open"
  /\ UNCHANGED <<disk, segments, total, scanned, wanted, block, asked, torn,
                 told, failed>>

\* ... as it is when open, lseek or read fails.
ReadFails ==
  /\ pc = "read" /\ wanted.amount > 0
  /\ \E i \in Segment(wanted.position) :
       \/ fileOpen # i /\ fileOpen' = 0
       \/ Opens(i) /\ fileOpen' = i
  /\ pc' = "open"
  /\ failed' = TRUE
  /\ UNCHANGED <<disk, segments, total, scanned, wanted, block, asked, torn,
                 told>>

Player ==
  \/ Open \/ Update \/ ScanFile \/ ScanEnd \/ Close
  \/ \E p \in 0 .. MaxLength, a \in 1 .. MaxAmount : GetBlock(p, a)
  \/ ReadBytes \/ BlockDone \/ BlockCut \/ ReadFails

VDR == Record \/ NextFile \/ Delete

Next == Player \/ VDR

(* The thread that processes a request goes on with it; calls need not fail. *)
Spec == Init /\ [][Next]_vars
LiveSpec == Spec /\ WF_vars(ScanFile \/ ScanEnd)
                 /\ WF_vars(ReadBytes \/ BlockDone \/ BlockCut)
-----------------------------------------------------------------------------
FileRanges  == [start : Nat, end : Nat]
BlockRanges == [position : Nat, amount : Int]

\* The state has its types, and no scan, a disturbed one neither, tells of a
\* byte that VDR has not written.
TypeOK ==
  /\ files \in Seq(FileRanges) /\ segments \in Seq(FileRanges)
  /\ deleted \in BOOLEAN /\ torn \in BOOLEAN /\ failed \in BOOLEAN
  /\ pc \in {"closed", "open", "scan", "read"}
  /\ total \in Nat /\ fileOpen \in Nat /\ scanned \in Nat /\ told \in Nat
  /\ wanted \in BlockRanges /\ asked \in BlockRanges
  /\ block \in Seq(Nat)
  /\ scanned <= Len(files)
  /\ total <= IF scanned = 0 THEN 0 ELSE files[scanned].end

\* The client gets the bytes it asked for: the i-th byte of a block is the
\* one at that position of the recording, across the borders of files, while
\* VDR goes on recording, and whichever file is still open from the block
\* before.  Only a scan during which VDR starts a new file sees lengths that
\* do not fit together.
RightBytes ==
  ~torn => \A i \in DOMAIN block : block[i] = asked.position + i - 1

\* Why that is so: the files follow each other without a gap ...
Contiguous ==
  /\ \A i \in DOMAIN files : files[i].start <= files[i].end
  /\ \A i \in DOMAIN files : i > 1 => files[i].start = files[i - 1].end
  /\ files # <<>> => files[1].start = 0

\* ... the segments follow each other in the same way, up to m_totalLength
\* ...
SegmentsTile ==
  /\ scanned = Len(segments)
  /\ total = IF scanned = 0 THEN 0 ELSE segments[scanned].end

\* ... and a segment starts where its file does and ends where it ended when
\* it was looked at.  While scan() runs and no file is started, that is the
\* end of every file but the one that VDR writes to.
SegmentsFit ==
  \A i \in DOMAIN segments :
    /\ segments[i].start = files[i].start
    /\ pc = "scan" /\ i < Len(files) => segments[i].end = files[i].end

\* getBlock goes on behind what it has read.
ReadOn == pc = "read" => wanted.position = asked.position + Len(block)

\* What a request should get: the bytes it asks for that the last scan has
\* seen, and no more than the longest block.
Due(position, amount) ==
  IF position >= total THEN 0
  ELSE Lesser(Lesser(amount, MaxBlock), total - position)

\* A request for an amount that an int can hold gets exactly what is due,
\* unless a read failed or the recording was deleted; even a scan that VDR's
\* next file disturbed has told of no byte that is not there.  A larger
\* amount is negative, passes the test for the longest block and becomes the
\* whole length (recplayer.c:175-179).
FullBlock ==
  (pc = "open" /\ ~deleted /\ ~failed /\ asked.amount < IntLimit) =>
    Len(block) = Due(asked.position, asked.amount)

\* A request for a block is answered, though getBlock calls itself again
\* after every short read.
BlockAnswered == (pc = "read") ~> (pc = "open")
=============================================================================
