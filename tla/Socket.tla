------------------------------- MODULE Socket -------------------------------
(***************************************************************************)
(* Packets on a socket (src/src/net/msgpacket.c, src/src/net/os-config.c). *)
(* MsgPacket::write sends a packet in pieces, as the socket takes them,    *)
(* and gives up after a time limit; MsgPacket::read looks for the sync     *)
(* mark, then reads the header and the payload, each with a time limit.    *)
(* On the socket of a client two threads write without a common lock: the  *)
(* client's thread, which tries again what it could not send, and the one  *)
(* of the live queue, which does not.  The peer reads with the same code.  *)
(*                                                                         *)
(* A byte is the packet it belongs to and its place in that.  A checksum   *)
(* tells any change of the bytes it is about, and no payload looks like a  *)
(* sync mark.                                                              *)
(***************************************************************************)
EXTENDS Naturals, Sequences

CONSTANTS
  Writers,      \* the threads that write to the socket
  Retries,      \* those that keep a packet they could not write
  Unchecked,    \* those whose packets have no checksum of the payload
  Payload,      \* length of the payload of each packet
  SyncLength,   \* sizeof(uint32_t): length of the sync mark
  HeaderLength, \* MsgPacket::HeaderLength (32)
  Capacity,     \* bytes the connection holds
  MaxPackets,   \* bound of the model: packets of each writer
  MaxFailures   \* bound of the model: writes that are given up

\* Packets are numbered by writer.
Packets == UNION {[w : {w}, n : 1 .. MaxPackets[w]] : w \in Writers}

\* Only mux packets go without the checksum of the payload
\* (livestreamer.c:464), and the live queue does not try them again.
ASSUME SocketAssumption ==
  /\ Retries \subseteq Writers /\ Unchecked \subseteq Writers \ Retries
  /\ Packets # {}
  /\ SyncLength \in Nat \ {0} /\ HeaderLength \in Nat
  /\ SyncLength < HeaderLength
  /\ Capacity \in Nat \ {0}
  /\ MaxPackets \in [Writers -> Nat] /\ MaxFailures \in Nat
  /\ Payload \in [Packets -> Nat]

VARIABLES
  next,     \* number of the packet each writer is at
  written,  \* bytes of it that were sent by the write() that runs
  stream,   \* the bytes on the connection
  conn,     \* "open", "shut": closed by the writers, "reset": broken
  phase,    \* what the reader looks for, "idle": between two calls of read()
  got,      \* bytes of the socketread() that runs
  head,     \* the packet of the header that was read
  accepted  \* what read() returned (history)

\* History, read by no action.
VARIABLES
  begun,    \* the packets in the order in which their writing began, as long
            \* as none of the next two holds
  mixed,    \* a packet was begun inside another one
  timedOut, \* a write or a read was given up, or the connection ended
  failures  \* writes that were given up

writing == <<next, written>>
reading == <<phase, got, head, accepted>>
history == <<begun, mixed, timedOut, failures>>
vars    == <<writing, stream, conn, reading, history>>

Bytes   == [p : Packets, at : Nat]
Current(w) == [w |-> w, n |-> next[w]]
Length(p) == HeaderLength + Payload[p]

Least(a, b) == IF a < b THEN a ELSE b

Init ==
  /\ next = [w \in Writers |-> 1] /\ written = [w \in Writers |-> 0]
  /\ stream = <<>> /\ conn = "open"
  /\ phase = "idle" /\ got = <<>> /\ head = CHOOSE p \in Packets : TRUE
  /\ accepted = <<>> /\ begun = <<>> /\ mixed = FALSE /\ timedOut = FALSE /\ failures = 0
-----------------------------------------------------------------------------
(* MsgPacket::write.                                                       *)

Piece(w, k) == [i \in 1 .. k |-> [p |-> Current(w), at |-> written[w] + i]]

\* send() takes a part of what is left; the packet is done when all is sent.
Send(w) ==
  /\ conn = "open" /\ next[w] <= MaxPackets[w]
  /\ \E k \in 1 .. Least(Capacity - Len(stream), Length(Current(w)) - written[w]) :
       LET done == written[w] + k = Length(Current(w)) IN
       /\ stream'  = stream \o Piece(w, k)
       /\ written' = [written EXCEPT ![w] = IF done THEN 0 ELSE @ + k]
       /\ next'    = [next EXCEPT ![w] = IF done THEN @ + 1 ELSE @]
  /\ mixed' = (mixed \/ \E v \in Writers \ {w} : written[v] # 0)
  /\ begun' = IF written[w] = 0 /\ ~mixed' /\ ~timedOut
                THEN Append(begun, Current(w)) ELSE begun
  /\ UNCHANGED <<conn, reading, timedOut, failures>>

\* What becomes of a packet that could not be written: it stays at the front
\* of the client's queue, or is deleted.
GiveUp(w) ==
  /\ next'    = [next EXCEPT ![w] = IF w \in Retries THEN @ ELSE @ + 1]
  /\ written' = [written EXCEPT ![w] = 0]

\* poll() finds no room for the time limit, or send() fails.
WriteFails(w) ==
  /\ next[w] <= MaxPackets[w]
  /\ Len(stream) = Capacity \/ conn # "open"
  /\ GiveUp(w)
  /\ timedOut' = TRUE
  /\ failures < MaxFailures /\ failures' = failures + 1
  /\ UNCHANGED <<stream, conn, reading, begun, mixed>>
-----------------------------------------------------------------------------
(* The connection ends: what is on it can still be read, or it is lost and *)
(* recv() fails once.                                                      *)
Close ==
  /\ conn = "open"
  /\ \/ conn' = "shut"  /\ UNCHANGED stream
     \/ conn' = "reset" /\ stream' = <<>>
  /\ timedOut' = TRUE
  /\ UNCHANGED <<writing, reading, begun, mixed, failures>>
-----------------------------------------------------------------------------
(* MsgPacket::read, and socketread.                                        *)

Wanted == CASE phase = "sync"    -> SyncLength
            [] phase = "header"  -> HeaderLength - SyncLength
            [] phase = "payload" -> Payload[head]
            [] OTHER -> 0

Reading  == phase \in {"sync", "header", "payload"}
Complete == Reading /\ Len(got) = Wanted

LookFor(what) == phase' = what /\ got' = <<>>

\* The first poll() finds something.
Begin ==
  /\ phase = "idle"
  /\ stream # <<>> \/ conn # "open"
  /\ LookFor("sync")
  /\ UNCHANGED <<writing, stream, conn, head, accepted, history>>

\* Mutant: recv() is asked for all that was wanted.
TakeAgain == Least(Len(stream), Wanted)

\* recv() returns what there is of what is wanted.
Take == Least(Len(stream), Wanted - Len(got))

Receive ==
  /\ Reading /\ ~Complete /\ stream # <<>>
  /\ got' = got \o SubSeq(stream, 1, Take)
  /\ stream' = SubSeq(stream, Take + 1, Len(stream))
  /\ UNCHANGED <<writing, conn, phase, head, accepted, history>>

\* poll() finds nothing for the time limit: what was read is forgotten.
ReadTimeout ==
  /\ Reading /\ ~Complete /\ stream = <<>> /\ conn = "open"
  /\ LookFor("idle")
  /\ timedOut' = TRUE
  /\ UNCHANGED <<writing, stream, conn, head, accepted, begun, mixed, failures>>

\* Mutant: the end of the connection is only noticed inside a packet.
EndInPacket == phase # "sync"

\* Only the search for the sync mark tells the caller of the end.
EndNoticed == phase = "sync"

\* recv() returns 0 at the end of the connection.
ReadEnd ==
  /\ Reading /\ ~Complete /\ stream = <<>> /\ conn = "shut"
  /\ LookFor(IF EndNoticed THEN "closed" ELSE "idle")
  /\ UNCHANGED <<writing, stream, conn, head, accepted, history>>

\* recv() fails, with ECONNRESET or with another error, and returns 0 from
\* then on.
ReadError ==
  /\ Reading /\ ~Complete /\ conn = "reset"
  /\ \/ LookFor("idle")
     \/ EndNoticed /\ LookFor("closed")
  /\ conn' = "shut"
  /\ UNCHANGED <<writing, stream, head, accepted, history>>

\* The bytes read are those of packet p behind the first n.
Are(p, n) == \A i \in DOMAIN got : got[i] = [p |-> p, at |-> n + i]

\* All packets have the same sync mark.
IsSync == \A i \in DOMAIN got : got[i].at = i

Sync ==
  /\ Complete /\ phase = "sync"
  /\ LookFor(IF IsSync THEN "header" ELSE "sync")
  /\ UNCHANGED <<writing, stream, conn, head, accepted, history>>

Accept(p, whole) ==
  /\ accepted' = Append(accepted, [p |-> p, whole |-> whole])
  /\ LookFor("idle")

HeaderIsGood == Are(got[1].p, SyncLength)

\* Mutant: room is asked for an empty payload too, and reserve(0) fails.
HeaderAlways ==
  /\ Complete /\ phase = "header" /\ HeaderIsGood
  /\ head' = got[1].p
  /\ LookFor(IF Payload[head'] = 0 THEN "idle" ELSE "payload")
  /\ UNCHANGED accepted
  /\ UNCHANGED <<writing, stream, conn, history>>

Header ==
  /\ Complete /\ phase = "header" /\ HeaderIsGood
  /\ head' = got[1].p
  /\ IF Payload[head'] = 0
       THEN Accept(head', TRUE)
       ELSE LookFor("payload") /\ UNCHANGED accepted
  /\ UNCHANGED <<writing, stream, conn, history>>

\* Mutant: the checksum is not looked at.
PayloadAny == TRUE

PayloadIsGood == head.w \in Unchecked \/ Are(head, HeaderLength)

Body ==
  /\ Complete /\ phase = "payload" /\ PayloadIsGood
  /\ Accept(head, Are(head, HeaderLength))
  /\ UNCHANGED <<writing, stream, conn, head, history>>

\* A checksum fails.
Reject ==
  /\ Complete
  /\ \/ phase = "header"  /\ ~HeaderIsGood
     \/ phase = "payload" /\ ~PayloadIsGood
  /\ LookFor("idle")
  /\ UNCHANGED <<writing, stream, conn, head, accepted, history>>

Reader ==
  \/ Begin \/ Receive \/ ReadTimeout \/ ReadEnd \/ ReadError
  \/ Sync \/ Header \/ Body \/ Reject

\* The reader has given the connection up.
Terminated == phase = "closed" /\ UNCHANGED vars

\* Every packet was written and read, and nothing comes any more.
Waiting ==
  /\ phase = "idle" /\ stream = <<>> /\ conn = "open"
  /\ UNCHANGED vars

Next == (\E w \in Writers : Send(w) \/ WriteFails(w))
        \/ Close \/ Reader \/ Terminated \/ Waiting

(* The thread of the reader runs, and its time limits end. *)
Spec == Init /\ [][Next]_vars
LiveSpec == Spec /\ WF_vars(Reader)
-----------------------------------------------------------------------------
\* The state has its types: a writer has never written a packet whole that
\* it still writes, and the reader never reads more than it asked for.
TypeOK ==
  /\ DOMAIN next = Writers /\ \A w \in Writers : next[w] \in 1 .. MaxPackets[w] + 1
  /\ written \in [Writers -> Nat]
  /\ \A w \in Writers : written[w] # 0 => written[w] < Length(Current(w))
  /\ stream \in Seq(Bytes) /\ Len(stream) <= Capacity
  /\ conn \in {"open", "shut", "reset"}
  /\ phase \in {"idle", "sync", "header", "payload", "closed"}
  /\ got \in Seq(Bytes) /\ Len(got) <= Wanted
  /\ head \in Packets
  /\ accepted \in Seq([p : Packets, whole : BOOLEAN])
  /\ begun \in Seq(Packets)
  /\ mixed \in BOOLEAN /\ timedOut \in BOOLEAN /\ failures \in 0 .. MaxFailures

\* However the two writers' pieces mix, fail and are tried again, a reader
\* takes no packet of a writer twice or behind a later one, and a packet
\* with a checksum only if it is whole (xvdrclient.c:222-233 tries again
\* what write() has sent a part of).
TakenOnce ==
  \A i \in DOMAIN accepted :
    /\ accepted[i].p.w \notin Unchecked => accepted[i].whole
    /\ \A j \in 1 .. i - 1 :
         accepted[j].p.w = accepted[i].p.w => accepted[j].p.n < accepted[i].p.n

\* The bytes about which the reader still has to decide.
Coming == got \o stream

\* The first byte of a packet is among them.
OnItsWay(p) == \E i \in 1 .. Len(Coming) : Coming[i] = [p |-> p, at |-> 1]

\* The reader has read the beginning of packet p.
AtPacket(p) == phase = "header" \/ (phase = "payload" /\ head = p)

\* A reader that keeps up gets everything, whole and in the order it was
\* written: a packet is only lost or damaged when a time limit has passed,
\* the connection ended or the two threads have written into each other's
\* packets.
NothingLost ==
  (~timedOut /\ ~mixed) =>
    /\ Len(accepted) <= Len(begun)
    /\ \A i \in DOMAIN accepted : accepted[i] = [p |-> begun[i], whole |-> TRUE]
    /\ \A i \in Len(accepted) + 1 .. Len(begun) :
         OnItsWay(begun[i]) \/ (i = Len(accepted) + 1 /\ AtPacket(begun[i]))

\* The end of a connection is noticed in the end, though read() tells its
\* caller only when it comes between two packets, and the client's thread
\* then ends (xvdrclient.c:236-242): otherwise the server would keep the
\* client for ever.
EndIsNoticed == (conn # "open") ~> (phase = "closed")
=============================================================================
