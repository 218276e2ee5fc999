------------------------------- MODULE Clients -------------------------------
(***************************************************************************)
(* The connected clients (src/src/xvdr/xvdrclient.c), seen from their      *)
(* locks and their queues of messages.  Each client has a thread (Action)  *)
(* that sends what is queued, reads a request and processes it under the   *)
(* client's m_msgLock; handlers that deal with timers also take the static *)
(* m_timerLock.  VDR's main thread and the server's thread notify the      *)
(* clients one after the other, each under that client's m_msgLock; so     *)
(* does, through VDR, the thread of a client that adds or deletes a timer. *)
(*                                                                         *)
(* A notification only takes m_queueLock inside m_msgLock, and nothing is  *)
(* waited for under m_queueLock and m_streamerLock: a notification, a      *)
(* QueueMessage and the sending loop are one step each.  Messages and      *)
(* requests are their kinds and numbers.  A client leaves the model when   *)
(* its thread ends; the server deletes it later.                           *)
(***************************************************************************)
EXTENDS Naturals, Sequences

CONSTANTS
  Listeners,    \* the clients, in the order of VDR's list of cStatus objects
  Requests,     \* the kinds of request each client sends
  MaxRequests,  \* bound of the model: requests of each client
  MaxEvents     \* bound of the model: events notified outside requests

Clients == {Listeners[i] : i \in DOMAIN Listeners}

\* The threads that notify clients: VDR's main thread, the server's thread,
\* and a client's own thread while it adds or deletes a timer.
Threads == Clients \cup {"vdr", "server"}

(* The kinds of request, by what their handlers lock and change:           *)
(*   plain    answered without m_timerLock                                 *)
(*   silent   not answered: the handler returns false                      *)
(*   enable, disable   XVDR_ENABLESTATUSINTERFACE                          *)
(*   timers   answered under m_timerLock: reading the timers, opening a    *)
(*            channel, listing recordings, an edit that is refused         *)
(*   update   XVDR_TIMER_UPDATE: tells the client itself                   *)
(*   edit     XVDR_TIMER_ADD and _DELETE: VDR tells every client           *)
Kinds == {"plain", "silent", "enable", "disable", "timers", "update", "edit"}

\* Where a thread can be.
Places == {"send", "read", "enter", "handle", "notify", "answer",
           "stopped", "idle"}

ASSUME ClientsAssumption ==
  /\ Listeners \in Seq(Clients)
  /\ {"vdr", "server"} \cap Clients = {}
  /\ Requests \in [Clients -> SUBSET Kinds]
  /\ MaxRequests \in [Clients -> Nat] /\ MaxEvents \in Nat

VARIABLES
  pc,       \* where each thread is
  asked,    \* the kinds of the requests of each client; the last is m_req
  enabled,  \* m_StatusInterfaceEnabled
  todo,     \* the clients each thread still has to notify
  sure,     \* whether the event it notifies is reported in any case
  queue,    \* m_queue
  sent,     \* the messages written to the socket (history)
  events    \* number of events and unsolicited messages so far (bound)

vars == <<pc, asked, enabled, todo, sure, queue, sent, events>>

Request(c)   == asked[c][Len(asked[c])]

\* Mutant: the number of the request is counted up before it is answered.
ResponseNext(c) == [kind |-> Request(c), n |-> Len(asked[c]) + 1]

Response(c)  == [kind |-> Request(c), n |-> Len(asked[c])]
StatusChange == [kind |-> "status", n |-> 0]
Notice       == [kind |-> "notice", n |-> 0]
Messages(c)  == [kind : Kinds \cup {"status", "notice"}, n : 0 .. MaxRequests[c]]

QueueMessage(c, m) == queue' = [queue EXCEPT ![c] = Append(@, m)]
-----------------------------------------------------------------------------
(* The locks.  m_msgLock of a client is held by nobody but its own thread  *)
(* between two steps, and m_timerLock by nobody but a thread that notifies.*)

\* Mutant: m_msgLock is released before the response is queued.
HoldsMsgLockShort(c) == pc[c] \in {"handle", "notify"}

\* Mutant: m_msgLock is not released before the next request.
HoldsMsgLockOn(c) == pc[c] \in {"handle", "notify", "answer", "send", "read"}

HoldsMsgLock(c) == pc[c] \in {"handle", "notify", "answer"}

HoldsTimerLock(c) == c \in Clients /\ pc[c] = "notify"

\* Mutant: an edit does not lock m_timerLock.
TimerLockIgnored == TRUE

TimerLockFree == \A c \in Clients : ~HoldsTimerLock(c)

NeedsTimerLock(kind) == kind \in {"timers", "update", "edit"}

Init ==
  /\ pc = [t \in Threads |-> IF t \in Clients THEN "send" ELSE "idle"]
  /\ asked = [c \in Clients |-> <<>>]
  /\ enabled = [c \in Clients |-> FALSE]
  /\ todo = [t \in Threads |-> <<>>] /\ sure = [t \in Threads |-> TRUE]
  /\ queue = [c \in Clients |-> <<>>] /\ sent = [c \in Clients |-> <<>>]
  /\ events = 0
-----------------------------------------------------------------------------
(* A client's thread, Action() and processRequest().                       *)

\* Mutant: a message leaves the queue before it is written.
SendPopped(c) ==
  /\ pc[c] = "send"
  /\ \E k \in 0 .. Len(queue[c]) :
       /\ sent'  = [sent  EXCEPT ![c] = @ \o SubSeq(queue[c], 1, k)]
       /\ queue' = [queue EXCEPT ![c] = SubSeq(@, k + 2, Len(@))]
  /\ pc' = [pc EXCEPT ![c] = "read"]
  /\ UNCHANGED <<asked, enabled, todo, sure, events>>

\* A prefix of the queue is written; a message that cannot be written stays
\* and is tried again in the next round.
SendPending(c) ==
  /\ pc[c] = "send"
  /\ \E k \in 0 .. Len(queue[c]) :
       /\ sent'  = [sent  EXCEPT ![c] = @ \o SubSeq(queue[c], 1, k)]
       /\ queue' = [queue EXCEPT ![c] = SubSeq(@, k + 1, Len(@))]
  /\ pc' = [pc EXCEPT ![c] = "read"]
  /\ UNCHANGED <<asked, enabled, todo, sure, events>>

\* MsgPacket::read has a request, finds nothing for a second, during which
\* a running channel scan is reported, or finds the connection closed.
Read(c) ==
  /\ pc[c] = "read" /\ Len(asked[c]) < MaxRequests[c]
  /\ \E kind \in Requests[c] :
       asked' = [asked EXCEPT ![c] = Append(@, kind)]
  /\ pc' = [pc EXCEPT ![c] = "enter"]
  /\ UNCHANGED <<enabled, todo, sure, queue, sent, events>>

ReadNothing(c) ==
  /\ pc[c] = "read"
  /\ \/ UNCHANGED <<queue, events>>
     \/ /\ events < MaxEvents /\ events' = events + 1
        /\ QueueMessage(c, Notice)
  /\ pc' = [pc EXCEPT ![c] = "send"]
  /\ UNCHANGED <<asked, enabled, todo, sure, sent>>

ReadClosed(c) ==
  /\ pc[c] = "read"
  /\ pc' = [pc EXCEPT ![c] = "stopped"]
  /\ UNCHANGED <<asked, enabled, todo, sure, queue, sent, events>>

\* processRequest() takes m_msgLock.
Enter(c) ==
  /\ pc[c] = "enter"
  /\ pc' = [pc EXCEPT ![c] = "handle"]
  /\ UNCHANGED <<asked, enabled, todo, sure, queue, sent, events>>

\* The handlers without m_timerLock.
HandlePlain(c) ==
  /\ pc[c] = "handle" /\ ~NeedsTimerLock(Request(c))
  /\ enabled' = IF Request(c) \in {"enable", "disable"}
                  THEN [enabled EXCEPT ![c] = (Request(c) = "enable")]
                  ELSE enabled
  /\ pc' = [pc EXCEPT ![c] = "answer"]
  /\ UNCHANGED <<asked, todo, sure, queue, sent, events>>

\* The handlers that hold m_timerLock for a single step; processTIMER_Update
\* calls its own TimerChange(), the mutex being recursive.
HandleTimers(c) ==
  /\ pc[c] = "handle" /\ NeedsTimerLock(Request(c)) /\ Request(c) # "edit"
  /\ TimerLockFree
  /\ IF Request(c) = "update" /\ enabled[c]
       THEN QueueMessage(c, StatusChange) ELSE UNCHANGED queue
  /\ pc' = [pc EXCEPT ![c] = "answer"]
  /\ UNCHANGED <<asked, enabled, todo, sure, sent, events>>

\* Timers.Add() and Timers.Del() call cStatus::MsgTimerChange; a timer that
\* is recording is stopped before that, which calls cStatus::MsgRecording.
HandleEdit(c) ==
  /\ pc[c] = "handle" /\ Request(c) = "edit"
  /\ TimerLockFree
  /\ \E calls \in {Listeners, Listeners \o Listeners} :
       todo' = [todo EXCEPT ![c] = calls]
  /\ sure' = [sure EXCEPT ![c] = TRUE]
  /\ pc' = [pc EXCEPT ![c] = "notify"]
  /\ UNCHANGED <<asked, enabled, queue, sent, events>>

\* The response is queued if the handler returned true, m_msgLock released.
Answer(c) ==
  /\ pc[c] = "answer"
  /\ IF Request(c) # "silent"
       THEN QueueMessage(c, Response(c)) ELSE UNCHANGED queue
  /\ pc' = [pc EXCEPT ![c] = "send"]
  /\ UNCHANGED <<asked, enabled, todo, sure, sent, events>>
-----------------------------------------------------------------------------
(* Notifications.  TimerChange, Recording and RecordingsChange are queued  *)
(* whenever the status interface is enabled; ChannelsChanged and           *)
(* OsdStatusMessage may find that there is nothing to report.              *)
Notify(t) ==
  /\ pc[t] = "notify" /\ todo[t] # <<>>
  /\ LET c == Head(todo[t]) IN
       /\ c = t \/ ~HoldsMsgLock(c)
       /\ \/ enabled[c] /\ QueueMessage(c, StatusChange)
          \/ (~enabled[c] \/ ~sure[t]) /\ UNCHANGED queue
  /\ todo' = [todo EXCEPT ![t] = Tail(@)]
  /\ UNCHANGED <<pc, asked, enabled, sure, sent, events>>

NotifyEnd(t) ==
  /\ pc[t] = "notify" /\ todo[t] = <<>>
  /\ pc' = [pc EXCEPT ![t] = IF t \in Clients THEN "answer" ELSE "idle"]
  /\ UNCHANGED <<asked, enabled, todo, sure, queue, sent, events>>

\* Something happens in VDR (a timer, a recording, a message on its screen),
\* or the server's thread finds changed channels or recordings.
Event(t) ==
  /\ pc[t] = "idle" /\ events < MaxEvents
  /\ events' = events + 1
  /\ todo' = [todo EXCEPT ![t] = Listeners]
  /\ sure' \in {[sure EXCEPT ![t] = b] : b \in BOOLEAN}
  /\ pc' = [pc EXCEPT ![t] = "notify"]
  /\ UNCHANGED <<asked, enabled, queue, sent>>

\* A live stream reports its signal, from its own thread and without a look
\* at m_StatusInterfaceEnabled.
StatusMessage(c) ==
  /\ pc[c] # "stopped" /\ events < MaxEvents
  /\ events' = events + 1
  /\ QueueMessage(c, Notice)
  /\ UNCHANGED <<pc, asked, enabled, todo, sure, sent>>

ClientStep(c) ==
  \/ SendPending(c) \/ Read(c) \/ ReadNothing(c) \/ ReadClosed(c)
  \/ Enter(c) \/ HandlePlain(c) \/ HandleTimers(c) \/ HandleEdit(c) \/ Answer(c)

\* Every client has closed its connection.
Terminated == (\A c \in Clients : pc[c] = "stopped") /\ UNCHANGED vars

Next ==
  \/ Terminated
  \/ \E c \in Clients : ClientStep(c) \/ StatusMessage(c)
  \/ \E t \in Threads : Notify(t) \/ NotifyEnd(t)
  \/ \E t \in {"vdr", "server"} : Event(t)

(* Every thread runs, and a mutex that is released again and again is      *)
(* handed to each waiter in the end.  No client has to send anything.      *)
Spec == Init /\ [][Next]_vars
LiveSpec ==
  /\ Spec
  /\ \A c \in Clients :
       /\ WF_vars(SendPending(c) \/ Enter(c) \/ HandlePlain(c) \/ Answer(c))
       /\ WF_vars(ReadNothing(c))
       /\ SF_vars(HandleTimers(c) \/ HandleEdit(c))
  /\ \A t \in Threads : SF_vars(Notify(t) \/ NotifyEnd(t))
-----------------------------------------------------------------------------
\* Everything the client has got and will get, in this order.
Stream(c) == sent[c] \o queue[c]

\* The state has its types, and messages carry the number of a request.
TypeOK ==
  /\ pc \in [Threads -> Places]
  /\ asked \in [Clients -> Seq(Kinds)]
  /\ enabled \in [Clients -> BOOLEAN]
  /\ todo \in [Threads -> Seq(Clients)]
  /\ sure \in [Threads -> BOOLEAN]
  /\ DOMAIN queue = Clients /\ DOMAIN sent = Clients
  /\ events \in 0 .. MaxEvents
  /\ \A c \in Clients : /\ Len(asked[c]) <= MaxRequests[c]
                        /\ Stream(c) \in Seq(Messages(c))

\* A status message reaches a client only behind the response that told it
\* the status interface is enabled, and never behind the one that told it
\* the opposite, whatever VDR, the server and other clients notify while the
\* request is processed (m_msgLock in processRequest and in the callbacks).
StatusOnlyWhileEnabled ==
  \A c \in Clients : \A j \in DOMAIN Stream(c) :
    Stream(c)[j].kind = "status" =>
      \E i \in 1 .. (j - 1) :
        /\ Stream(c)[i].kind = "enable"
        /\ \A k \in i .. (j - 1) : Stream(c)[k].kind # "disable"

\* The requests of a client that were processed to their end.
Finished(c) ==
  IF pc[c] \in {"enter", "handle", "notify", "answer"}
    THEN Len(asked[c]) - 1 ELSE Len(asked[c])

\* The responses among the messages of c, and those its requests call for.
Responses(c) == {i \in DOMAIN Stream(c) : Stream(c)[i].kind \in Kinds}
Expected(c)  == {n \in 1 .. Finished(c) : asked[c][n] # "silent"}

\* A client gets one response to each request that calls for one, in the
\* order of its requests, although sending stops at any message that cannot
\* be written and status messages come in between (xvdrclient.c:221-233 and
\* 684-687).
AnsweredInOrder ==
  \A c \in Clients :
    /\ {Stream(c)[i] : i \in Responses(c)}
         = {[kind |-> asked[c][n], n |-> n] : n \in Expected(c)}
    /\ \A i, j \in Responses(c) : i < j => Stream(c)[i].n < Stream(c)[j].n

\* Thread t waits for a lock that client c holds.
WaitsFor(t, c) ==
  /\ c # t
  /\ \/ /\ pc[t] = "notify" /\ todo[t] # <<>>
        /\ Head(todo[t]) = c /\ HoldsMsgLock(c)
     \/ /\ pc[t] = "handle" /\ NeedsTimerLock(Request(t))
        /\ HoldsTimerLock(c)

\* No two clients wait for each other.
\* README:20 "The vdr-plugin-xvdr is able to handle serveral XBMC clients".
NoCyclicWait == \A c, d \in Clients : ~(WaitsFor(c, d) /\ WaitsFor(d, c))

\* Client c notifies d, under m_timerLock and in want of d's m_msgLock, and
\* d's request wants m_timerLock.
Entangled(c, d) ==
  /\ pc[c] = "notify" /\ WaitsFor(c, d)
  /\ pc[d] = "handle" /\ NeedsTimerLock(Request(d)) /\ WaitsFor(d, c)

\* There is one kind of deadlock only: clients that wait for one another,
\* however many, have among them one that adds or deletes a timer and, for
\* m_msgLock, one that wants m_timerLock (xvdrclient.c:1250, 1299, 1324 and
\* 1355).  The callbacks of VDR and of the server are part of none.
OnlyEditsEntangle ==
  \A S \in SUBSET Clients :
    S # {} /\ (\A c \in S : \E d \in S : WaitsFor(c, d))
      => \E c, d \in S : Entangled(c, d)

\* A request that was read is processed to its end, whoever else holds or
\* wants m_timerLock and however often the client is notified meanwhile,
\* unless two clients are entangled.
Served ==
  \A c \in Clients :
    (pc[c] = "enter") ~> (pc[c] = "send" \/ \E d, e \in Clients : Entangled(d, e))
=============================================================================
