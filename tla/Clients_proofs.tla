---------------------------- MODULE Clients_proofs ----------------------------
(***************************************************************************)
(* Theorems about any number of clients with any requests: what each of    *)
(* them is sent, and who waits for whom.  Whatever clients wait for one    *)
(* another, there is an edit of timers among their requests that waits for *)
(* a client which waits for it; the run Clients_deadlock shows that this   *)
(* does happen.                                                            *)
(***************************************************************************)
EXTENDS Clients, SequenceTheorems, TLAPS

Busy == {"enter", "handle", "notify", "answer"}

\* What a client's thread works on is one of the kinds of request that the
\* client sends, and only an edit notifies.
ThreadInv ==
  /\ pc \in [Threads -> Places]
  /\ asked \in [Clients -> Seq(Kinds)]
  /\ \A c \in Clients :
       pc[c] \in Busy => asked[c] # <<>> /\ Request(c) \in Requests[c]
  /\ \A c \in Clients : pc[c] = "notify" => Request(c) = "edit"

LEMMA InitThreadInv == Init => ThreadInv
  BY DEF Init, ThreadInv, Busy, Threads, Places

\* A step that moves one client's thread and reads no request.
LEMMA Moved ==
  ASSUME ThreadInv, NEW t \in Threads, NEW l \in Places,
         pc' = [pc EXCEPT ![t] = l], asked' = asked,
         t \in Clients => (l \in Busy => pc[t] \in Busy)
                          /\ (l = "notify" => Request(t) = "edit")
  PROVE  ThreadInv'
  BY DEF ThreadInv, Busy, Threads, Request

\* A step that leaves threads and requests alone.
LEMMA Kept ==
  ASSUME ThreadInv, UNCHANGED <<pc, asked>>
  PROVE  ThreadInv'
  BY DEF ThreadInv, Request

LEMMA ReadKeeps ==
  ASSUME ThreadInv, NEW c \in Clients, Read(c)
  PROVE  ThreadInv'
  <1>. USE ClientsAssumption
  <1>1. PICK kind \in Requests[c] : asked' = [asked EXCEPT ![c] = Append(@, kind)]
    BY DEF Read
  <1>2. kind \in Kinds
    OBVIOUS
  <1>. USE DEF Places
  <1>3. /\ pc' = [pc EXCEPT ![c] = "enter"]
        /\ pc \in [Threads -> Places] /\ asked \in [Clients -> Seq(Kinds)]
        /\ c \in Threads
    BY DEF Read, ThreadInv, Threads
  <1>4. /\ pc' \in [Threads -> Places]
        /\ asked' \in [Clients -> Seq(Kinds)]
    BY <1>1, <1>2, <1>3
  <1>5. asked'[c] # <<>> /\ asked'[c][Len(asked'[c])] = kind
    <2>1. asked'[c] = Append(asked[c], kind) /\ asked[c] \in Seq(Kinds)
      BY <1>1, <1>3
    <2>2. /\ Len(asked'[c]) = Len(asked[c]) + 1 /\ Len(asked[c]) \in Nat
          /\ asked'[c][Len(asked[c]) + 1] = kind
      BY <1>2, <2>1, AppendProperties
    <2>3. Len(<<>>) = 0
      BY EmptySeq
    <2>. QED
      BY <2>2, <2>3
  <1>6. \A d \in Clients \ {c} : asked'[d] = asked[d] /\ pc'[d] = pc[d]
    BY <1>1, <1>3
  <1>7. pc'[c] = "enter"
    BY <1>3
  <1>. QED
    BY <1>4, <1>5, <1>6, <1>7 DEF ThreadInv, Busy, Request

LEMMA StepKeeps == ThreadInv /\ [Next]_vars => ThreadInv'
  <1>. SUFFICES ASSUME ThreadInv, [Next]_vars PROVE ThreadInv'
    OBVIOUS
  <1>1. CASE UNCHANGED vars
    BY <1>1, Kept DEF vars
  <1>2. CASE Terminated
    BY <1>2, Kept DEF Terminated, vars
  <1>3. ASSUME NEW c \in Clients, ClientStep(c) \/ StatusMessage(c)
        PROVE  ThreadInv'
    <2>0. c \in Threads
      BY DEF Threads
    <2>1. CASE SendPending(c) \/ ReadNothing(c) \/ ReadClosed(c)
      BY <2>0, <2>1, Moved DEF SendPending, ReadNothing, ReadClosed, Busy, Places
    <2>2. CASE Read(c)
      BY <2>2, ReadKeeps
    <2>3. CASE Enter(c)
      BY <2>0, <2>3, Moved DEF Enter, Busy, Places
    <2>4. CASE HandlePlain(c)
      BY <2>0, <2>4, Moved DEF HandlePlain, Busy, Places
    <2>5. CASE HandleTimers(c)
      BY <2>0, <2>5, Moved DEF HandleTimers, Busy, Places
    <2>6. CASE HandleEdit(c)
      BY <2>0, <2>6, Moved DEF HandleEdit, Busy, Places
    <2>7. CASE Answer(c)
      BY <2>0, <2>7, Moved DEF Answer, Busy, Places
    <2>8. CASE StatusMessage(c)
      BY <2>8, Kept DEF StatusMessage
    <2>. QED
      BY <1>3, <2>1, <2>2, <2>3, <2>4, <2>5, <2>6, <2>7, <2>8 DEF ClientStep
  <1>4. ASSUME NEW t \in Threads, Notify(t) \/ NotifyEnd(t)
        PROVE  ThreadInv'
    <2>1. CASE Notify(t)
      BY <2>1, Kept DEF Notify
    <2>2. CASE NotifyEnd(t)
      <3>1. CASE t \in Clients
        BY <2>2, <3>1, Moved DEF NotifyEnd, Busy, Places
      <3>2. CASE t \notin Clients
        BY <2>2, <3>2, Moved DEF NotifyEnd, Busy, Places
      <3>. QED
        BY <3>1, <3>2
    <2>. QED
      BY <1>4, <2>1, <2>2
  <1>5. ASSUME NEW t \in {"vdr", "server"}, Event(t)
        PROVE  ThreadInv'
    <2>1. t \in Threads /\ t \notin Clients
      BY ClientsAssumption DEF Threads
    <2>. QED
      BY <1>5, <2>1, Moved DEF Event, Places
  <1>. QED
    BY <1>1, <1>2, <1>3, <1>4, <1>5 DEF Next

\* m_timerLock is held by one thread at a time.
OneEditor ==
  \A c, d \in Clients : pc[c] = "notify" /\ pc[d] = "notify" => c = d

\* No client begins to notify while another one does.
LEMMA OneEditorStep == ThreadInv /\ OneEditor /\ [Next]_vars => OneEditor'
  <1>. SUFFICES ASSUME ThreadInv, OneEditor, [Next]_vars PROVE OneEditor'
    OBVIOUS
  <1>t. pc \in [Threads -> Places] /\ Clients \subseteq Threads
    BY DEF ThreadInv, Threads
  <1>0. ASSUME \A c \in Clients : pc'[c] = "notify" => pc[c] = "notify"
        PROVE  OneEditor'
    BY <1>0 DEF OneEditor
  <1>1. CASE UNCHANGED vars
    BY <1>0, <1>1 DEF vars
  <1>2. CASE Terminated
    BY <1>0, <1>2 DEF Terminated, vars
  <1>3. ASSUME NEW c \in Clients, ClientStep(c) \/ StatusMessage(c)
        PROVE  OneEditor'
    <2>1. CASE HandleEdit(c)
      <3>1. /\ \A d \in Clients : pc[d] # "notify"
            /\ pc' = [pc EXCEPT ![c] = "notify"]
        BY <2>1 DEF HandleEdit, TimerLockFree, HoldsTimerLock
      <3>. QED
        BY <1>t, <3>1 DEF OneEditor
    <2>2. CASE \/ SendPending(c) \/ Read(c) \/ ReadNothing(c) \/ ReadClosed(c)
               \/ Enter(c) \/ HandlePlain(c) \/ HandleTimers(c) \/ Answer(c)
               \/ StatusMessage(c)
      BY <1>0, <1>t, <2>2
         DEF SendPending, Read, ReadNothing, ReadClosed, Enter, HandlePlain,
             HandleTimers, Answer, StatusMessage
    <2>. QED
      BY <1>3, <2>1, <2>2 DEF ClientStep
  <1>4. ASSUME NEW t \in Threads, Notify(t) \/ NotifyEnd(t)
        PROVE  OneEditor'
    BY <1>0, <1>4, <1>t DEF Notify, NotifyEnd
  <1>5. ASSUME NEW t \in {"vdr", "server"}, Event(t)
        PROVE  OneEditor'
    <2>1. \A c \in Clients : pc'[c] = pc[c]
      BY <1>5, <1>t, ClientsAssumption DEF Event
    <2>. QED
      BY <1>0, <2>1
  <1>. QED
    BY <1>1, <1>2, <1>3, <1>4, <1>5 DEF Next

\* A notifying client that waits for one that waits itself, waits for one
\* that wants m_timerLock and thereby waits for it.
LEMMA Entangles ==
  ASSUME ThreadInv, OneEditor, NEW c \in Clients, NEW d \in Clients,
         NEW e \in Clients, pc[c] = "notify", WaitsFor(c, d), WaitsFor(d, e)
  PROVE  Entangled(c, d)
  <1>1. c # d /\ HoldsMsgLock(d)
    BY DEF WaitsFor
  <1>2. pc[d] # "notify"
    BY <1>1 DEF OneEditor
  <1>3. pc[d] = "handle" /\ NeedsTimerLock(Request(d)) /\ HoldsTimerLock(e)
    BY <1>2 DEF WaitsFor
  <1>4. e = c
    BY <1>3 DEF HoldsTimerLock, OneEditor
  <1>. QED
    BY <1>3, <1>4 DEF Entangled

LEMMA WaitersEntangle == ThreadInv /\ OneEditor => OnlyEditsEntangle
  <1>. SUFFICES ASSUME ThreadInv, OneEditor, NEW S \in SUBSET Clients, S # {},
                       \A c \in S : \E d \in S : WaitsFor(c, d)
                PROVE  \E c, d \in S : Entangled(c, d)
    BY DEF OnlyEditsEntangle
  <1>1. PICK c \in S : TRUE
    OBVIOUS
  <1>2. PICK d \in S : WaitsFor(c, d)
    BY <1>1
  <1>3. PICK e \in S : WaitsFor(d, e)
    BY <1>2
  <1>4. PICK f \in S : WaitsFor(e, f)
    BY <1>3
  <1>5. CASE pc[c] = "notify"
    BY <1>1, <1>2, <1>3, <1>5, Entangles
  <1>6. CASE pc[c] # "notify"
    <2>1. pc[d] = "notify"
      BY <1>2, <1>6 DEF WaitsFor, HoldsTimerLock
    <2>. QED
      BY <1>2, <1>3, <1>4, <2>1, Entangles
  <1>. QED
    BY <1>5, <1>6

(* Deadlocks are of one kind only, OnlyEditsEntangle, for every number of  *)
(* clients, whatever they ask: a client holds m_msgLock of its own while   *)
(* it waits for another lock, which is m_timerLock unless it notifies      *)
(* under that (xvdrclient.c:1250, 1299, 1324 and 1355), and one client at  *)
(* a time does.                                                            *)
THEOREM AlwaysEditsEntangle == Spec => []OnlyEditsEntangle
  <1>1. Init => ThreadInv /\ OneEditor
    <2>1. Init => OneEditor
      BY DEF Init, OneEditor, Threads
    <2>. QED
      BY <2>1, InitThreadInv
  <1>2. ThreadInv /\ OneEditor /\ [Next]_vars => (ThreadInv /\ OneEditor)'
    BY StepKeeps, OneEditorStep
  <1>3. ThreadInv /\ OneEditor => OnlyEditsEntangle
    BY WaitersEntangle
  <1>. QED
    BY <1>1, <1>2, <1>3, PTL DEF Spec

-----------------------------------------------------------------------------
(***************************************************************************)
(* Types, with queue and socket apart.                                     *)
(***************************************************************************)
Msg == [kind : Kinds \cup {"status", "notice"}, n : Nat]

BoxesOK ==
  /\ enabled \in [Clients -> BOOLEAN]
  /\ todo \in [Threads -> Seq(Clients)]
  /\ sure \in [Threads -> BOOLEAN]
  /\ queue \in [Clients -> Seq(Msg)] /\ sent \in [Clients -> Seq(Msg)]
  /\ events \in 0 .. MaxEvents
  /\ \A c \in Clients : Len(asked[c]) <= MaxRequests[c]
  /\ \A c \in Clients : \A i \in 1 .. Len(Stream(c)) :
       Stream(c)[i].n <= MaxRequests[c]

TypeInv == ThreadInv /\ BoxesOK

LEMMA StreamType ==
  ASSUME queue \in [Clients -> Seq(Msg)], sent \in [Clients -> Seq(Msg)],
         NEW c \in Clients
  PROVE  /\ Stream(c) \in Seq(Msg) /\ Len(Stream(c)) \in Nat
         /\ DOMAIN Stream(c) = 1 .. Len(Stream(c))
         /\ \A i \in 1 .. Len(Stream(c)) : Stream(c)[i] \in Msg
<1>1. Stream(c) \in Seq(Msg)
  BY ConcatProperties DEF Stream
<1> QED
  BY <1>1, LenProperties, ElementOfSeq

LEMMA InitStream ==
  Init => \A c \in Clients : Stream(c) = <<>> /\ Len(Stream(c)) = 0
<1> SUFFICES ASSUME Init PROVE \A c \in Clients : Stream(c) = <<>> /\ Len(Stream(c)) = 0
  OBVIOUS
<1>1. \A c \in Clients : Stream(c) = <<>> \o <<>>
  BY DEF Init, Stream
<1>2. <<>> \in Seq(Msg) /\ Len(<<>>) = 0
  BY EmptySeq
<1>3. <<>> \o <<>> = <<>>
  BY <1>2, ConcatEmptySeq
<1> QED
  BY <1>1, <1>2, <1>3

LEMMA InitTypeInv == Init => TypeInv
<1> SUFFICES ASSUME Init PROVE BoxesOK
  BY InitThreadInv DEF TypeInv
<1> USE ClientsAssumption
<1>1. /\ enabled \in [Clients -> BOOLEAN]
      /\ todo \in [Threads -> Seq(Clients)]
      /\ sure \in [Threads -> BOOLEAN]
      /\ queue \in [Clients -> Seq(Msg)] /\ sent \in [Clients -> Seq(Msg)]
      /\ events \in 0 .. MaxEvents
  BY EmptySeq DEF Init
<1>2. \A c \in Clients : Len(asked[c]) <= MaxRequests[c]
  <2>1. \A c \in Clients : asked[c] = <<>> /\ MaxRequests[c] \in Nat
    BY DEF Init
  <2>2. Len(<<>>) = 0
    BY EmptySeq
  <2> QED
    BY <2>1, <2>2
<1>3. \A c \in Clients : Len(Stream(c)) = 0
  BY InitStream
<1> QED
  BY <1>1, <1>2, <1>3 DEF BoxesOK

LEMMA InvImpliesTypeOK == TypeInv => TypeOK
<1> SUFFICES ASSUME TypeInv PROVE TypeOK
  OBVIOUS
<1>1. \A c \in Clients : Stream(c) \in Seq(Messages(c))
  <2> SUFFICES ASSUME NEW c \in Clients PROVE Stream(c) \in Seq(Messages(c))
    OBVIOUS
  <2>1. /\ Stream(c) \in Seq(Msg) /\ Len(Stream(c)) \in Nat
        /\ \A i \in 1 .. Len(Stream(c)) : Stream(c)[i] \in Msg
    BY StreamType DEF TypeInv, BoxesOK
  <2>2. \A i \in 1 .. Len(Stream(c)) : Stream(c)[i] \in Messages(c)
    <3> SUFFICES ASSUME NEW i \in 1 .. Len(Stream(c))
                 PROVE  Stream(c)[i] \in Messages(c)
      OBVIOUS
    <3>1. Stream(c)[i] \in Msg /\ Stream(c)[i].n <= MaxRequests[c]
      BY <2>1 DEF TypeInv, BoxesOK
    <3>2. MaxRequests[c] \in Nat
      BY ClientsAssumption
    <3> QED
      BY <3>1, <3>2 DEF Msg, Messages
  <2>3. Stream(c) \in [1 .. Len(Stream(c)) -> Messages(c)]
    <3>1. Stream(c) \in [1 .. Len(Stream(c)) -> Msg]
      BY <2>1, LenProperties
    <3> QED
      BY <2>2, <3>1
  <2> QED
    BY <2>1, <2>3, SeqDef
<1> QED
  BY <1>1 DEF TypeInv, ThreadInv, BoxesOK, TypeOK

(***************************************************************************)
(* Queueing a message appends it to what its client gets; sending moves a  *)
(* part of the queue and changes nothing of that.                          *)
(***************************************************************************)
LEMMA Queued ==
  ASSUME queue \in [Clients -> Seq(Msg)], sent \in [Clients -> Seq(Msg)],
         NEW c \in Clients, NEW m \in Msg, QueueMessage(c, m), sent' = sent
  PROVE  /\ queue' \in [Clients -> Seq(Msg)]
         /\ Stream(c)' = Append(Stream(c), m)
         /\ \A d \in Clients \ {c} : Stream(d)' = Stream(d)
<1>1. /\ queue'[c] = Append(queue[c], m)
      /\ \A d \in Clients \ {c} : queue'[d] = queue[d]
  BY DEF QueueMessage
<1>2. Append(queue[c], m) \in Seq(Msg) /\ Append(queue[c], m) = queue[c] \o <<m>>
  BY AppendProperties, AppendIsConcat
<1>3. queue' \in [Clients -> Seq(Msg)]
  BY <1>2 DEF QueueMessage
<1>4. sent[c] \o (queue[c] \o <<m>>) = (sent[c] \o queue[c]) \o <<m>>
  <2>1. sent[c] \in Seq(Msg) /\ queue[c] \in Seq(Msg) /\ <<m>> \in Seq(Msg)
    OBVIOUS
  <2> QED
    BY <2>1, ConcatAssociative
<1>5. Append(Stream(c), m) = Stream(c) \o <<m>>
  BY StreamType, AppendIsConcat
<1> QED
  BY <1>1, <1>2, <1>3, <1>4, <1>5 DEF Stream

LEMMA Regrouped ==
  ASSUME NEW s \in Seq(Msg), NEW t \in Seq(Msg), NEW u \in Seq(Msg)
  PROVE  (s \o t) \o u = s \o (t \o u)
BY SMTT(30)

LEMMA SentKeepsStream ==
  ASSUME queue \in [Clients -> Seq(Msg)], sent \in [Clients -> Seq(Msg)],
         NEW c \in Clients, SendPending(c)
  PROVE  /\ queue' \in [Clients -> Seq(Msg)] /\ sent' \in [Clients -> Seq(Msg)]
         /\ \A d \in Clients : Stream(d)' = Stream(d)
<1>1. PICK k \in 0 .. Len(queue[c]) :
        /\ sent'  = [sent  EXCEPT ![c] = @ \o SubSeq(queue[c], 1, k)]
        /\ queue' = [queue EXCEPT ![c] = SubSeq(@, k + 1, Len(@))]
  BY DEF SendPending
<1> DEFINE q == queue[c]
           a == SubSeq(q, 1, k)
           b == SubSeq(q, k + 1, Len(q))
<1>2. q \in Seq(Msg) /\ Len(q) \in Nat /\ sent[c] \in Seq(Msg)
  BY LenProperties
<1>3. a \in Seq(Msg) /\ b \in Seq(Msg)
  <2> HIDE DEF q
  <2>1. \A i \in 1 .. k : i \in 1 .. Len(q)
    BY <1>1, <1>2 DEF q
  <2>2. \A i \in (k + 1) .. Len(q) : i \in 1 .. Len(q)
    BY <1>1, <1>2 DEF q
  <2>3. /\ \A i \in 1 .. k : q[i] \in Msg
        /\ \A i \in (k + 1) .. Len(q) : q[i] \in Msg
    BY <1>2, <2>1, <2>2, ElementOfSeq
  <2> QED
    BY <1>2, <2>3, SubSeqProperties
<1>4. a \o b = q
  <2> HIDE DEF q
  <2>1. 1 \in 1 .. Len(q) + 1 /\ k \in 1 - 1 .. Len(q) /\ Len(q) \in k .. Len(q)
    BY <1>1, <1>2 DEF q
  <2>2. a \o b = SubSeq(q, 1, Len(q))
    BY <1>2, <2>1, ConcatAdjacentSubSeq
  <2> QED
    BY <1>2, <2>2, SubSeqFull
<1>5. sent'[c] = sent[c] \o a /\ queue'[c] = b
  BY <1>1
<1>6. \A d \in Clients \ {c} : sent'[d] = sent[d] /\ queue'[d] = queue[d]
  BY <1>1
<1> HIDE DEF q, a, b
<1>7. (sent[c] \o a) \o b = sent[c] \o (a \o b)
  BY <1>2, <1>3, Regrouped
<1>8. Stream(c)' = Stream(c)
  BY <1>4, <1>5, <1>7 DEF Stream, q
<1>9. sent[c] \o a \in Seq(Msg)
  BY <1>2, <1>3, ConcatProperties
<1>10. queue' \in [Clients -> Seq(Msg)] /\ sent' \in [Clients -> Seq(Msg)]
  BY <1>1, <1>3, <1>9 DEF a, b, q
<1> QED
  BY <1>6, <1>8, <1>10 DEF Stream

(***************************************************************************)
(* What a step may do to one client: to process a request without          *)
(* m_timerLock, to answer, to read the next one; or nothing to its request *)
(* and its flag, whether or not a message is queued for it.  A status      *)
(* message is queued only while the flag is set and no answer is pending.  *)
(***************************************************************************)
Undisturbed(c) ==
  /\ asked'[c] = asked[c] /\ enabled'[c] = enabled[c]
  /\ pc'[c] \in Busy <=> pc[c] \in Busy
  /\ pc[c] = "answer" => pc'[c] = "answer"
  /\ pc'[c] = "answer" =>
       pc[c] = "answer" \/ Request(c) \notin {"enable", "disable"}
  /\ \/ Stream(c)' = Stream(c)
     \/ Stream(c)' = Append(Stream(c), Notice)
     \/ /\ Stream(c)' = Append(Stream(c), StatusChange)
        /\ enabled[c] /\ pc[c] # "answer"

Effect(c) ==
  \/ /\ Answer(c)
     /\ Stream(c)' = IF Request(c) # "silent" THEN Append(Stream(c), Response(c))
                                              ELSE Stream(c)
  \/ HandlePlain(c) /\ Stream(c)' = Stream(c)
  \/ Read(c) /\ Stream(c)' = Stream(c)
  \/ Undisturbed(c)

\* A step that queues nothing.
LEMMA StreamsKept ==
  ASSUME UNCHANGED <<queue, sent>>
  PROVE  \A c \in Clients : Stream(c)' = Stream(c)
BY DEF Stream

\* A step of another thread that leaves request, flag and messages alone.
LEMMA Elsewhere ==
  ASSUME TypeInv, NEW d \in Clients,
         pc'[d] = pc[d], asked'[d] = asked[d], enabled'[d] = enabled[d],
         Stream(d)' = Stream(d)
  PROVE  Effect(d)
BY DEF Effect, Undisturbed

LEMMA StepEffect ==
  ASSUME TypeInv, [Next]_vars
  PROVE  /\ queue' \in [Clients -> Seq(Msg)] /\ sent' \in [Clients -> Seq(Msg)]
         /\ \A c \in Clients : Effect(c)
<1> DEFINE Goal == /\ queue' \in [Clients -> Seq(Msg)]
                   /\ sent' \in [Clients -> Seq(Msg)]
                   /\ \A c \in Clients : Effect(c)
<1>t. /\ pc \in [Threads -> Places] /\ asked \in [Clients -> Seq(Kinds)]
      /\ enabled \in [Clients -> BOOLEAN]
      /\ queue \in [Clients -> Seq(Msg)] /\ sent \in [Clients -> Seq(Msg)]
      /\ Clients \subseteq Threads
  BY DEF TypeInv, ThreadInv, BoxesOK, Threads
<1>m. Notice \in Msg /\ StatusChange \in Msg
  BY DEF Notice, StatusChange, Msg
<1>0. ASSUME UNCHANGED vars PROVE Goal
  BY <1>0, <1>t, StreamsKept, Elsewhere DEF vars
<1>1. ASSUME NEW c \in Clients, ClientStep(c) \/ StatusMessage(c) PROVE Goal
  <2>0. c \in Threads
    BY <1>t
  <2>1. CASE SendPending(c)
    <3>1. /\ UNCHANGED <<asked, enabled>> /\ pc' = [pc EXCEPT ![c] = "read"]
          /\ pc[c] = "send"
      BY <2>1 DEF SendPending
    <3>2. /\ queue' \in [Clients -> Seq(Msg)] /\ sent' \in [Clients -> Seq(Msg)]
          /\ \A d \in Clients : Stream(d)' = Stream(d)
      BY <1>t, <2>1, SentKeepsStream
    <3>3. \A d \in Clients : Undisturbed(d)
      BY <1>t, <3>1, <3>2 DEF Undisturbed, Busy
    <3> QED
      BY <3>2, <3>3 DEF Effect
  <2>2. CASE Read(c)
    <3>1. UNCHANGED <<queue, sent, enabled>> /\ pc' = [pc EXCEPT ![c] = "enter"]
      BY <2>2 DEF Read
    <3>2. \A d \in Clients \ {c} : asked'[d] = asked[d] /\ pc'[d] = pc[d]
      BY <1>t, <2>2 DEF Read
    <3> QED
      BY <1>t, <2>2, <3>1, <3>2, StreamsKept, Elsewhere DEF Effect
  <2>3. CASE ReadNothing(c)
    <3>1. /\ UNCHANGED <<asked, enabled, sent>>
          /\ pc' = [pc EXCEPT ![c] = "send"] /\ pc[c] = "read"
          /\ queue' = queue \/ QueueMessage(c, Notice)
      BY <2>3 DEF ReadNothing
    <3>2. /\ queue' \in [Clients -> Seq(Msg)]
          /\ Stream(c)' = Stream(c) \/ Stream(c)' = Append(Stream(c), Notice)
          /\ \A d \in Clients \ {c} : Stream(d)' = Stream(d)
      BY <1>t, <1>m, <3>1, Queued, StreamsKept
    <3>3. \A d \in Clients : Undisturbed(d)
      BY <1>t, <3>1, <3>2 DEF Undisturbed, Busy
    <3> QED
      BY <1>t, <3>1, <3>2, <3>3 DEF Effect
  <2>4. CASE ReadClosed(c)
    <3>1. /\ UNCHANGED <<asked, enabled, sent, queue>>
          /\ pc' = [pc EXCEPT ![c] = "stopped"] /\ pc[c] = "read"
      BY <2>4 DEF ReadClosed
    <3>2. \A d \in Clients : Undisturbed(d)
      BY <1>t, <3>1, StreamsKept DEF Undisturbed, Busy
    <3> QED
      BY <1>t, <3>1, <3>2 DEF Effect
  <2>5. CASE Enter(c)
    <3>1. /\ UNCHANGED <<asked, enabled, sent, queue>>
          /\ pc' = [pc EXCEPT ![c] = "handle"] /\ pc[c] = "enter"
      BY <2>5 DEF Enter
    <3>2. \A d \in Clients : Undisturbed(d)
      BY <1>t, <3>1, StreamsKept DEF Undisturbed, Busy
    <3> QED
      BY <1>t, <3>1, <3>2 DEF Effect
  <2>6. CASE HandlePlain(c)
    <3>1. UNCHANGED <<queue, sent, asked>> /\ pc' = [pc EXCEPT ![c] = "answer"]
      BY <2>6 DEF HandlePlain
    <3>2. \A d \in Clients \ {c} : enabled'[d] = enabled[d] /\ pc'[d] = pc[d]
      BY <1>t, <2>6 DEF HandlePlain
    <3> QED
      BY <1>t, <2>6, <3>1, <3>2, StreamsKept, Elsewhere DEF Effect
  <2>7. CASE HandleTimers(c)
    <3>1. /\ UNCHANGED <<asked, enabled, sent>>
          /\ pc' = [pc EXCEPT ![c] = "answer"] /\ pc[c] = "handle"
          /\ queue' = queue \/ (enabled[c] /\ QueueMessage(c, StatusChange))
          /\ Request(c) \notin {"enable", "disable"}
      BY <2>7 DEF HandleTimers, NeedsTimerLock
    <3>2. /\ queue' \in [Clients -> Seq(Msg)]
          /\ \/ Stream(c)' = Stream(c)
             \/ enabled[c] /\ Stream(c)' = Append(Stream(c), StatusChange)
          /\ \A d \in Clients \ {c} : Stream(d)' = Stream(d)
      BY <1>t, <1>m, <3>1, Queued, StreamsKept
    <3>3. \A d \in Clients : Undisturbed(d)
      BY <1>t, <3>1, <3>2 DEF Undisturbed, Busy
    <3> QED
      BY <1>t, <3>1, <3>2, <3>3 DEF Effect
  <2>8. CASE HandleEdit(c)
    <3>1. /\ UNCHANGED <<asked, enabled, sent, queue>>
          /\ pc' = [pc EXCEPT ![c] = "notify"] /\ pc[c] = "handle"
      BY <2>8 DEF HandleEdit
    <3>2. \A d \in Clients : Undisturbed(d)
      BY <1>t, <3>1, StreamsKept DEF Undisturbed, Busy
    <3> QED
      BY <1>t, <3>1, <3>2 DEF Effect
  <2>9. CASE Answer(c)
    <3>1. /\ UNCHANGED <<asked, enabled, sent>>
          /\ pc' = [pc EXCEPT ![c] = "send"] /\ pc[c] = "answer"
          /\ IF Request(c) # "silent" THEN QueueMessage(c, Response(c))
                                      ELSE UNCHANGED queue
      BY <2>9 DEF Answer
    <3>2. Response(c) \in Msg
      <4>1. asked[c] \in Seq(Kinds) /\ asked[c] # <<>>
        BY <1>t, <3>1 DEF TypeInv, ThreadInv, Busy
      <4>2. Len(asked[c]) \in Nat /\ Len(asked[c]) \in 1 .. Len(asked[c])
        BY <4>1, EmptySeq, LenProperties
      <4>3. asked[c][Len(asked[c])] \in Kinds
        BY <4>1, <4>2, ElementOfSeq
      <4> QED
        BY <4>2, <4>3 DEF Response, Request, Msg
    <3>3. /\ queue' \in [Clients -> Seq(Msg)]
          /\ Stream(c)' = IF Request(c) # "silent"
                            THEN Append(Stream(c), Response(c)) ELSE Stream(c)
          /\ \A d \in Clients \ {c} : Stream(d)' = Stream(d)
      BY <1>t, <3>1, <3>2, Queued, StreamsKept
    <3>4. \A d \in Clients \ {c} : pc'[d] = pc[d]
      BY <1>t, <3>1
    <3> QED
      BY <1>t, <2>9, <3>1, <3>3, <3>4, Elsewhere DEF Effect
  <2>10. CASE StatusMessage(c)
    <3>1. UNCHANGED <<pc, asked, enabled, sent>> /\ QueueMessage(c, Notice)
      BY <2>10 DEF StatusMessage
    <3>2. /\ queue' \in [Clients -> Seq(Msg)]
          /\ Stream(c)' = Append(Stream(c), Notice)
          /\ \A d \in Clients \ {c} : Stream(d)' = Stream(d)
      BY <1>t, <1>m, <3>1, Queued
    <3>3. \A d \in Clients : Undisturbed(d)
      BY <1>t, <3>1, <3>2 DEF Undisturbed, Busy
    <3> QED
      BY <1>t, <3>1, <3>2, <3>3 DEF Effect
  <2> QED
    BY <1>1, <2>1, <2>2, <2>3, <2>4, <2>5, <2>6, <2>7, <2>8, <2>9, <2>10
       DEF ClientStep
<1>2. ASSUME NEW t \in Threads, Notify(t) PROVE Goal
  <2>1. PICK c \in Clients : c = Head(todo[t])
    <3>1. todo[t] \in Seq(Clients) /\ todo[t] # <<>>
      BY <1>2 DEF Notify, TypeInv, BoxesOK
    <3> QED
      BY <3>1, HeadTailProperties
  <2>2. /\ UNCHANGED <<pc, asked, enabled, sent>>
        /\ queue' = queue \/ (enabled[c] /\ QueueMessage(c, StatusChange))
        /\ pc[t] = "notify" /\ (c = t \/ ~HoldsMsgLock(c))
    BY <1>2, <2>1 DEF Notify
  <2>3. pc[c] # "answer"
    BY <2>2 DEF HoldsMsgLock
  <2>4. /\ queue' \in [Clients -> Seq(Msg)]
        /\ \/ Stream(c)' = Stream(c)
           \/ enabled[c] /\ Stream(c)' = Append(Stream(c), StatusChange)
        /\ \A d \in Clients \ {c} : Stream(d)' = Stream(d)
    <3>1. CASE queue' = queue
      BY <1>t, <2>2, <3>1, StreamsKept
    <3>2. CASE enabled[c] /\ QueueMessage(c, StatusChange)
      <4>1. sent' = sent
        BY <2>2
      <4> QED
        BY <1>t, <1>m, <2>1, <3>2, <4>1, Queued
    <3> QED
      BY <2>2, <3>1, <3>2
  <2>5. Undisturbed(c)
    <3>1. asked'[c] = asked[c] /\ enabled'[c] = enabled[c] /\ pc'[c] = pc[c]
      BY <2>2
    <3> QED
      BY <2>3, <2>4, <3>1 DEF Undisturbed
  <2>6. \A d \in Clients \ {c} : Undisturbed(d)
    <3> SUFFICES ASSUME NEW d \in Clients \ {c} PROVE Undisturbed(d)
      OBVIOUS
    <3>1. asked'[d] = asked[d] /\ enabled'[d] = enabled[d] /\ pc'[d] = pc[d]
      BY <2>2
    <3> QED
      BY <2>4, <3>1 DEF Undisturbed
  <2> QED
    BY <1>t, <2>1, <2>2, <2>4, <2>5, <2>6 DEF Effect
<1>3. ASSUME NEW t \in Threads, NotifyEnd(t) PROVE Goal
  <2>1. /\ UNCHANGED <<asked, enabled, queue, sent>> /\ pc[t] = "notify"
        /\ pc' = [pc EXCEPT ![t] = IF t \in Clients THEN "answer" ELSE "idle"]
    BY <1>3 DEF NotifyEnd
  <2>2. t \in Clients => Request(t) \notin {"enable", "disable"}
    BY <2>1 DEF TypeInv, ThreadInv
  <2>3. \A d \in Clients : Undisturbed(d)
    BY <1>t, <2>1, <2>2, StreamsKept DEF Undisturbed, Busy
  <2> QED
    BY <1>t, <2>1, <2>3 DEF Effect
<1>4. ASSUME NEW t \in {"vdr", "server"}, Event(t) PROVE Goal
  <2>1. /\ UNCHANGED <<asked, enabled, queue, sent>>
        /\ pc' = [pc EXCEPT ![t] = "notify"] /\ t \notin Clients /\ t \in Threads
    BY <1>4, ClientsAssumption DEF Event, Threads
  <2>2. \A d \in Clients : pc'[d] = pc[d]
    BY <1>t, <2>1
  <2> QED
    BY <1>t, <2>1, <2>2, StreamsKept, Elsewhere
<1> HIDE DEF Goal
<1>5. Goal
  BY <1>0, <1>1, <1>2, <1>3, <1>4 DEF Next, Terminated
<1> QED
  BY <1>5 DEF Goal

(***************************************************************************)
(* The types hold after each step.                                         *)
(***************************************************************************)
LEMMA StepTypes ==
  ASSUME TypeInv, [Next]_vars
  PROVE  /\ enabled' \in [Clients -> BOOLEAN]
         /\ todo' \in [Threads -> Seq(Clients)]
         /\ sure' \in [Threads -> BOOLEAN]
         /\ events' \in 0 .. MaxEvents
         /\ \A c \in Clients : Len(asked'[c]) <= MaxRequests[c]
<1> DEFINE Goal == /\ enabled' \in [Clients -> BOOLEAN]
                   /\ todo' \in [Threads -> Seq(Clients)]
                   /\ sure' \in [Threads -> BOOLEAN]
                   /\ events' \in 0 .. MaxEvents
                   /\ \A c \in Clients : Len(asked'[c]) <= MaxRequests[c]
<1>t. /\ enabled \in [Clients -> BOOLEAN]
      /\ todo \in [Threads -> Seq(Clients)]
      /\ sure \in [Threads -> BOOLEAN]
      /\ events \in 0 .. MaxEvents
      /\ \A c \in Clients : Len(asked[c]) <= MaxRequests[c]
      /\ Clients \subseteq Threads
      /\ asked \in [Clients -> Seq(Kinds)]
  BY DEF TypeInv, ThreadInv, BoxesOK, Threads
<1>a. /\ Listeners \in Seq(Clients) /\ Listeners \o Listeners \in Seq(Clients)
      /\ MaxEvents \in Nat /\ MaxRequests \in [Clients -> Nat]
      /\ Requests \in [Clients -> SUBSET Kinds]
  BY ClientsAssumption, ConcatProperties
<1>e. events < MaxEvents => events + 1 \in 0 .. MaxEvents
  BY <1>t, <1>a
<1>0. ASSUME UNCHANGED vars PROVE Goal
  BY <1>0, <1>t DEF vars
<1>1. ASSUME NEW c \in Clients, ClientStep(c) \/ StatusMessage(c) PROVE Goal
  <2>1. CASE SendPending(c)
    BY <1>t, <2>1 DEF SendPending
  <2>2. CASE Read(c)
    <3>1. PICK kind \in Requests[c] :
            asked' = [asked EXCEPT ![c] = Append(@, kind)]
      BY <2>2 DEF Read
    <3>2. /\ kind \in Kinds /\ asked[c] \in Seq(Kinds)
          /\ Len(asked[c]) \in Nat /\ MaxRequests[c] \in Nat
          /\ Len(asked[c]) < MaxRequests[c]
      BY <1>t, <1>a, <2>2 DEF Read
    <3>3. Len(Append(asked[c], kind)) = Len(asked[c]) + 1
      BY <3>2, AppendProperties
    <3>4. asked'[c] = Append(asked[c], kind)
      BY <1>t, <3>1
    <3>5. Len(asked'[c]) <= MaxRequests[c]
      BY <3>2, <3>3, <3>4
    <3>6. \A d \in Clients \ {c} : asked'[d] = asked[d]
      BY <1>t, <3>1
    <3> QED
      BY <1>t, <2>2, <3>5, <3>6 DEF Read
  <2>3. CASE ReadNothing(c)
    BY <1>t, <1>e, <2>3 DEF ReadNothing
  <2>4. CASE ReadClosed(c)
    BY <1>t, <2>4 DEF ReadClosed
  <2>5. CASE Enter(c)
    BY <1>t, <2>5 DEF Enter
  <2>6. CASE HandlePlain(c)
    BY <1>t, <2>6 DEF HandlePlain
  <2>7. CASE HandleTimers(c)
    BY <1>t, <2>7 DEF HandleTimers
  <2>8. CASE HandleEdit(c)
    <3>1. PICK calls \in {Listeners, Listeners \o Listeners} :
            todo' = [todo EXCEPT ![c] = calls]
      BY <2>8 DEF HandleEdit
    <3>2. calls \in Seq(Clients)
      BY <1>a
    <3>3. todo' \in [Threads -> Seq(Clients)]
      BY <1>t, <3>1, <3>2
    <3>4. sure' = [sure EXCEPT ![c] = TRUE] /\ UNCHANGED <<asked, enabled, events>>
      BY <2>8 DEF HandleEdit
    <3> QED
      BY <1>t, <3>3, <3>4
  <2>9. CASE Answer(c)
    BY <1>t, <2>9 DEF Answer
  <2>10. CASE StatusMessage(c)
    BY <1>t, <1>e, <2>10 DEF StatusMessage
  <2> QED
    BY <1>1, <2>1, <2>2, <2>3, <2>4, <2>5, <2>6, <2>7, <2>8, <2>9, <2>10
       DEF ClientStep
<1>2. ASSUME NEW t \in Threads, Notify(t) PROVE Goal
  <2>1. Tail(todo[t]) \in Seq(Clients)
    BY <1>t, <1>2, HeadTailProperties DEF Notify
  <2> QED
    BY <1>t, <1>2, <2>1 DEF Notify
<1>3. ASSUME NEW t \in Threads, NotifyEnd(t) PROVE Goal
  BY <1>t, <1>3 DEF NotifyEnd
<1>4. ASSUME NEW t \in {"vdr", "server"}, Event(t) PROVE Goal
  BY <1>t, <1>a, <1>e, <1>4 DEF Event, Threads
<1>5. ASSUME Terminated PROVE Goal
  BY <1>0, <1>5 DEF Terminated
<1> HIDE DEF Goal
<1>6. Goal
  BY <1>0, <1>1, <1>2, <1>3, <1>4, <1>5 DEF Next
<1> QED
  BY <1>6 DEF Goal

\* A client gets nothing new, or one message more.
LEMMA OneMore ==
  ASSUME TypeInv, NEW c \in Clients, Effect(c)
  PROVE  \/ Stream(c)' = Stream(c)
         \/ \E m \in Msg : /\ m.n <= MaxRequests[c]
                           /\ Stream(c)' = Append(Stream(c), m)
<1>1. MaxRequests[c] \in Nat /\ Len(asked[c]) <= MaxRequests[c]
  BY ClientsAssumption DEF TypeInv, BoxesOK
<1>2. /\ Notice \in Msg /\ StatusChange \in Msg
      /\ Notice.n <= MaxRequests[c] /\ StatusChange.n <= MaxRequests[c]
  BY <1>1 DEF Notice, StatusChange, Msg
<1>3. ASSUME pc[c] = "answer"
      PROVE  Response(c) \in Msg /\ Response(c).n <= MaxRequests[c]
  <2>1. asked[c] \in Seq(Kinds) /\ asked[c] # <<>>
    BY <1>3 DEF TypeInv, ThreadInv, Busy
  <2>2. Len(asked[c]) \in Nat /\ Len(asked[c]) \in 1 .. Len(asked[c])
    BY <2>1, EmptySeq, LenProperties
  <2>3. asked[c][Len(asked[c])] \in Kinds
    BY <2>1, <2>2, ElementOfSeq
  <2> QED
    BY <1>1, <2>2, <2>3 DEF Response, Request, Msg
<1>4. CASE Answer(c) /\ Stream(c)' = IF Request(c) # "silent"
                                       THEN Append(Stream(c), Response(c))
                                       ELSE Stream(c)
  BY <1>3, <1>4 DEF Answer
<1>5. CASE Undisturbed(c)
  BY <1>2, <1>5 DEF Undisturbed
<1> QED
  BY <1>4, <1>5 DEF Effect

LEMMA TypeStep == TypeInv /\ [Next]_vars => TypeInv'
<1> SUFFICES ASSUME TypeInv, [Next]_vars PROVE TypeInv'
  OBVIOUS
<1>1. ThreadInv'
  BY StepKeeps DEF TypeInv
<1>2. /\ queue' \in [Clients -> Seq(Msg)] /\ sent' \in [Clients -> Seq(Msg)]
      /\ \A c \in Clients : Effect(c)
  BY StepEffect
<1>3. \A c \in Clients : \A i \in 1 .. Len(Stream(c)') :
        Stream(c)'[i].n <= MaxRequests[c]
  <2> SUFFICES ASSUME NEW c \in Clients, NEW i \in 1 .. Len(Stream(c)')
               PROVE  Stream(c)'[i].n <= MaxRequests[c]
    OBVIOUS
  <2>1. /\ Stream(c) \in Seq(Msg) /\ Len(Stream(c)) \in Nat
        /\ \A j \in 1 .. Len(Stream(c)) : Stream(c)[j].n <= MaxRequests[c]
    BY StreamType DEF TypeInv, BoxesOK
  <2>2. CASE Stream(c)' = Stream(c)
    BY <2>1, <2>2
  <2>3. ASSUME NEW m \in Msg, m.n <= MaxRequests[c],
               Stream(c)' = Append(Stream(c), m)
        PROVE  Stream(c)'[i].n <= MaxRequests[c]
    <3>1. /\ Len(Stream(c)') = Len(Stream(c)) + 1
          /\ Stream(c)'[Len(Stream(c)) + 1] = m
          /\ \A j \in 1 .. Len(Stream(c)) : Stream(c)'[j] = Stream(c)[j]
      BY <2>1, <2>3, AppendProperties
    <3>2. i \in 1 .. Len(Stream(c)) \/ i = Len(Stream(c)) + 1
      BY <2>1, <3>1
    <3> QED
      BY <2>1, <2>3, <3>1, <3>2
  <2> QED
    BY <1>2, <2>2, <2>3, OneMore
<1>4. BoxesOK'
  BY <1>2, <1>3, StepTypes DEF BoxesOK
<1> QED
  BY <1>1, <1>4 DEF TypeInv

(* Every step keeps the types, for every number of clients and requests,   *)
(* and a message carries the number of a request or none.                  *)
THEOREM TypeCorrect == Spec => []TypeOK
<1>1. Init => TypeInv
  BY InitTypeInv
<1>2. TypeInv /\ [Next]_vars => TypeInv'
  BY TypeStep
<1>3. TypeInv => TypeOK
  BY InvImpliesTypeOK
<1> QED
  BY <1>1, <1>2, <1>3, PTL DEF Spec

-----------------------------------------------------------------------------
(***************************************************************************)
(* Status messages.  By its flag a client has been told that the status    *)
(* interface is enabled, unless that answer is the one that is due next.   *)
(***************************************************************************)
\* The last thing a client that got s has learnt is that it is enabled.
Told(s) == \E i \in 1 .. Len(s) : /\ s[i].kind = "enable"
                                  /\ \A k \in i .. Len(s) : s[k].kind # "disable"

\* Every status message of s has come while the client knew so.
Orderly(s) ==
  \A j \in 1 .. Len(s) : s[j].kind = "status" =>
    \E i \in 1 .. (j - 1) : /\ s[i].kind = "enable"
                            /\ \A k \in i .. (j - 1) : s[k].kind # "disable"

FlagInv ==
  \A c \in Clients :
    /\ enabled[c] /\ ~(pc[c] = "answer" /\ Request(c) = "enable")
         => Told(Stream(c))
    /\ pc[c] = "answer" /\ Request(c) = "disable" => ~enabled[c]
    /\ Orderly(Stream(c))

\* What a message more does to a sequence of them.
LEMMA Longer ==
  ASSUME NEW s \in Seq(Msg), NEW m \in Msg
  PROVE  /\ Append(s, m) \in Seq(Msg)
         /\ Len(s) \in Nat /\ Len(Append(s, m)) = Len(s) + 1
         /\ Append(s, m)[Len(s) + 1] = m
         /\ \A i \in 1 .. Len(s) : Append(s, m)[i] = s[i]
BY AppendProperties, LenProperties

LEMMA StaysTold ==
  ASSUME NEW s \in Seq(Msg), NEW m \in Msg, m.kind # "disable",
         Told(s) \/ m.kind = "enable"
  PROVE  Told(Append(s, m))
<1> DEFINE t == Append(s, m)
<1>1. /\ Len(s) \in Nat /\ Len(t) = Len(s) + 1 /\ t[Len(s) + 1] = m
      /\ \A i \in 1 .. Len(s) : t[i] = s[i]
  BY Longer
<1> HIDE DEF t
<1>2. CASE m.kind = "enable"
  <2>1. Len(t) \in 1 .. Len(t) /\ \A k \in Len(t) .. Len(t) : k = Len(t)
    BY <1>1
  <2> QED
    BY <1>1, <1>2, <2>1 DEF Told, t
<1>3. CASE Told(s)
  <2>1. PICK i \in 1 .. Len(s) : /\ s[i].kind = "enable"
                                 /\ \A k \in i .. Len(s) : s[k].kind # "disable"
    BY <1>3 DEF Told
  <2>2. i \in 1 .. Len(t) /\ t[i].kind = "enable"
    BY <1>1, <2>1
  <2>3. \A k \in i .. Len(t) : t[k].kind # "disable"
    <3> SUFFICES ASSUME NEW k \in i .. Len(t) PROVE t[k].kind # "disable"
      OBVIOUS
    <3>1. k = Len(s) + 1 \/ (k \in i .. Len(s) /\ k \in 1 .. Len(s))
      BY <1>1
    <3> QED
      BY <1>1, <2>1, <3>1
  <2> QED
    BY <2>2, <2>3 DEF Told, t
<1> QED
  BY <1>2, <1>3

LEMMA StaysOrderly ==
  ASSUME NEW s \in Seq(Msg), NEW m \in Msg, Orderly(s),
         m.kind = "status" => Told(s)
  PROVE  Orderly(Append(s, m))
<1> DEFINE t == Append(s, m)
<1>1. /\ Len(s) \in Nat /\ Len(t) = Len(s) + 1 /\ t[Len(s) + 1] = m
      /\ \A i \in 1 .. Len(s) : t[i] = s[i]
  BY Longer
<1> HIDE DEF t
<1> SUFFICES ASSUME NEW j \in 1 .. Len(t), t[j].kind = "status"
             PROVE  \E i \in 1 .. (j - 1) :
                      /\ t[i].kind = "enable"
                      /\ \A k \in i .. (j - 1) : t[k].kind # "disable"
  BY DEF Orderly, t
<1>2. PICK i \in 1 .. (j - 1) : /\ s[i].kind = "enable"
                                /\ \A k \in i .. (j - 1) : s[k].kind # "disable"
  <2>1. CASE j \in 1 .. Len(s)
    BY <1>1, <2>1 DEF Orderly
  <2>2. CASE j = Len(s) + 1
    <3>1. Told(s) /\ j - 1 = Len(s)
      BY <1>1, <2>2
    <3> QED
      BY <3>1 DEF Told
  <2> QED
    BY <1>1, <2>1, <2>2
<1>3. \A k \in i .. (j - 1) : k \in 1 .. Len(s)
  BY <1>1
<1>4. i \in i .. (j - 1)
  OBVIOUS
<1> QED
  BY <1>1, <1>2, <1>3, <1>4

LEMMA FlagStep ==
  ASSUME TypeInv, FlagInv, [Next]_vars
  PROVE  FlagInv'
<1> SUFFICES ASSUME NEW c \in Clients
             PROVE  /\ enabled'[c] /\ ~(pc'[c] = "answer" /\ Request(c)' = "enable")
                         => Told(Stream(c)')
                    /\ pc'[c] = "answer" /\ Request(c)' = "disable" => ~enabled'[c]
                    /\ Orderly(Stream(c)')
  BY DEF FlagInv
<1>1. Effect(c)
  BY StepEffect
<1>2. /\ Stream(c) \in Seq(Msg) /\ c \in Threads
      /\ pc \in [Threads -> Places] /\ enabled \in [Clients -> BOOLEAN]
  BY StreamType DEF TypeInv, ThreadInv, BoxesOK, Threads
<1>3. /\ enabled[c] /\ ~(pc[c] = "answer" /\ Request(c) = "enable")
           => Told(Stream(c))
      /\ pc[c] = "answer" /\ Request(c) = "disable" => ~enabled[c]
      /\ Orderly(Stream(c))
  BY DEF FlagInv
<1>4. CASE /\ Answer(c)
           /\ Stream(c)' = IF Request(c) # "silent"
                             THEN Append(Stream(c), Response(c)) ELSE Stream(c)
  <2>1. pc'[c] = "send" /\ pc[c] = "answer" /\ enabled'[c] = enabled[c]
    BY <1>2, <1>4 DEF Answer
  <2>2. CASE Request(c) = "silent"
    BY <1>3, <1>4, <2>1, <2>2
  <2>3. CASE Request(c) # "silent"
    <3>1. Response(c) \in Msg /\ Response(c).kind = Request(c)
      <4>1. asked[c] \in Seq(Kinds) /\ asked[c] # <<>>
        BY <2>1 DEF TypeInv, ThreadInv, Busy
      <4>2. Len(asked[c]) \in Nat /\ Len(asked[c]) \in 1 .. Len(asked[c])
        BY <4>1, EmptySeq, LenProperties
      <4>3. asked[c][Len(asked[c])] \in Kinds
        BY <4>1, <4>2, ElementOfSeq
      <4> QED
        BY <4>2, <4>3 DEF Response, Request, Msg
    <3>2. Request(c) # "status"
      <4>1. Request(c) \in Requests[c] /\ Requests[c] \subseteq Kinds
        BY <2>1, ClientsAssumption DEF TypeInv, ThreadInv, Busy
      <4> QED
        BY <4>1 DEF Kinds
    <3>3. Orderly(Append(Stream(c), Response(c)))
      BY <1>2, <1>3, <3>1, <3>2, StaysOrderly
    <3>4. enabled[c] => Told(Append(Stream(c), Response(c)))
      BY <1>2, <1>3, <2>1, <3>1, StaysTold
    <3> QED
      BY <1>4, <2>1, <2>3, <3>3, <3>4
  <2> QED
    BY <2>2, <2>3
<1>5. CASE HandlePlain(c) /\ Stream(c)' = Stream(c)
  <2>1. /\ pc[c] = "handle" /\ pc'[c] = "answer" /\ Request(c)' = Request(c)
        /\ enabled'[c] = IF Request(c) \in {"enable", "disable"}
                           THEN Request(c) = "enable" ELSE enabled[c]
    BY <1>2, <1>5 DEF HandlePlain, Request
  <2> QED
    BY <1>3, <1>5, <2>1
<1>6. CASE Read(c) /\ Stream(c)' = Stream(c)
  <2>1. pc[c] = "read" /\ pc'[c] = "enter" /\ enabled'[c] = enabled[c]
    BY <1>2, <1>6 DEF Read
  <2> QED
    BY <1>3, <1>6, <2>1
<1>7. CASE Undisturbed(c)
  <2>1. /\ Request(c)' = Request(c) /\ enabled'[c] = enabled[c]
        /\ pc[c] = "answer" => pc'[c] = "answer"
        /\ pc'[c] = "answer" =>
             pc[c] = "answer" \/ Request(c) \notin {"enable", "disable"}
    BY <1>7 DEF Undisturbed, Request
  <2>2. /\ Notice \in Msg /\ Notice.kind = "notice"
        /\ StatusChange \in Msg /\ StatusChange.kind = "status"
    BY DEF Notice, StatusChange, Msg
  <2>3. CASE Stream(c)' = Stream(c)
    BY <1>3, <2>1, <2>3
  <2>4. CASE Stream(c)' = Append(Stream(c), Notice)
    <3>1. Orderly(Stream(c)')
      BY <1>2, <1>3, <2>2, <2>4, StaysOrderly
    <3>2. Told(Stream(c)) => Told(Stream(c)')
      BY <1>2, <2>2, <2>4, StaysTold
    <3> QED
      BY <1>3, <2>1, <3>1, <3>2
  <2>5. CASE /\ Stream(c)' = Append(Stream(c), StatusChange)
             /\ enabled[c] /\ pc[c] # "answer"
    <3>0. Told(Stream(c))
      BY <1>3, <2>5
    <3>1. Orderly(Stream(c)')
      BY <1>2, <1>3, <2>2, <2>5, <3>0, StaysOrderly
    <3>2. Told(Stream(c)')
      BY <1>2, <2>2, <2>5, <3>0, StaysTold
    <3> QED
      BY <1>3, <2>1, <2>5, <3>1, <3>2
  <2> QED
    BY <1>7, <2>3, <2>4, <2>5 DEF Undisturbed
<1> QED
  BY <1>1, <1>4, <1>5, <1>6, <1>7 DEF Effect

(* No status message comes before the client knows that it will get them,  *)
(* nor after it knows that it will not: m_StatusInterfaceEnabled changes   *)
(* under m_msgLock, and the answer is queued before that is released       *)
(* (processRequest), so that no notification comes between the two.        *)
THEOREM AlwaysOnlyWhileEnabled == Spec => []StatusOnlyWhileEnabled
<1>1. Init => TypeInv /\ FlagInv
  <2> SUFFICES ASSUME Init PROVE FlagInv
    BY InitTypeInv
  <2>1. \A c \in Clients : ~enabled[c] /\ Len(Stream(c)) = 0
    BY InitStream DEF Init
  <2> QED
    BY <2>1 DEF FlagInv, Orderly
<1>2. TypeInv /\ FlagInv /\ [Next]_vars => (TypeInv /\ FlagInv)'
  BY TypeStep, FlagStep
<1>3. TypeInv /\ FlagInv => StatusOnlyWhileEnabled
  <2> SUFFICES ASSUME TypeInv, FlagInv, NEW c \in Clients,
                      NEW j \in DOMAIN Stream(c), Stream(c)[j].kind = "status"
               PROVE  \E i \in 1 .. (j - 1) :
                        /\ Stream(c)[i].kind = "enable"
                        /\ \A k \in i .. (j - 1) : Stream(c)[k].kind # "disable"
    BY DEF StatusOnlyWhileEnabled
  <2>1. DOMAIN Stream(c) = 1 .. Len(Stream(c)) /\ Orderly(Stream(c))
    BY StreamType DEF TypeInv, BoxesOK, FlagInv
  <2> QED
    BY <2>1 DEF Orderly
<1> QED
  BY <1>1, <1>2, <1>3, PTL DEF Spec

-----------------------------------------------------------------------------
(***************************************************************************)
(* Responses.  Each request is answered once, when it is finished.         *)
(***************************************************************************)
\* The responses among the messages of s, and whether their numbers rise.
ReplyAt(s) == {i \in 1 .. Len(s) : s[i].kind \in Kinds}
Got(s)     == {s[i] : i \in ReplyAt(s)}
Rising(s)  == \A i, j \in ReplyAt(s) : i < j => s[i].n < s[j].n

\* The responses to the first k requests of a client that asked for r.
Owed(r, k) ==
  {[kind |-> r[n], n |-> n] : n \in {n \in 1 .. k : r[n] # "silent"}}

AnswerInv ==
  \A c \in Clients : /\ Got(Stream(c)) = Owed(asked[c], Finished(c))
                     /\ Rising(Stream(c))

LEMMA OtherMessage ==
  ASSUME NEW s \in Seq(Msg), NEW m \in Msg, m.kind \notin Kinds
  PROVE  /\ Got(Append(s, m)) = Got(s)
         /\ Rising(s) => Rising(Append(s, m))
<1> DEFINE t == Append(s, m)
<1>1. /\ Len(s) \in Nat /\ Len(t) = Len(s) + 1 /\ t[Len(s) + 1] = m
      /\ \A i \in 1 .. Len(s) : t[i] = s[i]
  BY Longer
<1> HIDE DEF t
<1>2. 1 .. Len(t) = (1 .. Len(s)) \cup {Len(s) + 1}
  BY <1>1
<1>3. ReplyAt(t) = ReplyAt(s) /\ \A i \in ReplyAt(t) : t[i] = s[i]
  BY <1>1, <1>2 DEF ReplyAt
<1> QED
  BY <1>3 DEF Got, Rising, t

LEMMA ResponseMessage ==
  ASSUME NEW s \in Seq(Msg), NEW m \in Msg, m.kind \in Kinds,
         \A x \in Got(s) : x.n < m.n, Rising(s)
  PROVE  Got(Append(s, m)) = Got(s) \cup {m} /\ Rising(Append(s, m))
<1> DEFINE t == Append(s, m)
<1>1. /\ Len(s) \in Nat /\ Len(t) = Len(s) + 1 /\ t[Len(s) + 1] = m
      /\ \A i \in 1 .. Len(s) : t[i] = s[i]
  BY Longer
<1> HIDE DEF t
<1>2. 1 .. Len(t) = (1 .. Len(s)) \cup {Len(s) + 1}
  BY <1>1
<1>3. /\ ReplyAt(t) = ReplyAt(s) \cup {Len(s) + 1}
      /\ \A i \in ReplyAt(s) : t[i] = s[i] /\ i \in 1 .. Len(s)
  BY <1>1, <1>2 DEF ReplyAt
<1>4. Got(t) = Got(s) \cup {m}
  BY <1>1, <1>3 DEF Got
<1>5. ASSUME NEW i \in ReplyAt(t), NEW j \in ReplyAt(t), i < j
      PROVE  t[i].n < t[j].n
  <2>1. i \in ReplyAt(s)
    BY <1>1, <1>3, <1>5
  <2>2. CASE j \in ReplyAt(s)
    BY <1>3, <1>5, <2>1, <2>2 DEF Rising
  <2>3. CASE j = Len(s) + 1
    BY <1>1, <1>3, <2>1, <2>3 DEF Got
  <2> QED
    BY <1>3, <2>2, <2>3
<1> QED
  BY <1>4, <1>5 DEF Rising, t

\* Finishing request k adds its response, if it calls for one.
LEMMA OwedNext ==
  ASSUME NEW r, NEW k \in Nat, k > 0
  PROVE  /\ r[k] # "silent" =>
              Owed(r, k) = Owed(r, k - 1) \cup {[kind |-> r[k], n |-> k]}
         /\ r[k] = "silent" => Owed(r, k) = Owed(r, k - 1)
         /\ \A x \in Owed(r, k - 1) : x.n < k
<1>1. 1 .. k = (1 .. (k - 1)) \cup {k} /\ \A n \in 1 .. (k - 1) : n < k
  OBVIOUS
<1> QED
  BY <1>1 DEF Owed

LEMMA AnswerStep ==
  ASSUME TypeInv, AnswerInv, [Next]_vars
  PROVE  AnswerInv'
<1> SUFFICES ASSUME NEW c \in Clients
             PROVE  /\ Got(Stream(c)') = Owed(asked'[c], Finished(c)')
                    /\ Rising(Stream(c)')
  BY DEF AnswerInv
<1>1. Effect(c)
  BY StepEffect
<1>2. /\ Stream(c) \in Seq(Msg) /\ c \in Threads
      /\ pc \in [Threads -> Places] /\ asked \in [Clients -> Seq(Kinds)]
      /\ asked[c] \in Seq(Kinds) /\ Len(asked[c]) \in Nat
  BY StreamType, LenProperties DEF TypeInv, ThreadInv, BoxesOK, Threads
<1>3. Got(Stream(c)) = Owed(asked[c], Finished(c)) /\ Rising(Stream(c))
  BY DEF AnswerInv
<1>4. CASE /\ Answer(c)
           /\ Stream(c)' = IF Request(c) # "silent"
                             THEN Append(Stream(c), Response(c)) ELSE Stream(c)
  <2> DEFINE L == Len(asked[c])
  <2>1. pc'[c] = "send" /\ pc[c] = "answer" /\ asked' = asked
    BY <1>2, <1>4 DEF Answer
  <2>2. asked[c] # <<>> /\ Request(c) \in Kinds
    <3>1. Request(c) \in Requests[c] /\ Requests[c] \subseteq Kinds
      BY <2>1, ClientsAssumption DEF TypeInv, ThreadInv, Busy
    <3> QED
      BY <2>1, <3>1 DEF TypeInv, ThreadInv, Busy
  <2>3. L \in Nat /\ L > 0
    BY <1>2, <2>2, EmptySeq
  <2>4. Finished(c) = L - 1 /\ Finished(c)' = L
    BY <2>1 DEF Finished
  <2> HIDE DEF L
  <2>5. Response(c) = [kind |-> Request(c), n |-> L] /\ Request(c) = asked[c][L]
    BY DEF Response, Request, L
  <2>6. Response(c) \in Msg /\ Response(c).kind = Request(c) /\ Response(c).n = L
    BY <2>2, <2>3, <2>5 DEF Msg
  <2>7. CASE Request(c) = "silent"
    <3>1. Owed(asked[c], L) = Owed(asked[c], L - 1)
      BY <2>3, <2>5, <2>7, OwedNext
    <3>2. Stream(c)' = Stream(c) /\ asked'[c] = asked[c]
      BY <1>4, <2>1, <2>7
    <3> QED
      BY <1>3, <2>4, <3>1, <3>2
  <2>8. CASE Request(c) # "silent"
    <3>1. \A x \in Got(Stream(c)) : x.n < L
      BY <1>3, <2>3, <2>4, OwedNext
    <3>2. /\ Got(Append(Stream(c), Response(c))) = Got(Stream(c)) \cup {Response(c)}
          /\ Rising(Append(Stream(c), Response(c)))
      BY <1>2, <1>3, <2>2, <2>6, <3>1, ResponseMessage
    <3>3. Owed(asked[c], L) = Owed(asked[c], L - 1) \cup {Response(c)}
      BY <2>3, <2>5, <2>8, OwedNext
    <3> QED
      BY <1>3, <1>4, <2>1, <2>4, <2>8, <3>2, <3>3
  <2> QED
    BY <2>7, <2>8
<1>5. CASE HandlePlain(c) /\ Stream(c)' = Stream(c)
  <2>1. pc[c] = "handle" /\ pc'[c] = "answer" /\ asked' = asked
    BY <1>2, <1>5 DEF HandlePlain
  <2>2. Finished(c)' = Finished(c)
    BY <2>1 DEF Finished
  <2> QED
    BY <1>3, <1>5, <2>1, <2>2
<1>6. CASE Read(c) /\ Stream(c)' = Stream(c)
  <2>1. PICK kind \in Requests[c] : asked' = [asked EXCEPT ![c] = Append(@, kind)]
    BY <1>6 DEF Read
  <2>2. pc[c] = "read" /\ pc'[c] = "enter" /\ asked'[c] = Append(asked[c], kind)
    BY <1>2, <1>6, <2>1 DEF Read
  <2>3. kind \in Kinds
    BY ClientsAssumption
  <2>4. /\ Len(asked'[c]) = Len(asked[c]) + 1
        /\ \A n \in 1 .. Len(asked[c]) : asked'[c][n] = asked[c][n]
    BY <1>2, <2>2, <2>3, AppendProperties
  <2>5. Finished(c) = Len(asked[c])
    BY <2>2 DEF Finished
  <2>6. Finished(c)' = Len(asked[c])
    BY <1>2, <2>2, <2>4 DEF Finished
  <2>7. Owed(asked'[c], Len(asked[c])) = Owed(asked[c], Len(asked[c]))
    BY <2>4 DEF Owed
  <2> QED
    BY <1>3, <1>6, <2>5, <2>6, <2>7
<1>7. CASE Undisturbed(c)
  <2>1. asked'[c] = asked[c] /\ (pc'[c] \in Busy <=> pc[c] \in Busy)
    BY <1>7 DEF Undisturbed
  <2>2. Finished(c)' = Finished(c)
    BY <2>1 DEF Finished, Busy
  <2>3. /\ Notice \in Msg /\ Notice.kind \notin Kinds
        /\ StatusChange \in Msg /\ StatusChange.kind \notin Kinds
    BY DEF Notice, StatusChange, Msg, Kinds
  <2>4. Got(Stream(c)') = Got(Stream(c)) /\ Rising(Stream(c)')
    BY <1>2, <1>3, <1>7, <2>3, OtherMessage DEF Undisturbed
  <2> QED
    BY <1>3, <2>1, <2>2, <2>4
<1> QED
  BY <1>1, <1>4, <1>5, <1>6, <1>7 DEF Effect

(* A client gets one response to each request that calls for one, in the   *)
(* order of its requests, for every number of clients: the response is     *)
(* queued before the next request is read (processRequest and Action), and *)
(* sending stops at the first message that cannot be written.              *)
THEOREM AlwaysAnsweredInOrder == Spec => []AnsweredInOrder
<1>1. Init => TypeInv /\ AnswerInv
  <2> SUFFICES ASSUME Init PROVE AnswerInv
    BY InitTypeInv
  <2> SUFFICES ASSUME NEW c \in Clients
               PROVE  /\ Got(Stream(c)) = Owed(asked[c], Finished(c))
                      /\ Rising(Stream(c))
    BY DEF AnswerInv
  <2>1. Len(Stream(c)) = 0 /\ asked[c] = <<>> /\ pc[c] = "send"
    BY InitStream DEF Init, Threads
  <2>2. Finished(c) = 0
    BY <2>1, EmptySeq DEF Finished
  <2>3. 1 .. 0 = {}
    OBVIOUS
  <2> QED
    BY <2>1, <2>2, <2>3 DEF Got, Owed, Rising, ReplyAt
<1>2. TypeInv /\ AnswerInv /\ [Next]_vars => (TypeInv /\ AnswerInv)'
  BY TypeStep, AnswerStep
<1>3. TypeInv /\ AnswerInv => AnsweredInOrder
  <2> SUFFICES ASSUME TypeInv, AnswerInv, NEW c \in Clients
      PROVE /\ {Stream(c)[i] : i \in Responses(c)}
                 = {[kind |-> asked[c][n], n |-> n] : n \in Expected(c)}
            /\ \A i, j \in Responses(c) : i < j => Stream(c)[i].n < Stream(c)[j].n
    BY DEF AnsweredInOrder
  <2>1. DOMAIN Stream(c) = 1 .. Len(Stream(c))
    BY StreamType DEF TypeInv, BoxesOK
  <2>2. Responses(c) = ReplyAt(Stream(c))
    BY <2>1 DEF Responses, ReplyAt
  <2>3. Got(Stream(c)) = Owed(asked[c], Finished(c)) /\ Rising(Stream(c))
    BY DEF AnswerInv
  <2> QED
    BY <2>2, <2>3 DEF Got, Owed, Rising, Expected
<1> QED
  BY <1>1, <1>2, <1>3, PTL DEF Spec
=============================================================================
