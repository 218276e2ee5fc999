------------------------- MODULE LiveStreamer_proofs -------------------------
(***************************************************************************)
(* Theorems about LiveStreamer, for every size of the queue, both VDR      *)
(* versions and all options of the client.                                 *)
(***************************************************************************)
EXTENDS LiveStreamer, SequenceTheorems, TLAPS

(***************************************************************************)
(* The packet handler that reaches the mux packet or ends before it keeps  *)
(* what both theorems need.                                                *)
(***************************************************************************)
Told == Asked /\ mux.described

Silent == signalLost <=> status = "lost"

LEMMA SwitchKeepsTold ==
  ASSUME Told, startup' = startup, mux' = mux,
         SwitchFails \/ Tuned(TRUE)
  PROVE  Told'
BY DEF Told, Asked, SwitchFails, NotDecryptable, NoDevice, NotTuned, Tuned,
       RequestStreamChange,
       CreateDemuxers

LEMMA PassedKeepsTold ==
  ASSUME Told, NEW c \in Contents, NEW i \in BOOLEAN, NEW n \in BOOLEAN,
         Passed(c, i, n)
  PROVE  Told'
<1>1. described \/ Pending(n)
  BY DEF Told, Asked, Pending
<1>2. CASE AwaitIFrame(i, n)
  BY <1>1, <1>2 DEF AwaitIFrame, Told, Asked
<1>3. CASE SignalRestored(c, n)
  BY <1>3 DEF SignalRestored, Told, Asked
<1>4. CASE StillLost(c, n)
  BY <1>1, <1>4 DEF StillLost, Told, Asked
<1>5. CASE SendMux(c, i, n)
  BY <1>1, <1>5 DEF SendMux, Told, Asked
<1> QED
  BY <1>2, <1>3, <1>4, <1>5 DEF Passed

LEMMA ToldStep == Told /\ [Next]_vars => Told'
<1> SUFFICES ASSUME Told, [Next]_vars PROVE Told'
  OBVIOUS
<1>1. CASE TrySwitch
  BY <1>1, SwitchKeepsTold DEF TrySwitch
<1>2. CASE TrySwitchFails
  BY <1>2, SwitchKeepsTold DEF TrySwitchFails
<1>3. CASE ChannelChange
  BY <1>3, SwitchKeepsTold DEF ChannelChange
<1>4. CASE NewStreams
  BY <1>4 DEF NewStreams, RequestStreamChange, Told, Asked
<1>5. ASSUME NEW c \in Contents, NEW i \in BOOLEAN, NEW n \in BOOLEAN,
             Process(c, i, n)
      PROVE  Told'
  <2>1. CASE Passed(c, i, n)
    BY <2>1, PassedKeepsTold
  <2>2. CASE ~Passed(c, i, n)
    <3>1. /\ requestStreamChange' = (requestStreamChange \/ n)
          /\ described' = (described /\ ~n)
          /\ startup' = startup /\ mux' = mux
      BY <1>5, <2>2 DEF Process
    <3>2. CASE n
      BY <3>1, <3>2 DEF Told, Asked
    <3>3. CASE ~n
      BY <3>1, <3>3 DEF Told, Asked
    <3> QED
      BY <3>2, <3>3
  <2> QED
    BY <2>1, <2>2
<1>6. CASE \/ SetOptions \/ Get \/ Stop \/ Attached \/ ChannelGone \/ SignalOk
           \/ SignalTimeout \/ DetachLost \/ EndOfData \/ Receive
           \/ DeviceTaken \/ TimePasses \/ Deliver \/ Cancel \/ Delete
           \/ Terminated \/ UNCHANGED vars
  <2>1. UNCHANGED <<described, requestStreamChange, startup, mux>>
    BY <1>6 DEF SetOptions, Get, Stop, Attached, ChannelGone, SignalOk,
         SignalTimeout, DetachLost, EndOfData, Receive, DeviceTaken,
         TimePasses, Deliver, Cancel, Delete, Terminated, vars, flags, history
  <2> QED
    BY <2>1 DEF Told, Asked
<1> QED
  BY <1>1, <1>2, <1>3, <1>4, <1>5, <1>6 DEF Next, Action, ProcessAny

\* No mux packet is queued for demuxers, or after a restored signal, that
\* the client has not been told of (sendStreamPacket against SwitchChannel
\* and cLivePatFilter::Process).
THEOREM AlwaysDescribed == Spec => []DescribedFirst
<1>1. Init => Told
  BY DEF Init, Told, Asked, NoMux
<1>2. Told => DescribedFirst
  BY DEF Told, DescribedFirst
<1> QED
  BY <1>1, <1>2, ToldStep, PTL DEF Spec

-----------------------------------------------------------------------------
\* The signal is marked as lost while that is what was last reported.
LEMMA SilentStep == Silent /\ [Next]_vars => Silent'
<1> SUFFICES ASSUME Silent, [Next]_vars PROVE Silent'
  OBVIOUS
<1>1. CASE SignalTimeout
  BY <1>1 DEF SignalTimeout, Silent
<1>2. ASSUME NEW c \in Contents, NEW i \in BOOLEAN, NEW n \in BOOLEAN,
             Process(c, i, n)
      PROVE  Silent'
  <2>1. CASE UNCHANGED <<signalLost, status>>
    BY <2>1 DEF Silent
  <2>2. CASE SignalRestored(c, n)
    BY <2>2 DEF SignalRestored, Silent
  <2> QED
    BY <1>2, <2>1, <2>2 DEF Process, Passed, AwaitIFrame, StillLost, SendMux
<1>3. CASE \/ SetOptions \/ Get \/ Stop \/ Attached \/ TrySwitch
           \/ TrySwitchFails \/ ChannelGone \/ SignalOk \/ DetachLost
           \/ EndOfData \/ ChannelChange \/ NewStreams \/ Receive
           \/ DeviceTaken \/ TimePasses \/ Deliver \/ Cancel \/ Delete
           \/ Terminated \/ UNCHANGED vars
  <2>1. UNCHANGED <<signalLost, status>>
    BY <1>3 DEF SetOptions, Get, Stop, Attached, TrySwitch, TrySwitchFails,
         ChannelGone, SignalOk, DetachLost, EndOfData, ChannelChange,
         NewStreams, Receive, DeviceTaken, TimePasses, Deliver, Cancel,
         Delete, Terminated, vars, flags, history
  <2> QED
    BY <2>1 DEF Silent
<1> QED
  BY <1>1, <1>2, <1>3 DEF Next, Action, ProcessAny

-----------------------------------------------------------------------------
(***************************************************************************)
(* Type correctness, and with it the size of the send queue.               *)
(***************************************************************************)
Items == {"change", "mux"}

(***************************************************************************)
(* Add keeps the newest packets, at most QueueSize of them.                *)
(***************************************************************************)
LEMMA AddProperties ==
  ASSUME NEW q \in Seq(Items), NEW s \in Seq(Items)
  PROVE  Add(q, s) \in Seq(Items) /\ Len(Add(q, s)) <= QueueSize
<1> USE LiveStreamerAssumption
<1> DEFINE all == q \o s
<1>1. all \in Seq(Items) /\ Len(all) \in Nat
  BY ConcatProperties, LenProperties
<1> HIDE DEF all
<1>2. CASE Len(all) > QueueSize
  <2> DEFINE from == Len(all) - QueueSize + 1
  <2>1. from \in Int /\ from <= Len(all) /\ Len(all) - from + 1 = QueueSize
    BY <1>1, <1>2
  <2>2. \A i \in from .. Len(all) : i \in 1 .. Len(all)
    BY <1>1, <1>2
  <2>3. \A i \in from .. Len(all) : all[i] \in Items
    BY <1>1, <2>2, ElementOfSeq
  <2> HIDE DEF from
  <2>4. /\ SubSeq(all, from, Len(all)) \in Seq(Items)
        /\ Len(SubSeq(all, from, Len(all))) = QueueSize
    BY <1>1, <2>1, <2>3, SubSeqProperties
  <2>5. Add(q, s) = SubSeq(all, from, Len(all))
    BY <1>2 DEF Add, all, from
  <2> QED
    BY <2>4, <2>5
<1>3. CASE ~(Len(all) > QueueSize)
  <2>1. Add(q, s) = all
    BY <1>3 DEF Add, all
  <2> QED
    BY <1>1, <1>3, <2>1
<1> QED
  BY <1>2, <1>3

LEMMA BeforeProperties ==
  ASSUME NEW pending \in BOOLEAN
  PROVE  Before(pending) \in Seq(Items)
<1>1. "change" \in Items
  BY DEF Items
<1>2. <<>> \in Seq(Items) /\ <<"change">> \in Seq(Items)
  BY <1>1, EmptySeq
<1> QED
  BY <1>2 DEF Before

QueueOK == queue \in Seq(Items) /\ Len(queue) <= QueueSize

TunerOK == /\ attached \in BOOLEAN /\ device \in BOOLEAN /\ filter \in BOOLEAN
           /\ demuxers \in BOOLEAN /\ parsed \in BOOLEAN

FlagsOK == /\ ready \in BOOLEAN /\ startup \in BOOLEAN
           /\ requestStreamChange \in BOOLEAN /\ signalLost \in BOOLEAN
           /\ waitforiframe \in BOOLEAN

MuxOK == mux \in [first : {"none", "iframe"} \cup Contents,
                  described : BOOLEAN]

RestOK == /\ pc \in {"get", "attach", "timeout", "detach", "data", "ended"}
          /\ life \in {"alive", "cancelled", "deleted", "crashed"}
          /\ options \in BOOLEAN /\ expired \in BOOLEAN /\ ring \in BOOLEAN
          /\ picture \in BOOLEAN
          /\ buf \in {"none", "fresh", "stale"} /\ described \in BOOLEAN
          /\ status \in {"none", "lost", "restored"}

WireOK == old \in 0 .. Len(queue) /\ known \in BOOLEAN

LEMMA TypeParts ==
  TypeOK <=> QueueOK /\ TunerOK /\ FlagsOK /\ MuxOK /\ RestOK /\ WireOK
BY DEF TypeOK, QueueOK, TunerOK, FlagsOK, MuxOK, RestOK, WireOK, Items

(***************************************************************************)
(* What is on its way to the client.  Of a queue q whose first o packets   *)
(* are from before the last change: no mux packet behind them comes before *)
(* a stream change, and there is one, unless k, it is known already.       *)
(***************************************************************************)
Ordered(q, o, k) ==
  k \/ \A i \in o + 1 .. Len(q) : q[i] = "mux" =>
         \E j \in o + 1 .. i - 1 : q[j] = "change"

Announced(q, o, k) == k \/ \E j \in o + 1 .. Len(q) : q[j] = "change"

\* Both outlast the loss of the oldest packets.
LEMMA Shortened ==
  ASSUME NEW all \in Seq(Items), NEW r \in Seq(Items), NEW o \in 0 .. Len(all),
         NEW k \in BOOLEAN, NEW g \in Nat, Len(r) = Len(all) - g,
         \A i \in 1 .. Len(r) : r[i] = all[i + g],
         NEW o2, NEW k2, o2 = (IF g < o THEN o - g ELSE 0),
         k2 = (k \/ \E i \in o + 1 .. g : all[i] = "change")
  PROVE  /\ o2 \in 0 .. Len(r) /\ k2 \in BOOLEAN
         /\ Ordered(all, o, k) => Ordered(r, o2, k2)
         /\ Announced(all, o, k) => Announced(r, o2, k2)
<1>1. Len(all) \in Nat /\ Len(r) \in Nat
  BY LenProperties
<1>2. o2 \in 0 .. Len(r) /\ k2 \in BOOLEAN
  BY <1>1
<1>3. ASSUME ~k2, NEW j \in o + 1 .. Len(all), all[j] = "change"
      PROVE  j - g \in o2 + 1 .. Len(r) /\ r[j - g] = "change"
  <2>0. ~\E i \in o + 1 .. g : all[i] = "change"
    BY <1>3, Zenon
  <2>1. j > g
    BY <1>1, <1>3, <2>0
  <2>2. j - g \in 1 .. Len(r) /\ j - g \in o2 + 1 .. Len(r) /\ (j - g) + g = j
    BY <1>1, <2>1
  <2> QED
    BY <1>3, <2>2
<1>4. ASSUME Ordered(all, o, k), ~k2
      PROVE  Ordered(r, o2, k2)
  <2> SUFFICES ASSUME NEW i \in o2 + 1 .. Len(r), r[i] = "mux"
               PROVE  \E j \in o2 + 1 .. i - 1 : r[j] = "change"
    BY <1>4 DEF Ordered
  <2>1. /\ i \in 1 .. Len(r) /\ i + g \in o + 1 .. Len(all) /\ i \in Nat
    BY <1>1, <1>2
  <2>2. all[i + g] = "mux" /\ ~k
    BY <1>4, <2>1
  <2>3. PICK j \in o + 1 .. (i + g) - 1 : all[j] = "change"
    BY <1>4, <2>1, <2>2 DEF Ordered
  <2>4. j \in o + 1 .. Len(all)
    BY <1>1, <2>1, <2>3
  <2>5. j - g \in o2 + 1 .. Len(r) /\ r[j - g] = "change"
    BY <1>3, <1>4, <2>3, <2>4
  <2>6. j - g \in o2 + 1 .. i - 1
    BY <1>1, <1>2, <2>1, <2>3, <2>5
  <2> QED
    BY <2>5, <2>6
<1>5. ASSUME Announced(all, o, k), ~k2
      PROVE  Announced(r, o2, k2)
  <2>1. PICK j \in o + 1 .. Len(all) : all[j] = "change"
    BY <1>5 DEF Announced
  <2> QED
    BY <1>3, <1>5, <2>1 DEF Announced
<1> QED
  BY <1>2, <1>4, <1>5 DEF Ordered, Announced

\* Add takes packets from the front of the whole only.
LEMMA AddKeepsNewest ==
  ASSUME NEW q \in Seq(Items), NEW s \in Seq(Items)
  PROVE  /\ Len(q \o s) - Len(Add(q, s)) \in Nat
         /\ \A i \in 1 .. Len(Add(q, s)) :
              Add(q, s)[i] = (q \o s)[i + (Len(q \o s) - Len(Add(q, s)))]
<1> USE LiveStreamerAssumption
<1> DEFINE all == q \o s
           r   == Add(q, s)
<1>1. all \in Seq(Items) /\ Len(all) \in Nat
  BY ConcatProperties, LenProperties
<1>2. r = IF Len(all) > QueueSize
            THEN SubSeq(all, Len(all) - QueueSize + 1, Len(all)) ELSE all
  BY DEF Add
<1> HIDE DEF all, r
<1>3. CASE Len(all) > QueueSize
  <2> DEFINE from == Len(all) - QueueSize + 1
  <2>1. from \in Int /\ from <= Len(all) /\ Len(all) - from + 1 = QueueSize
        /\ from \in 1 .. Len(all)
    BY <1>1, <1>3
  <2>2. \A i \in from .. Len(all) : i \in 1 .. Len(all)
    BY <1>1, <1>3
  <2>3. \A i \in from .. Len(all) : all[i] \in Items
    BY <1>1, <2>2, ElementOfSeq
  <2>4. Len(all) - (Len(all) - from + 1) = from - 1
        /\ \A i \in 1 .. QueueSize : i + (from - 1) = from + i - 1
    BY <1>1, <2>1
  <2>5. r = SubSeq(all, from, Len(all))
    BY <1>2, <1>3
  <2> HIDE DEF from
  <2>6. /\ Len(r) = QueueSize
        /\ \A i \in 1 .. QueueSize : r[i] = all[from + i - 1]
    BY <1>1, <2>1, <2>3, <2>5, SubSeqProperties
  <2>7. Len(all) - Len(r) = from - 1 /\ from - 1 \in Nat
    BY <1>1, <2>1, <2>6
  <2>8. \A i \in 1 .. Len(r) : r[i] = all[i + (Len(all) - Len(r))]
    BY <2>1, <2>4, <2>6, <2>7
  <2> QED
    BY <2>7, <2>8 DEF all, r
<1>4. CASE ~(Len(all) > QueueSize)
  <2>1. r = all /\ Len(all) - Len(r) = 0
    BY <1>1, <1>2, <1>4
  <2>2. \A i \in 1 .. Len(r) : i + 0 = i
    BY <1>1, <2>1
  <2> QED
    BY <2>1, <2>2 DEF all, r
<1> QED
  BY <1>3, <1>4

\* The packets that a frame may add.
LEMMA Tuples ==
  /\ <<"change">> \o <<>> = <<"change">> /\ <<>> \o <<"mux">> = <<"mux">>
  /\ <<>> \o <<>> = <<>>
  /\ <<"change">> \in Seq(Items) /\ <<"mux">> \in Seq(Items)
  /\ <<>> \in Seq(Items) /\ <<"change">> \o <<"mux">> \in Seq(Items)
  /\ Len(<<"change">> \o <<"mux">>) = 2
  /\ (<<"change">> \o <<"mux">>)[1] = "change"
  /\ Len(<<"change">>) = 1 /\ <<"change">>[1] = "change"
  /\ Len(<<"mux">>) = 1 /\ Len(<<>>) = 0
<1>1. /\ <<"change">> \in Seq(Items) /\ <<"mux">> \in Seq(Items)
      /\ <<>> \in Seq(Items)
  BY EmptySeq DEF Items
<1>2. /\ <<"change">> \o <<>> = <<"change">> /\ <<>> \o <<"mux">> = <<"mux">>
      /\ <<>> \o <<>> = <<>>
  BY <1>1, ConcatEmptySeq
<1>3. /\ Len(<<"change">>) = 1 /\ <<"change">>[1] = "change"
      /\ Len(<<"mux">>) = 1 /\ Len(<<>>) = 0
  OBVIOUS
<1> DEFINE c == <<"change">>
           m == <<"mux">>
<1> HIDE DEF c, m
<1>4. c \in Seq(Items) /\ m \in Seq(Items) /\ Len(c) = 1 /\ Len(m) = 1
  BY <1>1, <1>3 DEF c, m
<1>5. c \o m \in Seq(Items) /\ Len(c \o m) = 2 /\ (c \o m)[1] = c[1]
  BY <1>4, ConcatProperties
<1> QED
  BY <1>1, <1>2, <1>3, <1>5 DEF c, m

\* A stream change makes whatever is queued with it or behind it known.
LEMMA Lengthened ==
  ASSUME NEW q \in Seq(Items), NEW o \in 0 .. Len(q), NEW k \in BOOLEAN,
         NEW p \in BOOLEAN, NEW m \in BOOLEAN, NEW s,
         s = (Before(p) \o (IF m THEN <<"mux">> ELSE <<>>)),
         Ordered(q, o, k), p \/ Announced(q, o, k)
  PROVE  Ordered(q \o s, o, k) /\ Announced(q \o s, o, k)
<1> DEFINE t == IF m THEN <<"mux">> ELSE <<>>
<1>1. /\ s \in Seq(Items)
      /\ p => Len(s) > 0 /\ s[1] = "change"
      /\ \A i \in 1 .. Len(s) : i > 1 => p
  <2>1. CASE p
    <3>1. s = <<"change">> \o <<"mux">> \/ s = <<"change">>
      BY <2>1, Tuples DEF Before
    <3>2. s \in Seq(Items) /\ Len(s) \in {1, 2} /\ s[1] = "change"
      BY <3>1, Tuples, Zenon
    <3>3. Len(s) > 0
      BY <3>2
    <3> QED
      BY <2>1, <3>2, <3>3
  <2>2. CASE ~p
    <3>1. s = <<"mux">> \/ s = <<>>
      BY <2>2, Tuples DEF Before
    <3>2. s \in Seq(Items) /\ Len(s) \in {0, 1}
      BY <3>1, Tuples
    <3>3. \A i \in 1 .. Len(s) : ~(i > 1)
      BY <3>2
    <3> QED
      BY <2>2, <3>2, <3>3
  <2> QED
    BY <2>1, <2>2
<1> DEFINE all == q \o s
<1>2. /\ Len(q) \in Nat /\ Len(s) \in Nat /\ Len(all) = Len(q) + Len(s)
      /\ \A i \in 1 .. Len(q) : all[i] = q[i]
      /\ \A i \in 1 .. Len(s) : all[Len(q) + i] = s[i]
  <2>1. /\ Len(all) = Len(q) + Len(s)
        /\ \A i \in 1 .. Len(q) + Len(s) :
              all[i] = IF i <= Len(q) THEN q[i] ELSE s[i - Len(q)]
    BY <1>1, ConcatProperties
  <2>2. Len(q) \in Nat /\ Len(s) \in Nat
    BY <1>1, LenProperties
  <2>3. \A i \in 1 .. Len(q) : i \in 1 .. Len(q) + Len(s) /\ i <= Len(q)
    BY <2>2
  <2>4. \A i \in 1 .. Len(s) : /\ Len(q) + i \in 1 .. Len(q) + Len(s)
                               /\ ~(Len(q) + i <= Len(q))
                               /\ (Len(q) + i) - Len(q) = i
    BY <2>2
  <2> QED
    BY <2>1, <2>2, <2>3, <2>4
<1> HIDE DEF all, t
<1>3. Announced(all, o, k)
  <2>1. CASE p
    <3>1. Len(s) > 0 /\ s[1] = "change"
      BY <1>1, <2>1
    <3>2. 1 \in 1 .. Len(s) /\ Len(q) + 1 \in o + 1 .. Len(all)
      BY <1>2, <3>1
    <3>3. all[Len(q) + 1] = "change"
      BY <1>2, <3>1, <3>2, Zenon
    <3> QED
      BY <3>2, <3>3 DEF Announced
  <2>2. CASE Announced(q, o, k)
    <3>1. \A j \in o + 1 .. Len(q) : j \in 1 .. Len(q) /\ j \in o + 1 .. Len(all)
      BY <1>2
    <3> QED
      BY <1>2, <2>2, <3>1 DEF Announced
  <2> QED
    BY <2>1, <2>2
<1>4. Ordered(all, o, k)
  <2> SUFFICES ASSUME ~k, NEW i \in o + 1 .. Len(all), all[i] = "mux"
               PROVE  \E j \in o + 1 .. i - 1 : all[j] = "change"
    BY DEF Ordered
  <2>1. CASE i <= Len(q)
    <3>1. i \in o + 1 .. Len(q) /\ i \in 1 .. Len(q) /\ q[i] = "mux"
      BY <1>2, <2>1
    <3>2. PICK j \in o + 1 .. i - 1 : q[j] = "change"
      BY <3>1 DEF Ordered
    <3>3. j \in 1 .. Len(q)
      BY <1>2, <2>1, <3>2
    <3> QED
      BY <1>2, <3>2, <3>3
  <2>2. CASE ~(i <= Len(q))
    <3> DEFINE n == i - Len(q)
    <3>1. n \in 1 .. Len(s) /\ Len(q) + n = i
      BY <1>2, <2>2
    <3>2. s[n] = "mux"
      BY <1>2, <3>1
    <3>3. CASE p
      <4>0. Len(s) > 0 /\ s[1] = "change"
        BY <1>1, <3>3
      <4>1. n # 1
        BY <3>2, <4>0
      <4>2. Len(q) + 1 \in o + 1 .. i - 1 /\ 1 \in 1 .. Len(s)
        BY <1>2, <3>1, <4>0, <4>1
      <4>3. all[Len(q) + 1] = "change"
        BY <1>2, <4>0, <4>2, Zenon
      <4> QED
        BY <4>2, <4>3
    <3>4. CASE ~p
      <4>1. PICK j \in o + 1 .. Len(q) : q[j] = "change"
        BY <3>4 DEF Announced
      <4>2. j \in 1 .. Len(q) /\ j \in o + 1 .. i - 1
        BY <1>2, <2>2, <4>1
      <4> QED
        BY <1>2, <4>1, <4>2
    <3> QED
      BY <3>3, <3>4
  <2> QED
    BY <1>2, <2>1, <2>2
<1> QED
  BY <1>3, <1>4 DEF all

\* The history follows a queue that got new packets and lost old ones.
LEMMA Tracked ==
  ASSUME QueueOK, WireOK, NEW items \in Seq(Items), NEW n \in BOOLEAN,
         queue' \in Seq(Items), NEW g \in Nat,
         Len(queue') = Len(queue \o items) - g,
         \A i \in 1 .. Len(queue') : queue'[i] = (queue \o items)[i + g],
         NEW o, NEW k, o = (IF n THEN Len(queue) ELSE old), k = (known /\ ~n),
         Track(items, n)
  PROVE  /\ o \in 0 .. Len(queue) /\ k \in BOOLEAN /\ WireOK'
         /\ Ordered(queue \o items, o, k) => Ordered(queue', old', known')
         /\ Announced(queue \o items, o, k) => Announced(queue', old', known')
<1> DEFINE all == queue \o items
<1>1. /\ all \in Seq(Items) /\ Len(all) = Len(queue) + Len(items)
      /\ Len(queue) \in Nat /\ Len(items) \in Nat /\ Len(queue') \in Nat
  BY ConcatProperties, LenProperties DEF QueueOK
<1>2. o \in 0 .. Len(queue) /\ k \in BOOLEAN
  BY <1>1 DEF WireOK
<1>3. Len(all) - Len(queue') = g
  BY <1>1
<1>4. /\ old' = IF g < o THEN o - g ELSE 0
      /\ known' = (k \/ \E i \in o + 1 .. g : all[i] = "change")
  BY <1>3 DEF Track
<1>5. o \in 0 .. Len(all)
  BY <1>1, <1>2
<1> HIDE DEF all
<1>6. /\ old' \in 0 .. Len(queue') /\ known' \in BOOLEAN
      /\ Ordered(all, o, k) => Ordered(queue', old', known')
      /\ Announced(all, o, k) => Announced(queue', old', known')
  <2>1. \A i \in 1 .. Len(queue') : queue'[i] = all[i + g]
    BY DEF all
  <2>2. Len(queue') = Len(all) - g
    BY DEF all
  <2> QED
    BY <1>1, <1>2, <1>4, <1>5, <2>1, <2>2, Shortened
<1> QED
  BY <1>2, <1>6 DEF WireOK, all

\* What follows the last change is announced on the wire, or will be.
Announces == \/ Announced(queue, old, known)
             \/ requestStreamChange \/ startup

WireGood == Ordered(queue, old, known) /\ (Running => Announces)

\* A frame that passed: a pending stream change, and perhaps a mux packet.
LEMMA SentKeepsWire ==
  ASSUME QueueOK, WireOK, FlagsOK, Running,
         NEW n \in BOOLEAN, NEW m \in BOOLEAN, NEW items,
         items = (Before(Pending(n)) \o (IF m THEN <<"mux">> ELSE <<>>)),
         queue' = Add(queue, items), Track(items, n)
  PROVE  WireOK' /\ (WireGood => WireGood')
<1> DEFINE g == Len(queue \o items) - Len(queue')
           o == IF n THEN Len(queue) ELSE old
           k == known /\ ~n
<1>0. Pending(n) \in BOOLEAN
  BY DEF Pending, FlagsOK
<1>1. items \in Seq(Items)
  <2>1. (IF m THEN <<"mux">> ELSE <<>>) \in Seq(Items)
    BY Tuples
  <2>2. Before(Pending(n)) \in Seq(Items)
    BY <1>0, BeforeProperties
  <2> QED
    BY <2>1, <2>2, ConcatProperties
<1>2. queue' \in Seq(Items)
  BY <1>1, AddProperties DEF QueueOK
<1>3. /\ g \in Nat
      /\ \A i \in 1 .. Len(queue') : queue'[i] = (queue \o items)[i + g]
  BY <1>1, AddKeepsNewest DEF QueueOK
<1>4. Len(queue') = Len(queue \o items) - g
  <2>1. Len(queue \o items) \in Nat /\ Len(queue') \in Nat
    BY <1>1, <1>2, ConcatProperties, LenProperties DEF QueueOK
  <2> QED
    BY <2>1
<1> HIDE DEF g
<1>5. /\ o \in 0 .. Len(queue) /\ k \in BOOLEAN /\ WireOK'
      /\ Ordered(queue \o items, o, k) => Ordered(queue', old', known')
      /\ Announced(queue \o items, o, k) => Announced(queue', old', known')
  BY <1>1, <1>2, <1>3, <1>4, Tracked
<1>6. ASSUME WireGood
      PROVE  Ordered(queue', old', known') /\ Announced(queue', old', known')
  <2>1. Ordered(queue, o, k)
    <3>1. CASE n
      <4>1. o = Len(queue) /\ Len(queue) \in Nat
        BY <3>1, LenProperties DEF QueueOK
      <4>2. o + 1 .. Len(queue) = {}
        BY <4>1
      <4> HIDE DEF o, k
      <4> QED
        BY <4>2 DEF Ordered
    <3>2. CASE ~n
      <4>1. o = old /\ k = known
        BY <3>2 DEF WireOK
      <4> QED
        BY <1>6, <4>1 DEF WireGood
    <3> QED
      BY <3>1, <3>2
  <2>2. Pending(n) \/ Announced(queue, o, k)
    <3>1. CASE n
      BY <3>1 DEF Pending
    <3>2. CASE ~n
      <4>1. o = old /\ k = known
        BY <3>2 DEF WireOK
      <4> QED
        BY <1>6, <4>1 DEF WireGood, Announces, Pending
    <3> QED
      BY <3>1, <3>2
  <2> HIDE DEF o, k
  <2>3. Ordered(queue \o items, o, k) /\ Announced(queue \o items, o, k)
    BY <1>0, <1>5, <2>1, <2>2, Lengthened DEF QueueOK
  <2> QED
    BY <1>5, <2>3
<1> QED
  BY <1>5, <1>6 DEF WireGood, Announces

\* A frame that passed, whatever becomes of it.
LEMMA PassedKeepsWire ==
  ASSUME QueueOK, WireOK, FlagsOK, Running, NEW c \in Contents,
         NEW i \in BOOLEAN, NEW n \in BOOLEAN, Passed(c, i, n)
  PROVE  WireOK' /\ (WireGood => WireGood')
<1> DEFINE p == Before(Pending(n))
<1>1. Pending(n) \in BOOLEAN /\ p \in Seq(Items)
  BY BeforeProperties DEF Pending, FlagsOK
<1>2. p = p \o <<>> /\ p = p \o (IF FALSE THEN <<"mux">> ELSE <<>>)
  BY <1>1, ConcatEmptySeq
<1>3. p \o <<"mux">> = p \o (IF TRUE THEN <<"mux">> ELSE <<>>)
  OBVIOUS
<1>4. CASE queue' = Add(queue, p) /\ Track(p, n)
  BY <1>2, <1>4, SentKeepsWire
<1>5. CASE queue' = Add(queue, p \o <<"mux">>) /\ Track(p \o <<"mux">>, n)
  BY <1>3, <1>5, SentKeepsWire
<1>6. CASE SignalRestored(c, n)
  <2>1. /\ queue' = Add(queue, p) /\ old' = Len(queue') /\ known' = FALSE
        /\ requestStreamChange' = TRUE
    BY <1>6 DEF SignalRestored
  <2>2. Len(queue') \in Nat
    BY <1>1, <2>1, AddProperties, LenProperties DEF QueueOK
  <2>3. old' + 1 .. Len(queue') = {}
    BY <2>1, <2>2
  <2>4. old' \in 0 .. Len(queue')
    BY <2>1, <2>2
  <2>5. Ordered(queue', old', known')
    BY <2>3 DEF Ordered
  <2> QED
    BY <2>1, <2>4, <2>5 DEF WireOK, WireGood, Announces
<1> QED
  BY <1>4, <1>5, <1>6 DEF Passed, AwaitIFrame, StillLost, SendMux

\* The queue is cleared by a retune that asks for a stream change.
LEMMA SwitchKeepsWire ==
  ASSUME QueueOK, WireOK, SwitchFails \/ Tuned(TRUE),
         startup' = startup, life' = life
  PROVE  WireOK' /\ (WireGood => WireGood')
<1>1. CASE NotDecryptable \/ NoDevice \/ NotTuned
  <2>1. UNCHANGED <<queue, old, known, requestStreamChange>>
    BY <1>1 DEF NotDecryptable, NoDevice, NotTuned, wire
  <2> QED
    BY <2>1 DEF WireOK, WireGood, Announces, Running
<1>2. CASE Tuned(TRUE) \/ Tuned(FALSE)
  <2>1. /\ queue' = <<>> /\ old' = 0 /\ known' \in BOOLEAN
        /\ requestStreamChange' = TRUE
    BY <1>2 DEF Tuned, CreateDemuxers, RequestStreamChange, WireOK
  <2>2. Len(queue') = 0
    BY <2>1
  <2>3. old' + 1 .. Len(queue') = {}
    BY <2>1, <2>2
  <2>4. Ordered(queue', old', known')
    BY <2>3 DEF Ordered
  <2> QED
    BY <2>1, <2>2, <2>4 DEF WireOK, WireGood, Announces
<1> QED
  BY <1>1, <1>2 DEF SwitchFails

LEMMA WireStep ==
  TypeOK /\ [Next]_vars => WireOK' /\ (WireGood => WireGood')
<1> SUFFICES ASSUME TypeOK, [Next]_vars
             PROVE  WireOK' /\ (WireGood => WireGood')
  OBVIOUS
<1>t. QueueOK /\ WireOK /\ FlagsOK
  BY TypeParts
<1>s. <<>> \in Seq(Items) /\ Len(queue) \in Nat /\ queue \o <<>> = queue
  BY <1>t, EmptySeq, LenProperties, ConcatEmptySeq DEF QueueOK
<1>r. Running' => Running
  BY DEF Next, Action, ProcessAny, Process, SetOptions, Get, Stop, Attached,
         TrySwitch, TrySwitchFails, ChannelGone, SignalOk, SignalTimeout,
         DetachLost, EndOfData, ChannelChange, NewStreams, Receive,
         DeviceTaken, TimePasses, Deliver, Cancel, Delete, Terminated, vars,
         Running
<1>1. CASE TrySwitch \/ TrySwitchFails \/ ChannelChange
  <2>1. /\ SwitchFails \/ Tuned(TRUE)
        /\ startup' = startup /\ life' = life
    BY <1>1 DEF TrySwitch, TrySwitchFails, ChannelChange
  <2> QED
    BY <1>t, <2>1, SwitchKeepsWire
<1>2. ASSUME NEW c \in Contents, NEW i \in BOOLEAN, NEW n \in BOOLEAN,
             Process(c, i, n)
      PROVE  WireOK' /\ (WireGood => WireGood')
  <2>1. CASE Passed(c, i, n)
    <3>1. Running
      BY <1>2 DEF Process
    <3> QED
      BY <1>t, <2>1, <3>1, PassedKeepsWire
  <2>2. CASE ~Passed(c, i, n)
    <3>1. /\ requestStreamChange' = (requestStreamChange \/ n)
          /\ queue' = queue /\ startup' = startup /\ Track(<<>>, n)
      BY <1>2, <2>2 DEF Process
    <3> DEFINE o == IF n THEN Len(queue) ELSE old
               k == known /\ ~n
    <3>2. \A j \in 1 .. Len(queue) : j + 0 = j
      BY <1>s
    <3>3. /\ Len(queue') = Len(queue \o <<>>) - 0
          /\ \A j \in 1 .. Len(queue') : queue'[j] = (queue \o <<>>)[j + 0]
      BY <1>s, <3>1, <3>2
    <3>4. /\ WireOK'
          /\ Ordered(queue \o <<>>, o, k) => Ordered(queue', old', known')
          /\ Announced(queue \o <<>>, o, k) => Announced(queue', old', known')
      <4>1. queue' \in Seq(Items) /\ 0 \in Nat
        BY <1>t, <3>1 DEF QueueOK
      <4> QED
        BY <1>t, <1>s, <3>1, <3>3, <4>1, Tracked
    <3>5. CASE n
      <4>1. o + 1 .. Len(queue) = {}
        BY <1>s, <3>5
      <4> HIDE DEF o, k
      <4>2. Ordered(queue, o, k)
        BY <4>1 DEF Ordered
      <4> QED
        BY <1>s, <3>1, <3>4, <3>5, <4>2 DEF WireGood, Announces
    <3>6. CASE ~n
      <4>1. o = old /\ k = known
        BY <1>t, <3>6 DEF WireOK
      <4> HIDE DEF o, k
      <4> QED
        BY <1>s, <1>r, <3>1, <3>4, <3>6, <4>1 DEF WireGood, Announces
    <3> QED
      BY <3>5, <3>6
  <2> QED
    BY <2>1, <2>2
<1>3. CASE Deliver
  <2>1. /\ queue # <<>> /\ queue' = Tail(queue) /\ Track(<<>>, FALSE)
        /\ UNCHANGED <<requestStreamChange, startup>>
    BY <1>3 DEF Deliver, flags
  <2>2. /\ queue' \in Seq(Items) /\ Len(queue') = Len(queue \o <<>>) - 1
        /\ \A j \in 1 .. Len(queue') : queue'[j] = (queue \o <<>>)[j + 1]
    BY <1>t, <1>s, <2>1, HeadTailProperties DEF QueueOK
  <2>3. old = (IF FALSE THEN Len(queue) ELSE old) /\ known = (known /\ ~FALSE)
    BY <1>t DEF WireOK
  <2>4. /\ WireOK'
        /\ Ordered(queue \o <<>>, old, known) => Ordered(queue', old', known')
        /\ Announced(queue \o <<>>, old, known) => Announced(queue', old', known')
    <3>1. 1 \in Nat
      OBVIOUS
    <3> QED
      BY <1>t, <1>s, <2>1, <2>2, <2>3, <3>1, Tracked
  <2> QED
    BY <1>s, <1>r, <2>1, <2>4 DEF WireGood, Announces
<1>4. CASE Delete
  <2>1. /\ queue' = <<>> /\ old' = 0
        /\ UNCHANGED <<known, requestStreamChange, startup>>
    BY <1>4 DEF Delete, flags
  <2>2. Len(queue') = 0 /\ old' + 1 .. Len(queue') = {}
    BY <2>1
  <2>3. Ordered(queue', old', known') /\ WireOK'
    BY <1>t, <2>1, <2>2 DEF Ordered, WireOK
  <2>4. ~Running'
    BY <1>4 DEF Delete, Running
  <2> QED
    BY <2>3, <2>4 DEF WireGood
<1>5. CASE NewStreams
  <2>1. /\ UNCHANGED <<queue, startup>> /\ requestStreamChange' = TRUE
        /\ \/ old' = Len(queue) /\ known' = FALSE
           \/ UNCHANGED <<old, known>>
    BY <1>5 DEF NewStreams, RequestStreamChange, wire
  <2>2. CASE old' = Len(queue) /\ known' = FALSE
    <3>1. old' + 1 .. Len(queue') = {} /\ old' \in 0 .. Len(queue')
      BY <1>s, <2>1, <2>2
    <3> QED
      BY <2>1, <2>2, <3>1 DEF Ordered, WireOK, WireGood, Announces
  <2>3. CASE UNCHANGED <<old, known>>
    BY <1>t, <2>1, <2>3 DEF WireOK, WireGood, Announces
  <2> QED
    BY <2>1, <2>2, <2>3
<1>6. CASE \/ SetOptions \/ Get \/ Stop \/ Attached \/ ChannelGone \/ SignalOk
           \/ SignalTimeout \/ DetachLost \/ EndOfData \/ Receive
           \/ DeviceTaken \/ TimePasses \/ Cancel \/ Terminated
           \/ UNCHANGED vars
  <2>1. UNCHANGED <<queue, old, known, requestStreamChange, startup>>
    BY <1>6 DEF SetOptions, Get, Stop, Attached, ChannelGone, SignalOk,
         SignalTimeout, DetachLost, EndOfData, Receive, DeviceTaken,
         TimePasses, Cancel, Terminated, vars, flags, history, wire
  <2> QED
    BY <1>t, <1>r, <2>1 DEF WireOK, WireGood, Announces
<1> QED
  BY <1>1, <1>2, <1>3, <1>4, <1>5, <1>6 DEF Next, Action, ProcessAny

(***************************************************************************)
(* A channel switch, whatever fails in it.                                 *)
(***************************************************************************)
LEMMA SwitchKeepsType ==
  ASSUME QueueOK, TunerOK, FlagsOK, RestOK, SwitchFails \/ Tuned(TRUE)
  PROVE  /\ QueueOK' /\ TunerOK'
         /\ requestStreamChange' \in BOOLEAN /\ ring' \in BOOLEAN
         /\ described' \in BOOLEAN /\ buf' \in {"none", "fresh", "stale"}
<1>0. <<>> \in Seq(Items) /\ Len(<<>>) <= QueueSize
  BY EmptySeq, LiveStreamerAssumption
<1>1. CASE NotDecryptable \/ NoDevice \/ NotTuned
  <2>1. UNCHANGED <<demuxers, parsed, requestStreamChange, ring, buf, queue,
                    described>>
    BY <1>1 DEF NotDecryptable, NoDevice, NotTuned
  <2>2. attached' \in BOOLEAN /\ device' \in BOOLEAN /\ filter' \in BOOLEAN
    BY <1>1 DEF NotDecryptable, NoDevice, NotTuned, Release, TunerOK
  <2> QED
    BY <2>1, <2>2 DEF QueueOK, TunerOK, FlagsOK, RestOK
<1>2. ASSUME NEW b \in BOOLEAN, Tuned(b)
      PROVE  /\ QueueOK' /\ TunerOK'
             /\ requestStreamChange' \in BOOLEAN /\ ring' \in BOOLEAN
             /\ described' \in BOOLEAN /\ buf' \in {"none", "fresh", "stale"}
  <2>1. queue' = <<>> /\ ring' = FALSE /\ requestStreamChange' = TRUE
    BY <1>2 DEF Tuned, RequestStreamChange
  <2>2. /\ attached' \in BOOLEAN /\ device' \in BOOLEAN /\ filter' \in BOOLEAN
        /\ demuxers' \in BOOLEAN /\ parsed' \in BOOLEAN /\ described' \in BOOLEAN
    BY <1>2 DEF Tuned, CreateDemuxers, TunerOK, RestOK
  <2>3. buf' \in {"none", "fresh", "stale"}
    BY <1>2 DEF Tuned, RestOK
  <2> QED
    BY <1>0, <2>1, <2>2, <2>3 DEF QueueOK, TunerOK
<1> QED
  BY <1>1, <1>2 DEF SwitchFails

(***************************************************************************)
(* One TS packet, whatever becomes of it.                                  *)
(***************************************************************************)
LEMMA PassedKeepsType ==
  ASSUME QueueOK, FlagsOK, MuxOK, RestOK,
         NEW c \in Contents, NEW i \in BOOLEAN, NEW n \in BOOLEAN,
         Passed(c, i, n)
  PROVE  /\ QueueOK' /\ MuxOK'
         /\ startup' \in BOOLEAN /\ requestStreamChange' \in BOOLEAN
         /\ signalLost' \in BOOLEAN /\ waitforiframe' \in BOOLEAN
         /\ expired' \in BOOLEAN /\ described' \in BOOLEAN
         /\ status' \in {"none", "lost", "restored"}
<1> DEFINE pending == Pending(n)
           q       == Add(queue, Before(pending))
           two     == Before(pending) \o <<"mux">>
<1>0. pending \in BOOLEAN
  BY DEF FlagsOK, Pending
<1> HIDE DEF pending
<1>1. q \in Seq(Items) /\ Len(q) <= QueueSize
  BY <1>0, BeforeProperties, AddProperties DEF QueueOK
<1>2. <<"mux">> \in Seq(Items)
  BY DEF Items
<1>3. Add(queue, two) \in Seq(Items) /\ Len(Add(queue, two)) <= QueueSize
  <2>1. two \in Seq(Items)
    BY <1>0, <1>2, BeforeProperties, ConcatProperties
  <2> HIDE DEF two
  <2> QED
    BY <2>1, AddProperties DEF QueueOK
<1>4. startup' = FALSE
  BY DEF Passed
<1>5. CASE AwaitIFrame(i, n)
  <2>1. /\ queue' = q /\ requestStreamChange' = FALSE
        /\ UNCHANGED <<waitforiframe, signalLost, status, mux>>
    BY <1>5 DEF AwaitIFrame, pending
  <2>2. described' \in BOOLEAN /\ expired' \in BOOLEAN
    BY <1>0, <1>5 DEF AwaitIFrame, RestOK, FlagsOK, pending
  <2> QED
    BY <1>1, <1>4, <2>1, <2>2 DEF QueueOK, MuxOK, FlagsOK, RestOK
<1>6. CASE SignalRestored(c, n) /\ waitforiframe' = FALSE
  <2>1. /\ queue' = q /\ status' = "restored" /\ signalLost' = FALSE
        /\ requestStreamChange' = TRUE /\ described' = FALSE
        /\ expired' = FALSE /\ mux' = mux
    BY <1>6 DEF SignalRestored, pending
  <2> QED
    BY <1>1, <1>4, <1>6, <2>1 DEF QueueOK, MuxOK
<1>7. CASE StillLost(c, n) /\ waitforiframe' = FALSE
  <2>1. /\ queue' = q /\ requestStreamChange' = FALSE
        /\ UNCHANGED <<signalLost, expired, status, mux>>
    BY <1>7 DEF StillLost, pending
  <2>2. described' \in BOOLEAN
    BY <1>0, <1>7 DEF StillLost, RestOK, pending
  <2> QED
    BY <1>1, <1>4, <1>7, <2>1, <2>2 DEF QueueOK, MuxOK, FlagsOK, RestOK
<1>8. CASE SendMux(c, i, n) /\ waitforiframe' = FALSE
  <2>1. /\ queue' = q \/ queue' = Add(queue, two)
        /\ requestStreamChange' = FALSE /\ expired' = FALSE
        /\ UNCHANGED <<signalLost, status>>
    BY <1>8 DEF SendMux, pending
  <2>2. described' \in BOOLEAN
    BY <1>0, <1>8 DEF SendMux, RestOK, pending
  <2>3. MuxOK'
    <3> DEFINE first == IF mux.first # "none" THEN mux.first
                        ELSE IF i THEN "iframe" ELSE c
               told  == described \/ pending
    <3>1. mux' = [first |-> first, described |-> told]
      BY <1>8 DEF SendMux, pending
    <3>2. first \in {"none", "iframe"} \cup Contents
      BY DEF MuxOK
    <3>3. told \in BOOLEAN
      BY <1>0 DEF RestOK
    <3> HIDE DEF first, told
    <3> QED
      BY <3>1, <3>2, <3>3 DEF MuxOK
  <2>4. QueueOK'
    <3> HIDE DEF q, two
    <3> QED
      BY <1>1, <1>3, <2>1 DEF QueueOK
  <2> QED
    BY <1>4, <1>8, <2>1, <2>2, <2>3, <2>4 DEF FlagsOK, RestOK
<1> QED
  BY <1>5, <1>6, <1>7, <1>8 DEF Passed

LEMMA TypeInit == Init => TypeOK
<1> SUFFICES ASSUME Init PROVE TypeOK
  OBVIOUS
<1> USE LiveStreamerAssumption
<1>1. QueueOK
  BY EmptySeq DEF Init, QueueOK
<1>2. TunerOK /\ RestOK
  BY DEF Init, TunerOK, RestOK
<1>3. FlagsOK
  BY DEF Init, FlagsOK
<1>4. MuxOK
  BY DEF Init, MuxOK, NoMux
<1>5. WireOK
  <2>1. old \in 0 .. Len(queue)
    BY Tuples DEF Init
  <2> QED
    BY <2>1 DEF Init, WireOK
<1> QED
  BY <1>1, <1>2, <1>3, <1>4, <1>5, TypeParts

LEMMA TypeStep == TypeOK /\ [Next]_vars => TypeOK'
<1> SUFFICES ASSUME TypeOK, [Next]_vars
             PROVE  QueueOK' /\ TunerOK' /\ FlagsOK' /\ MuxOK' /\ RestOK'
  BY WireStep, TypeParts
     DEF TypeOK, QueueOK, TunerOK, FlagsOK, MuxOK, RestOK, WireOK, Items
<1> USE LiveStreamerAssumption
<1>t. QueueOK /\ TunerOK /\ FlagsOK /\ MuxOK /\ RestOK
  BY TypeParts
<1>1. CASE TrySwitch \/ TrySwitchFails \/ ChannelChange
  <2>1. SwitchFails \/ Tuned(TRUE)
    BY <1>1 DEF TrySwitch, TrySwitchFails, ChannelChange
  <2>2. /\ UNCHANGED <<life, options, ready, startup, signalLost, waitforiframe,
                       picture, status, mux>>
        /\ pc' \in {pc, "timeout"} /\ expired' \in {expired, FALSE}
    BY <1>1 DEF TrySwitch, TrySwitchFails, ChannelChange
  <2>3. /\ QueueOK' /\ TunerOK'
        /\ requestStreamChange' \in BOOLEAN /\ ring' \in BOOLEAN
        /\ described' \in BOOLEAN /\ buf' \in {"none", "fresh", "stale"}
    BY <1>t, <2>1, SwitchKeepsType
  <2>4. FlagsOK' /\ MuxOK'
    BY <1>t, <2>2, <2>3 DEF FlagsOK, MuxOK
  <2>5. pc' \in {"get", "attach", "timeout", "detach", "data", "ended"}
        /\ expired' \in BOOLEAN
    BY <1>t, <2>2 DEF RestOK
  <2>6. RestOK'
    BY <1>t, <2>2, <2>3, <2>5 DEF RestOK
  <2> QED
    BY <2>3, <2>4, <2>6
<1>2. ASSUME NEW c \in Contents, NEW i \in BOOLEAN, NEW n \in BOOLEAN,
             Process(c, i, n)
      PROVE  QueueOK' /\ TunerOK' /\ FlagsOK' /\ MuxOK' /\ RestOK'
  <2>1. /\ UNCHANGED <<pc, life, options, attached, device, filter, demuxers,
                       picture, ring, buf>>
        /\ parsed' \in BOOLEAN
    BY <1>2, <1>t DEF Process, TunerOK
  <2>2. ready' \in BOOLEAN
    BY <1>2, <1>t, <2>1 DEF Process, FlagsOK
  <2>3. CASE Passed(c, i, n)
    <3>1. /\ QueueOK' /\ MuxOK'
          /\ startup' \in BOOLEAN /\ requestStreamChange' \in BOOLEAN
          /\ signalLost' \in BOOLEAN /\ waitforiframe' \in BOOLEAN
          /\ expired' \in BOOLEAN /\ described' \in BOOLEAN
          /\ status' \in {"none", "lost", "restored"}
      BY <1>t, <2>3, PassedKeepsType
    <3> QED
      BY <1>t, <2>1, <2>2, <3>1 DEF TunerOK, FlagsOK, RestOK
  <2>4. CASE ~Passed(c, i, n)
    <3>1. /\ requestStreamChange' = (requestStreamChange \/ n)
          /\ described' = (described /\ ~n)
          /\ UNCHANGED <<startup, waitforiframe, signalLost, expired, queue,
                         status, mux>>
      BY <1>2, <2>4 DEF Process
    <3>2. requestStreamChange' \in BOOLEAN /\ described' \in BOOLEAN
      BY <1>t, <3>1 DEF FlagsOK, RestOK
    <3> QED
      BY <1>t, <2>1, <2>2, <3>1, <3>2 DEF QueueOK, TunerOK, FlagsOK, MuxOK, RestOK
  <2> QED
    BY <2>3, <2>4
<1>3. CASE Deliver
  <2>1. queue # <<>> /\ queue' = Tail(queue)
    BY <1>3 DEF Deliver
  <2>2. /\ queue' \in Seq(Items) /\ Len(queue') = Len(queue) - 1
        /\ Len(queue) \in Nat
    BY <1>t, <2>1, HeadTailProperties, LenProperties DEF QueueOK
  <2>3. Len(queue') <= QueueSize
    BY <1>t, <2>2 DEF QueueOK
  <2> QED
    BY <1>3, <1>t, <2>2, <2>3
       DEF Deliver, tuner, flags, history, QueueOK, TunerOK, FlagsOK, MuxOK, RestOK
<1>4. CASE Delete
  <2>1. QueueOK'
    BY <1>4, EmptySeq DEF Delete, QueueOK
  <2>2. TunerOK'
    BY <1>4, <1>t DEF Delete, Release, TunerOK
  <2>3. FlagsOK' /\ MuxOK'
    BY <1>4, <1>t DEF Delete, flags, history, FlagsOK, MuxOK
  <2>4. RestOK'
    BY <1>4, <1>t DEF Delete, history, RestOK
  <2> QED
    BY <2>1, <2>2, <2>3, <2>4
<1>5. CASE NewStreams
  <2>1. TunerOK' /\ described' \in BOOLEAN
    BY <1>5, <1>t DEF NewStreams, CreateDemuxers, TunerOK, RestOK
  <2>2. FlagsOK'
    BY <1>5, <1>t DEF NewStreams, RequestStreamChange, FlagsOK
  <2>3. QueueOK' /\ MuxOK' /\ RestOK'
    BY <1>5, <1>t, <2>1 DEF NewStreams, QueueOK, MuxOK, RestOK
  <2> QED
    BY <2>1, <2>2, <2>3
<1>6. CASE DetachLost \/ DeviceTaken \/ Receive \/ TimePasses \/ EndOfData \/ Get
  <2>1. UNCHANGED <<device, demuxers, parsed, options, life, flags, picture,
                    queue, history>>
    BY <1>6 DEF DetachLost, DeviceTaken, Receive, TimePasses, EndOfData, Get, tuner
  <2>2. attached' \in BOOLEAN /\ filter' \in BOOLEAN
    BY <1>6, <1>t DEF DetachLost, DeviceTaken, Receive, TimePasses, EndOfData,
                      Get, tuner, Release, TunerOK
  <2>3. /\ pc' \in {"get", "attach", "timeout", "detach", "data", "ended"}
        /\ ring' \in BOOLEAN /\ expired' \in BOOLEAN
        /\ buf' \in {"none", "fresh", "stale"}
    BY <1>6, <1>t DEF DetachLost, DeviceTaken, Receive, TimePasses, EndOfData,
                      Get, RestOK
  <2> QED
    BY <1>t, <2>1, <2>2, <2>3
       DEF flags, history, QueueOK, TunerOK, FlagsOK, MuxOK, RestOK
<1>7. CASE SetOptions \/ SignalTimeout
  <2>1. FlagsOK'
    BY <1>7, <1>t DEF SetOptions, SignalTimeout, FlagsOK
  <2>2. QueueOK' /\ TunerOK' /\ MuxOK'
    BY <1>7, <1>t DEF SetOptions, SignalTimeout, tuner, history, QueueOK, TunerOK, MuxOK
  <2>3. SetOptions => RestOK'
    BY <1>t DEF SetOptions, history, RestOK
  <2>4. SignalTimeout => RestOK'
    BY <1>t DEF SignalTimeout, RestOK
  <2> QED
    BY <1>7, <2>1, <2>2, <2>3, <2>4
<1>8. CASE \/ Stop \/ Attached \/ ChannelGone \/ SignalOk \/ Cancel
           \/ Terminated \/ UNCHANGED vars
  <2>1. UNCHANGED <<options, tuner, flags, expired, picture, ring, buf, queue,
                    history>>
    BY <1>8 DEF Stop, Attached, ChannelGone, SignalOk, Cancel, Terminated, vars
  <2>2. /\ pc' \in {"get", "attach", "timeout", "detach", "data", "ended"}
        /\ life' \in {"alive", "cancelled", "deleted", "crashed"}
    BY <1>8, <1>t DEF Stop, Attached, ChannelGone, SignalOk, Cancel,
                      Terminated, vars, RestOK
  <2> QED
    BY <1>t, <2>1, <2>2
       DEF tuner, flags, history, QueueOK, TunerOK, FlagsOK, MuxOK, RestOK
<1> QED
  BY <1>1, <1>2, <1>3, <1>4, <1>5, <1>6, <1>7, <1>8
     DEF Next, Action, ProcessAny

\* Every flag is a flag, and the queue never holds more than m_queuesize
\* packets, stream changes included.
THEOREM TypeCorrect == Spec => []TypeOK
BY TypeInit, TypeStep, PTL DEF Spec

\* Between a change of the demuxers, or the return of the signal, and the
\* next mux packet there is a stream change on the wire, whichever thread
\* changed them and whatever a retune takes out of the queue.
THEOREM AlwaysDescribedOnWire == Spec => []DescribedOnWire
<1>1. Init => WireGood
  BY DEF Init, WireGood, Announces, Ordered
<1>2. WireGood => DescribedOnWire
  BY DEF WireGood, Ordered, DescribedOnWire
<1> QED
  BY TypeInit, TypeStep, WireStep, <1>1, <1>2, PTL DEF Spec

-----------------------------------------------------------------------------
(***************************************************************************)
(* What the first mux packet may be.                                       *)
(***************************************************************************)

\* Between the first packet that passes and the first mux packet, only the
\* wait for an I-frame or a lost signal holds the stream up, and the wait
\* is set before it can.
Begun ==
  /\ mux.first = "other" => status # "none"
  /\ (~startup /\ mux.first = "none" /\ status = "none") => waitforiframe
  /\ waitforiframe => options

StartInv == TypeOK /\ Silent /\ Begun

LEMMA BegunStep == StartInv /\ [Next]_vars => Begun'
<1> SUFFICES ASSUME StartInv, [Next]_vars PROVE Begun'
  OBVIOUS
<1>t. /\ Silent /\ Begun /\ status \in {"none", "lost", "restored"}
      /\ MuxOK /\ FlagsOK
  BY TypeParts DEF StartInv, RestOK
<1>1. CASE SetOptions
  BY <1>1, <1>t DEF SetOptions, history, Begun
<1>2. CASE SignalTimeout
  BY <1>2, <1>t DEF SignalTimeout, Begun
<1>3. ASSUME NEW c \in Contents, NEW i \in BOOLEAN, NEW n \in BOOLEAN,
             Process(c, i, n)
      PROVE  Begun'
  <2>0. options' = options /\ (i => c = "av")
    BY <1>3 DEF Process
  <2>1. CASE Dropped(c) /\ UNCHANGED <<startup, waitforiframe, status, mux>>
    BY <1>t, <2>0, <2>1 DEF Begun
  <2>2. CASE ~Dropped(c) /\ Passed(c, i, n)
    <3>0. startup => c = "av"
      BY <2>2 DEF Dropped
    <3>1. CASE AwaitIFrame(i, n)
      BY <1>t, <2>0, <3>1 DEF AwaitIFrame, Begun
    <3>2. CASE SignalRestored(c, n) /\ waitforiframe' = FALSE
      BY <1>t, <2>0, <3>2 DEF SignalRestored, Begun
    <3>3. CASE StillLost(c, n) /\ waitforiframe' = FALSE
      BY <1>t, <2>0, <3>3 DEF StillLost, Begun, Silent
    <3>4. CASE SendMux(c, i, n) /\ waitforiframe' = FALSE
               /\ (~waitforiframe \/ i)
      <4>1. /\ mux'.first = IF mux.first # "none" THEN mux.first
                            ELSE IF i THEN "iframe" ELSE c
            /\ status' = status
        BY <3>4 DEF SendMux
      <4>2. CASE mux.first # "none"
        BY <1>t, <3>4, <4>1, <4>2 DEF Begun
      <4>3. CASE mux.first = "none"
        <5>1. mux'.first # "none"
          BY <4>1, <4>3 DEF Contents
        <5>2. mux'.first = "other" => status # "none"
          BY <1>t, <2>0, <3>0, <3>4, <4>1, <4>3 DEF Begun
        <5> QED
          BY <3>4, <4>1, <5>1, <5>2 DEF Begun
      <4> QED
        BY <4>2, <4>3
    <3> QED
      BY <2>2, <3>1, <3>2, <3>3, <3>4 DEF Passed
  <2> QED
    BY <1>3, <2>1, <2>2 DEF Process
<1>4. CASE \/ Get \/ Stop \/ Attached \/ TrySwitch \/ TrySwitchFails
           \/ ChannelGone \/ SignalOk \/ DetachLost
           \/ EndOfData \/ ChannelChange \/ NewStreams \/ Receive
           \/ DeviceTaken \/ TimePasses \/ Deliver \/ Cancel \/ Delete
           \/ Terminated \/ UNCHANGED vars
  <2>1. UNCHANGED <<startup, waitforiframe, options, status, mux>>
    BY <1>4 DEF Get, Stop, Attached, TrySwitch, TrySwitchFails,
         ChannelGone, SignalOk, DetachLost, EndOfData, ChannelChange,
         NewStreams, Receive, DeviceTaken, TimePasses, Deliver, Cancel,
         Delete, Terminated, vars, flags, history
  <2> QED
    BY <1>t, <2>1 DEF Begun
<1> QED
  BY <1>1, <1>2, <1>3, <1>4 DEF Next, Action, ProcessAny

\* A stream starts with audio or video, unless the signal was lost before
\* the first packet, whatever retunes and stream changes come in between
\* and whenever the client's options reach the running thread.
THEOREM AlwaysStartsWithAV == Spec => []StartsWithAV
<1>1. Init => StartInv
  <2> SUFFICES ASSUME Init PROVE Silent /\ Begun
    BY TypeInit DEF StartInv
  <2>1. Silent
    BY DEF Init, Silent, NoMux
  <2>2. Begun
    BY DEF Init, Begun, NoMux
  <2> QED
    BY <2>1, <2>2
<1>2. StartInv /\ [Next]_vars => StartInv'
  BY TypeStep, SilentStep, BegunStep DEF StartInv
<1>3. StartInv => StartsWithAV
  BY DEF StartInv, Begun, StartsWithAV
<1> QED
  BY <1>1, <1>2, <1>3, PTL DEF Spec
=============================================================================
