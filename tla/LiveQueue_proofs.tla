--------------------------- MODULE LiveQueue_proofs ---------------------------
(***************************************************************************)
(* Theorems about LiveQueue, for every queue size, file size, outcome of   *)
(* opening the file and bound of the model.                                *)
(***************************************************************************)
EXTENDS LiveQueue, SequenceTheorems, TLAPS

(***************************************************************************)
(* Writing records at a position inside the file or at its end gives a     *)
(* file again, long enough for what was written, with the records from     *)
(* that position on and the old content everywhere else.                   *)
(***************************************************************************)
LEMMA WrittenProperties ==
  ASSUME file \in Seq(Packets), NEW pos \in 0 .. Len(file),
         NEW s \in Seq(Packets)
  PROVE  /\ Written(pos, s) \in Seq(Packets)
         /\ Len(Written(pos, s)) = IF pos + Len(s) > Len(file)
                                     THEN pos + Len(s) ELSE Len(file)
         /\ \A i \in 1 .. Len(Written(pos, s)) :
              Written(pos, s)[i] = IF i > pos /\ i <= pos + Len(s)
                                     THEN s[i - pos] ELSE file[i]
<1> DEFINE len == IF pos + Len(s) > Len(file) THEN pos + Len(s) ELSE Len(file)
<1>1. len \in Nat /\ Len(s) \in Nat /\ Len(file) \in Nat
  BY LenProperties
<1>2. \A i \in 1 .. len :
        (IF i > pos /\ i <= pos + Len(s) THEN s[i - pos] ELSE file[i]) \in Packets
  <2> SUFFICES ASSUME NEW i \in 1 .. len
               PROVE  (IF i > pos /\ i <= pos + Len(s)
                         THEN s[i - pos] ELSE file[i]) \in Packets
    OBVIOUS
  <2>1. CASE i > pos /\ i <= pos + Len(s)
    <3>1. i - pos \in 1 .. Len(s)
      BY <1>1, <2>1
    <3> QED
      BY <2>1, <3>1, ElementOfSeq
  <2>2. CASE ~(i > pos /\ i <= pos + Len(s))
    <3>1. i \in 1 .. Len(file)
      BY <1>1, <2>2
    <3> QED
      BY <2>2, <3>1, ElementOfSeq
  <2> QED
    BY <2>1, <2>2
<1>3. Written(pos, s) \in [1 .. len -> Packets]
  BY <1>2 DEF Written
<1>4. Written(pos, s) \in Seq(Packets)
  BY <1>1, <1>3, SeqDef
<1>5. Len(Written(pos, s)) = len
  BY <1>1, <1>3, <1>4, LenProperties
<1>6. \A i \in 1 .. len : Written(pos, s)[i] = IF i > pos /\ i <= pos + Len(s)
                                                 THEN s[i - pos] ELSE file[i]
  BY DEF Written
<1> QED
  BY <1>4, <1>5, <1>6

(***************************************************************************)
(* The packet numbers of a part of the queue are packets.                  *)
(***************************************************************************)
LEMMA NumbersProperties ==
  ASSUME NEW q \in Seq(Entry)
  PROVE  /\ Numbers(q) \in Seq(Packets) /\ Len(Numbers(q)) = Len(q)
         /\ \A i \in 1 .. Len(q) : Numbers(q)[i] = q[i].n
<1>1. Len(q) \in Nat /\ DOMAIN q = 1 .. Len(q)
  BY LenProperties
<1>2. \A i \in 1 .. Len(q) : q[i].n \in Packets
  <2>1. \A i \in 1 .. Len(q) : q[i] \in Entry
    BY ElementOfSeq
  <2> QED
    BY <2>1 DEF Entry
<1>3. Numbers(q) \in [1 .. Len(q) -> Packets]
  BY <1>1, <1>2 DEF Numbers
<1>4. Numbers(q) \in Seq(Packets)
  BY <1>1, <1>3, SeqDef
<1>5. \A i \in 1 .. Len(q) : Numbers(q)[i] = q[i].n
  BY <1>1 DEF Numbers
<1> QED
  BY <1>1, <1>3, <1>4, <1>5, LenProperties

(***************************************************************************)
(* What the reader has not seen are packets of the file: those up to the   *)
(* writer, or, when the writer is a round ahead, those up to the end and   *)
(* then those up to the writer.                                            *)
(***************************************************************************)
LEMMA UnreadProperties ==
  ASSUME TypeOK
  PROVE  /\ Unread \in Seq(Packets) /\ Len(Unread) \in Nat
         /\ Len(Unread) = (IF rpos < (IF ahead THEN Len(file) ELSE wpos)
                             THEN (IF ahead THEN Len(file) ELSE wpos) - rpos ELSE 0)
                          + (IF ahead THEN wpos ELSE 0)
         /\ rpos <= Len(file) /\ ahead =>
              \A i \in 1 .. Len(Unread) :
                Unread[i] = IF i <= Len(file) - rpos THEN file[rpos + i]
                                                     ELSE file[i - (Len(file) - rpos)]
         /\ ~ahead => \A i \in 1 .. Len(Unread) : Unread[i] = file[rpos + i]
         /\ \A i \in 1 .. Len(Unread) : \E j \in 1 .. Len(file) : Unread[i] = file[j]
<1>s. /\ Len(file) \in Nat /\ rpos \in Nat /\ wpos \in Nat /\ wpos <= Len(file)
      /\ \A i \in 1 .. Len(file) : file[i] \in Packets
  BY LenProperties, ElementOfSeq DEF TypeOK
<1>1. ASSUME NEW first \in Nat, NEW last1 \in 0 .. Len(file)
      PROVE  /\ SubSeq(file, first + 1, last1) \in Seq(Packets)
             /\ Len(SubSeq(file, first + 1, last1)) =
                  IF first < last1 THEN last1 - first ELSE 0
             /\ \A i \in 1 .. last1 - first :
                  SubSeq(file, first + 1, last1)[i] = file[first + i]
  <2>1. \A i \in (first + 1) .. last1 : file[i] \in Packets
    <3>1. \A i \in (first + 1) .. last1 : i \in 1 .. Len(file)
      BY <1>s
    <3> QED
      BY <1>s, <3>1
  <2>2. /\ SubSeq(file, first + 1, last1) \in Seq(Packets)
        /\ Len(SubSeq(file, first + 1, last1)) =
             IF first + 1 <= last1 THEN last1 - (first + 1) + 1 ELSE 0
        /\ \A i \in 1 .. last1 - (first + 1) + 1 :
             SubSeq(file, first + 1, last1)[i] = file[(first + 1) + i - 1]
    BY <2>1, <1>s, SubSeqProperties
  <2>3. /\ last1 - (first + 1) + 1 = last1 - first
        /\ \A i \in 1 .. last1 - first : (first + 1) + i - 1 = first + i
        /\ first + 1 <= last1 <=> first < last1
    BY <1>s
  <2> QED
    BY <2>2, <2>3
<1>2. CASE ~ahead
  <2>1. /\ Unread \in Seq(Packets)
        /\ Len(Unread) = IF rpos < wpos THEN wpos - rpos ELSE 0
        /\ \A i \in 1 .. wpos - rpos : Unread[i] = file[rpos + i]
    BY <1>1, <1>2, <1>s DEF Unread
  <2>2. \A i \in 1 .. Len(Unread) : i \in 1 .. wpos - rpos /\ rpos + i \in 1 .. Len(file)
    BY <1>s, <2>1
  <2>3. Len(Unread) \in Nat
    BY <1>s, <2>1
  <2>4. Len(Unread) = (IF rpos < wpos THEN wpos - rpos ELSE 0) + 0
    BY <1>s, <2>1
  <2> QED
    BY <1>2, <2>1, <2>2, <2>3, <2>4
<1>3. CASE ahead
  <2> DEFINE rest == SubSeq(file, rpos + 1, Len(file))
             new  == SubSeq(file, 1, wpos)
  <2>1. /\ rest \in Seq(Packets)
        /\ Len(rest) = IF rpos < Len(file) THEN Len(file) - rpos ELSE 0
        /\ \A i \in 1 .. Len(file) - rpos : rest[i] = file[rpos + i]
    BY <1>1, <1>s
  <2>2. /\ new \in Seq(Packets) /\ Len(new) = wpos
        /\ \A i \in 1 .. wpos : new[i] = file[i]
    <3>1. /\ SubSeq(file, 0 + 1, wpos) \in Seq(Packets)
          /\ Len(SubSeq(file, 0 + 1, wpos)) = IF 0 < wpos THEN wpos - 0 ELSE 0
          /\ \A i \in 1 .. wpos - 0 : SubSeq(file, 0 + 1, wpos)[i] = file[0 + i]
      BY <1>1, <1>s
    <3>2. 0 + 1 = 1 /\ (IF 0 < wpos THEN wpos - 0 ELSE 0) = wpos /\ wpos - 0 = wpos
          /\ \A i \in 1 .. wpos : 0 + i = i
      BY <1>s
    <3> QED
      BY <3>1, <3>2
  <2> HIDE DEF rest, new
  <2>3. Unread = rest \o new
    BY <1>3 DEF Unread, rest, new
  <2>4. /\ Unread \in Seq(Packets)
        /\ Len(Unread) = Len(rest) + Len(new)
        /\ \A i \in 1 .. Len(rest) + Len(new) : Unread[i] =
             IF i <= Len(rest) THEN rest[i] ELSE new[i - Len(rest)]
    BY <2>1, <2>2, <2>3, ConcatProperties, ZenonT(30)
  <2>5. Len(rest) \in Nat /\ Len(new) \in Nat /\ Len(Unread) \in Nat
    BY <1>s, <2>1, <2>2, <2>4
  <2>6. \A i \in 1 .. Len(Unread) :
          \/ i <= Len(rest) /\ i \in 1 .. Len(file) - rpos
          \/ ~(i <= Len(rest)) /\ i - Len(rest) \in 1 .. wpos
    BY <1>s, <2>1, <2>2, <2>4, <2>5
  <2>7. \A i \in 1 .. Len(Unread) :
          Unread[i] = IF i <= Len(rest) THEN file[rpos + i] ELSE file[i - Len(rest)]
    BY <2>1, <2>2, <2>4, <2>6
  <2>8. rpos <= Len(file) => Len(rest) = Len(file) - rpos
    BY <1>s, <2>1
  <2>9. \A i \in 1 .. Len(Unread) : \E j \in 1 .. Len(file) : Unread[i] = file[j]
    <3> SUFFICES ASSUME NEW i \in 1 .. Len(Unread)
                 PROVE  \E j \in 1 .. Len(file) : Unread[i] = file[j]
      OBVIOUS
    <3>1. CASE i <= Len(rest) /\ i \in 1 .. Len(file) - rpos
      <4>1. rpos + i \in 1 .. Len(file) /\ Unread[i] = file[rpos + i]
        BY <1>s, <2>7, <3>1
      <4> QED
        BY <4>1
    <3>2. CASE ~(i <= Len(rest)) /\ i - Len(rest) \in 1 .. wpos
      <4>1. i - Len(rest) \in 1 .. Len(file) /\ Unread[i] = file[i - Len(rest)]
        BY <1>s, <2>7, <3>2
      <4> QED
        BY <4>1
    <3> QED
      BY <2>6, <3>1, <3>2
  <2>10. Len(Unread) = (IF rpos < Len(file) THEN Len(file) - rpos ELSE 0) + wpos
    BY <2>1, <2>2, <2>4
  <2> QED
    BY <1>3, <2>4, <2>5, <2>7, <2>8, <2>9, <2>10
<1> QED
  BY <1>2, <1>3

(***************************************************************************)
(* Type correctness.                                                       *)
(***************************************************************************)
LEMMA TypeInit == Init => TypeOK
<1>1. <<>> \in Seq(Entry) /\ <<>> \in Seq(Packets) /\ Len(<<>>) = 0
  BY EmptySeq
<1> SUFFICES ASSUME Init PROVE TypeOK
  OBVIOUS
<1>2. /\ queue \in Seq(Entry) /\ file \in Seq(Packets)
      /\ rpos \in Nat /\ wpos \in 0 .. Len(file)
  BY <1>1 DEF Init
<1>3. /\ inflight \in 0 .. MaxPackets /\ added \in 0 .. MaxPackets
      /\ last \in 0 .. MaxPackets /\ pauses \in 0 .. MaxPauses
  BY LiveQueueAssumption DEF Init
<1>4. /\ pause \in BOOLEAN /\ readfd \in BOOLEAN /\ writefd \in BOOLEAN
      /\ signaled \in BOOLEAN /\ ahead \in BOOLEAN
      /\ overtaken \in BOOLEAN /\ redrained \in BOOLEAN
  BY DEF Init
<1> QED
  BY <1>2, <1>3, <1>4 DEF Init, TypeOK

LEMMA TypeStep == TypeOK /\ [Next]_vars => TypeOK'
<1> SUFFICES ASSUME TypeOK, [Next]_vars PROVE TypeOK'
  OBVIOUS
<1> USE LiveQueueAssumption
<1>q. /\ Len(queue) \in Nat /\ DOMAIN queue = 1 .. Len(queue)
      /\ \A i \in DOMAIN queue : queue[i] \in Entry /\ queue[i].n \in Packets
  <2>1. queue \in Seq(Entry)
    BY DEF TypeOK
  <2>2. /\ Len(queue) \in Nat /\ DOMAIN queue = 1 .. Len(queue)
        /\ \A i \in DOMAIN queue : queue[i] \in Entry
    BY <2>1, LenProperties, ElementOfSeq
  <2> QED
    BY <2>2 DEF Entry
<1>f. Len(file) \in Nat
  BY LenProperties DEF TypeOK
<1>1. CASE AddToFile
  <2> DEFINE w == Written(wpos, <<added + 1>>)
  <2>1. added + 1 \in Packets
    BY <1>1 DEF AddToFile, Full, TypeOK, Packets
  <2>2. <<added + 1>> \in Seq(Packets) /\ Len(<<added + 1>>) = 1
    BY <2>1
  <2>3. w \in Seq(Packets) /\ Len(w) \in Nat /\ wpos + 1 <= Len(w)
    <3>1. wpos \in 0 .. Len(file) /\ file \in Seq(Packets)
      BY DEF TypeOK
    <3>2. w \in Seq(Packets) /\ Len(w) = IF wpos + 1 > Len(file)
                                           THEN wpos + 1 ELSE Len(file)
      BY <2>2, <3>1, WrittenProperties
    <3> HIDE DEF w
    <3> QED
      BY <1>f, <3>1, <3>2
  <2>4. SubSeq(w, 1, wpos + 1) \in Seq(Packets)
    <3>1. \A i \in 1 .. wpos + 1 : w[i] \in Packets
      <4>1. \A i \in 1 .. wpos + 1 : i \in 1 .. Len(w)
        BY <2>3 DEF TypeOK
      <4> QED
        BY <2>3, <4>1, ElementOfSeq
    <3> HIDE DEF w
    <3> QED
      BY <3>1, SubSeqProperties DEF TypeOK
  <2>5. file' \in Seq(Packets) /\ wpos' \in 0 .. Len(file')
    <3>1. CASE UNCHANGED <<file, wpos>>
      BY <3>1 DEF TypeOK
    <3>2. CASE file' = w /\ wpos' = wpos + 1
      BY <2>3, <3>2 DEF TypeOK
    <3>3. CASE file' = SubSeq(w, 1, wpos + 1) /\ wpos' = 0
      BY <2>4, <3>3, LenProperties
    <3> QED
      BY <1>1, <3>1, <3>2, <3>3 DEF AddToFile, Full
  <2>6. /\ added' \in 0 .. MaxPackets /\ dropped' \subseteq Packets
        /\ ahead' \in BOOLEAN /\ overtaken' \in BOOLEAN
    <3>1. added' = added + 1
      BY <1>1 DEF AddToFile, Full
    <3>2. dropped' = dropped \/ dropped' = dropped \cup {added + 1}
      BY <1>1 DEF AddToFile, Full
    <3>3. ahead' = ahead \/ ahead' = TRUE
      BY <1>1 DEF AddToFile, Full
    <3>4. added' \in 0 .. MaxPackets
      BY <2>1, <3>1 DEF TypeOK, Packets
    <3>5. dropped' \subseteq Packets
      BY <2>1, <3>2 DEF TypeOK
    <3>6. ahead' \in BOOLEAN
      BY <3>3 DEF TypeOK
    <3>7. overtaken' \in BOOLEAN
      <4>1. CASE overtaken' = overtaken
        BY <4>1 DEF TypeOK
      <4>2. CASE \/ overtaken' = (overtaken \/ (ahead /\ wpos + 1 > rpos))
                 \/ overtaken' = (overtaken \/ ahead)
        BY <4>2
      <4> QED
        BY <1>1, <4>1, <4>2 DEF AddToFile, Full
    <3> QED
      BY <3>4, <3>5, <3>6, <3>7
  <2> QED
    BY <1>1, <2>5, <2>6 DEF AddToFile, Full, TypeOK
<1>2. CASE AddDiscarded
  BY <1>2 DEF AddDiscarded, TypeOK, Packets, Signal, fileVars
<1>3. CASE AddToQueue
  <2> DEFINE e      == [n |-> added + 1, from |-> "live"]
             pushed == Append(queue, e)
             excess == IF Len(pushed) > QueueSize
                         THEN Len(pushed) - QueueSize ELSE 0
  <2>1. added + 1 \in Packets
    BY <1>3 DEF AddToQueue, Excess, TypeOK, Packets
  <2>2. e \in Entry
    BY <2>1 DEF Entry
  <2>3. pushed \in Seq(Entry) /\ Len(pushed) = Len(queue) + 1
    BY <2>2 DEF TypeOK
  <2>4. excess \in 0 .. Len(pushed)
    BY <1>q, <2>3
  <2>5. \A i \in 1 .. Len(pushed) : pushed[i] \in Entry /\ pushed[i].n \in Packets
    <3>1. \A i \in 1 .. Len(pushed) : pushed[i] \in Entry
      BY <2>3, ElementOfSeq
    <3> QED
      BY <3>1 DEF Entry
  <2>6. SubSeq(pushed, excess + 1, Len(pushed)) \in Seq(Entry)
    <3> HIDE DEF pushed, excess
    <3>1. \A i \in (excess + 1) .. Len(pushed) : pushed[i] \in Entry
      BY <1>q, <2>3, <2>4, <2>5
    <3> QED
      BY <1>q, <2>3, <2>4, <3>1, SubSeqProperties
  <2>7. {pushed[i].n : i \in 1 .. excess} \subseteq Packets
    <3> HIDE DEF pushed, excess
    <3> QED
      BY <1>q, <2>3, <2>4, <2>5
  <2>8. queue' \in Seq(Entry) /\ dropped' \subseteq Packets
    BY <1>3, <2>6, <2>7 DEF AddToQueue, Excess, TypeOK
  <2>9. added' \in 0 .. MaxPackets
    BY <1>3, <2>1 DEF AddToQueue, Excess, Packets
  <2> QED
    BY <1>3, <2>8, <2>9 DEF AddToQueue, Excess, TypeOK, Signal, fileVars
<1>4. CASE Request
  <2>1. PICK at \in {rpos, 0} :
          /\ at < Len(file)
          /\ queue' = Append(queue, [n |-> file[at + 1], from |-> "file"])
          /\ rpos' = at + 1
          /\ ahead' = (ahead /\ at = rpos)
    BY <1>4 DEF Request
  <2>2. at \in Nat
    BY DEF TypeOK
  <2>3. file[at + 1] \in Packets
    BY <1>f, <2>1, <2>2, ElementOfSeq DEF TypeOK
  <2>4. [n |-> file[at + 1], from |-> "file"] \in Entry
    BY <2>3 DEF Entry
  <2>5. queue' \in Seq(Entry)
    BY <2>1, <2>4 DEF TypeOK
  <2>6. ahead' \in BOOLEAN /\ overtaken' \in BOOLEAN
    BY <1>4, <2>1 DEF Request
  <2> QED
    BY <1>4, <2>1, <2>2, <2>5, <2>6 DEF Request, TypeOK, Signal
<1>5. CASE PauseOn
  <2>1. PICK k \in 0 .. Len(queue) :
          /\ file' = Written(wpos, Numbers(SubSeq(queue, 1, k)))
          /\ wpos' = wpos + k
          /\ dropped' = dropped \cup {queue[i].n : i \in (k + 1) .. Len(queue)}
          /\ overtaken' = (overtaken \/ (k > 0 /\ ahead /\ wpos + k > rpos))
          /\ redrained' = \/ redrained
                          \/ Unread # <<>> /\ \E i \in 1 .. k : queue[i].from = "file"
    BY <1>5 DEF PauseOn
  <2>2. SubSeq(queue, 1, k) \in Seq(Entry) /\ Len(SubSeq(queue, 1, k)) = k
    BY <1>q, SubSeqProperties
  <2>3. /\ Numbers(SubSeq(queue, 1, k)) \in Seq(Packets)
        /\ Len(Numbers(SubSeq(queue, 1, k))) = k
    BY <2>2, NumbersProperties
  <2>4. file' \in Seq(Packets) /\ wpos' \in 0 .. Len(file')
    BY <1>f, <2>1, <2>3, WrittenProperties DEF TypeOK
  <2>5. dropped' \subseteq Packets
    BY <1>q, <2>1 DEF TypeOK
  <2>6. readfd' \in BOOLEAN /\ writefd' \in BOOLEAN /\ rpos' \in Nat
    BY <1>5 DEF PauseOn, TypeOK
  <2>7. queue' \in Seq(Entry)
    BY <1>5, EmptySeq DEF PauseOn
  <2>8. pauses' \in 0 .. MaxPauses
    BY <1>5 DEF PauseOn, TypeOK
  <2>9. overtaken' \in BOOLEAN /\ redrained' \in BOOLEAN
    BY <2>1
  <2> QED
    BY <1>5, <2>1, <2>4, <2>5, <2>6, <2>7, <2>8, <2>9 DEF PauseOn, TypeOK
<1>6. CASE PauseOff
  BY <1>6 DEF PauseOff, TypeOK, Signal, fileVars, history
<1>7. CASE Cleanup
  BY <1>7, <1>q, EmptySeq DEF Cleanup, TypeOK, fileVars
<1>8. CASE Take
  <2>1. CASE queue # <<>>
    <3>1. Head(queue) \in Entry /\ Tail(queue) \in Seq(Entry)
      BY <2>1, HeadTailProperties DEF TypeOK
    <3>2. Head(queue).n \in 0 .. MaxPackets
      BY <3>1 DEF Entry, Packets
    <3> QED
      BY <1>8, <2>1, <3>1, <3>2 DEF Take, TypeOK, fileVars, history
  <2>2. CASE queue = <<>>
    BY <1>8, <2>2 DEF Take, TypeOK, fileVars, history
  <2> QED
    BY <2>1, <2>2
<1>9. CASE FirstPacket \/ Stop \/ SeePause \/ WakeFromPause \/ Send \/ IdleWake
  <2>1. CASE FirstPacket \/ WakeFromPause \/ IdleWake
    BY <2>1 DEF FirstPacket, WakeFromPause, IdleWake, TypeOK, fileVars, history
  <2>2. CASE Stop \/ SeePause
    BY <2>2 DEF Stop, SeePause, TypeOK, fileVars, history
  <2>3. CASE Send
    BY <2>3 DEF Send, TypeOK, fileVars
  <2> QED
    BY <1>9, <2>1, <2>2, <2>3
<1>10. CASE Destroy \/ Cancel
  BY <1>10 DEF Destroy, Cancel, TypeOK, Signal, fileVars, history
<1>11. CASE Join
  BY <1>11 DEF Join, TypeOK, Packets, fileVars
<1>12. CASE Close
  <2>1. Elements(Numbers(queue)) \subseteq Packets
    <3>1. Numbers(queue) \in Seq(Packets)
      BY NumbersProperties DEF TypeOK
    <3> QED
      BY <3>1, LenProperties, ElementOfSeq DEF Elements
  <2>2. Elements(Unread) \subseteq Packets
    BY UnreadProperties, LenProperties, ElementOfSeq DEF Elements
  <2> QED
    <3>1. /\ queue' \in Seq(Entry) /\ file' \in Seq(Packets)
          /\ rpos' \in Nat /\ wpos' \in 0 .. Len(file')
      BY <1>12, EmptySeq DEF Close
    <3>2. dropped' \subseteq Packets
      BY <1>12, <2>1, <2>2 DEF Close, TypeOK
    <3> QED
      BY <1>12, <3>1, <3>2 DEF Close, TypeOK
<1>13. CASE UNCHANGED vars
  BY <1>13 DEF vars, fileVars, history, TypeOK
<1> QED
  BY <1>1, <1>2, <1>3, <1>4, <1>5, <1>6, <1>7, <1>8, <1>9, <1>10, <1>11,
     <1>12, <1>13
     DEF Next, Callers, Action, Destructor, Terminated

\* Every variable keeps the type that the class declares for it, and the
\* writer's position never leaves the file.
THEOREM TypeCorrect == Spec => []TypeOK
BY TypeInit, TypeStep, PTL DEF Spec

-----------------------------------------------------------------------------
(***************************************************************************)
(* The inductive invariant behind the three bounds on queue and file.      *)
(***************************************************************************)
QueueInv == TypeOK /\ RingInv /\ QueueBound /\ ReadBackOnly

LEMMA QueueInit == Init => QueueInv
<1>1. Len(<<>>) = 0 /\ DOMAIN <<>> = {}
  BY EmptySeq
<1> SUFFICES ASSUME Init PROVE RingInv /\ QueueBound /\ ReadBackOnly
  BY TypeInit DEF QueueInv
<1>2. RingInv
  BY <1>1 DEF Init, RingInv
<1>3. QueueBound
  BY <1>1, LiveQueueAssumption DEF Init, QueueBound
<1>4. ReadBackOnly
  BY DEF Init, ReadBackOnly, TimeShiftMode
<1> QED
  BY <1>2, <1>3, <1>4

(***************************************************************************)
(* The writer stays at the end of a file that has never been cut.          *)
(***************************************************************************)
LEMMA RingStep == QueueInv /\ [Next]_vars => RingInv'
<1> SUFFICES ASSUME QueueInv, [Next]_vars PROVE RingInv'
  OBVIOUS
<1> USE LiveQueueAssumption
<1>t. TypeOK /\ TypeOK' /\ RingInv
  BY TypeStep DEF QueueInv
<1>f. Len(file) \in Nat /\ Len(file') \in Nat /\ Len(queue) \in Nat
  BY <1>t, LenProperties DEF TypeOK
<1>1. CASE AddToFile
  <2> DEFINE w == Written(wpos, <<added + 1>>)
  <2>1. w \in Seq(Packets) /\ Len(w) = IF wpos + 1 > Len(file)
                                         THEN wpos + 1 ELSE Len(file)
    <3>1. <<added + 1>> \in Seq(Packets) /\ Len(<<added + 1>>) = 1
      <4>1. added + 1 \in Packets
        BY <1>1, <1>t DEF AddToFile, Full, TypeOK, Packets
      <4> QED
        BY <4>1
    <3>2. wpos \in 0 .. Len(file) /\ file \in Seq(Packets)
      BY <1>t DEF TypeOK
    <3> QED
      BY <3>1, <3>2, WrittenProperties
  <2>2. readfd' = readfd /\ writefd' = writefd /\ rpos' = rpos
    BY <1>1 DEF AddToFile, Full
  <2>3. CASE UNCHANGED <<file, wpos>>
    BY <1>t, <2>2, <2>3 DEF RingInv
  <2>4. CASE writefd /\ file' = w /\ wpos' = wpos + 1
    <3> HIDE DEF w
    <3> QED
      BY <1>t, <1>f, <2>1, <2>2, <2>4 DEF RingInv, TypeOK
  <2>5. CASE /\ writefd /\ wpos + 1 >= BufferSize
             /\ file' = SubSeq(w, 1, wpos + 1)
    <3>1. Len(file') = wpos + 1
      <4> HIDE DEF w
      <4>1. \A i \in 1 .. wpos + 1 : i \in 1 .. Len(w)
        BY <1>t, <1>f, <2>1 DEF TypeOK
      <4>2. \A i \in 1 .. wpos + 1 : w[i] \in Packets
        BY <4>1, <2>1, ElementOfSeq
      <4> QED
        BY <1>t, <1>f, <2>5, <4>2, SubSeqProperties DEF TypeOK
    <3> QED
      BY <1>t, <1>f, <2>2, <2>5, <3>1 DEF RingInv, TypeOK
  <2> QED
    BY <1>1, <2>3, <2>4, <2>5 DEF AddToFile, Full
<1>2. CASE Request
  <2>1. PICK at \in {rpos, 0} : at < Len(file) /\ rpos' = at + 1
    BY <1>2 DEF Request
  <2>2. /\ readfd' = readfd /\ writefd' = writefd
        /\ file' = file /\ wpos' = wpos
    BY <1>2 DEF Request
  <2> QED
    BY <1>t, <1>f, <2>1, <2>2 DEF RingInv, TypeOK
<1>3. CASE PauseOn
  <2>1. PICK k \in 0 .. Len(queue) :
          /\ ~writefd' => k = 0
          /\ file' = Written(wpos, Numbers(SubSeq(queue, 1, k)))
          /\ wpos' = wpos + k
    BY <1>3 DEF PauseOn
  <2>2. Len(file') = IF wpos + k > Len(file) THEN wpos + k ELSE Len(file)
    <3>1. \A i \in 1 .. k : queue[i] \in Entry
      <4>1. \A i \in 1 .. k : i \in 1 .. Len(queue)
        BY <1>f
      <4> QED
        BY <1>t, <4>1, ElementOfSeq DEF TypeOK
    <3>2. SubSeq(queue, 1, k) \in Seq(Entry) /\ Len(SubSeq(queue, 1, k)) = k
      BY <1>f, <3>1, SubSeqProperties
    <3>3. /\ Numbers(SubSeq(queue, 1, k)) \in Seq(Packets)
          /\ Len(Numbers(SubSeq(queue, 1, k))) = k
      BY <3>2, NumbersProperties
    <3> QED
      BY <1>t, <2>1, <3>3, WrittenProperties DEF TypeOK
  <2>3. CASE readfd
    <3>1. readfd' = readfd /\ writefd' = writefd /\ rpos' = rpos
      BY <1>3, <2>3 DEF PauseOn
    <3> QED
      BY <1>t, <1>f, <2>1, <2>2, <3>1 DEF RingInv, TypeOK
  <2>4. CASE ~readfd
    <3>1. (writefd' => readfd') /\ rpos' = 0
      BY <1>3, <2>4 DEF PauseOn
    <3>2. ~writefd /\ Len(file) = 0 /\ wpos = 0
      BY <1>t, <1>f, <2>4 DEF RingInv, TypeOK
    <3> QED
      BY <1>t, <1>f, <2>1, <2>2, <3>1, <3>2 DEF RingInv, TypeOK
  <2> QED
    BY <2>3, <2>4
<1>4. CASE Close
  BY <1>4, EmptySeq DEF Close, RingInv
<1>5. CASE UNCHANGED fileVars
  BY <1>t, <1>5 DEF fileVars, RingInv
<1>6. CASE \/ AddDiscarded \/ AddToQueue \/ PauseOff \/ Cleanup
           \/ Action \/ Destroy \/ Cancel \/ Join \/ UNCHANGED vars
  <2>1. UNCHANGED fileVars
    BY <1>6 DEF AddDiscarded, AddToQueue, Excess, PauseOff, Cleanup, Action,
      FirstPacket, Stop, SeePause, WakeFromPause, Take, Send, IdleWake,
      Destroy, Cancel, Join, vars
  <2> QED
    BY <2>1, <1>5
<1> QED
  BY <1>1, <1>2, <1>3, <1>4, <1>6
     DEF Next, Callers, Destructor, Terminated

(***************************************************************************)
(* The queue grows in two ways: live packets, cut to m_queuesize, while    *)
(* there is no file; requested ones when there is.                         *)
(***************************************************************************)
LEMMA BoundStep == QueueInv /\ [Next]_vars => (QueueBound /\ ReadBackOnly)'
<1> SUFFICES ASSUME QueueInv, [Next]_vars PROVE QueueBound' /\ ReadBackOnly'
  OBVIOUS
<1> USE LiveQueueAssumption
<1>t. TypeOK /\ TypeOK' /\ RingInv /\ RingInv' /\ QueueBound /\ ReadBackOnly
  BY TypeStep, RingStep DEF QueueInv
<1>q. /\ Len(queue) \in Nat /\ DOMAIN queue = 1 .. Len(queue)
      /\ Len(queue') \in Nat /\ DOMAIN queue' = 1 .. Len(queue')
      /\ queue \in Seq(Entry)
  BY <1>t, LenProperties DEF TypeOK
<1>e. Len(<<>>) = 0 /\ DOMAIN <<>> = {}
  BY EmptySeq
<1>1. CASE AddToQueue
  <2> DEFINE pushed == Append(queue, [n |-> added + 1, from |-> "live"])
             excess == IF Len(pushed) > QueueSize
                         THEN Len(pushed) - QueueSize ELSE 0
  <2>1. queue' = SubSeq(pushed, excess + 1, Len(pushed))
    BY <1>1 DEF AddToQueue, Excess
  <2>2. pushed \in Seq(Entry) /\ Len(pushed) \in Nat
    <3>1. [n |-> added + 1, from |-> "live"] \in Entry
      BY <1>1, <1>t DEF AddToQueue, Excess, TypeOK, Entry, Packets
    <3> QED
      BY <1>q, <3>1, LenProperties
  <2>3. Len(queue') <= QueueSize
    <3> HIDE DEF pushed
    <3>1. \A i \in excess + 1 .. Len(pushed) : i \in 1 .. Len(pushed)
      BY <2>2
    <3>2. \A i \in excess + 1 .. Len(pushed) : pushed[i] \in Entry
      BY <2>2, <3>1, ElementOfSeq
    <3>3. excess \in Nat
      BY <2>2
    <3>4. Len(queue') = IF excess + 1 <= Len(pushed)
                          THEN Len(pushed) - (excess + 1) + 1 ELSE 0
      <4> HIDE DEF excess
      <4> QED
        BY <2>1, <2>2, <3>2, <3>3, SubSeqProperties
    <3> QED
      BY <2>2, <3>4
  <2>4. ~TimeShiftMode'
    BY <1>1 DEF AddToQueue, Excess, TimeShiftMode, fileVars
  <2> QED
    BY <2>3, <2>4 DEF QueueBound, ReadBackOnly, TimeShiftMode
<1>2. CASE Request
  <2>1. PICK at \in {rpos, 0} :
          /\ at < Len(file)
          /\ queue' = Append(queue, [n |-> file[at + 1], from |-> "file"])
    BY <1>2 DEF Request
  <2>2. writefd /\ writefd' = writefd
    <3>1. at \in Nat /\ Len(file) \in Nat
      BY <1>t, LenProperties DEF TypeOK
    <3> QED
      BY <1>2, <1>t, <2>1, <3>1 DEF Request, RingInv
  <2>3. \A i \in DOMAIN queue' : queue'[i].from = "file"
    <3>1. \A i \in DOMAIN queue : queue[i].from = "file"
      BY <1>t, <2>2 DEF ReadBackOnly
    <3> QED
      BY <1>q, <2>1, <3>1
  <2> QED
    BY <2>2, <2>3 DEF QueueBound, ReadBackOnly
<1>3. CASE PauseOn \/ Cleanup \/ Close
  <2>1. queue' = <<>>
    BY <1>3 DEF PauseOn, Cleanup, Close
  <2> QED
    BY <1>e, <2>1 DEF QueueBound, ReadBackOnly
<1>4. CASE Take
  <2>1. CASE queue # <<>>
    <3>1. queue' = Tail(queue)
      BY <1>4, <2>1 DEF Take
    <3>2. /\ Len(queue') = Len(queue) - 1
          /\ \A i \in 1 .. Len(queue') : queue'[i] = queue[i + 1]
      BY <1>q, <2>1, <3>1, HeadTailProperties
    <3>3. pause' = pause /\ writefd' = writefd
      BY <1>4 DEF Take, fileVars
    <3>4. \A i \in DOMAIN queue' : i + 1 \in DOMAIN queue
      BY <1>q, <3>2
    <3>5. QueueBound'
      BY <1>q, <1>t, <3>2, <3>3 DEF QueueBound
    <3>6. ReadBackOnly'
      BY <1>q, <1>t, <3>2, <3>3, <3>4 DEF ReadBackOnly
    <3> QED
      BY <3>5, <3>6
  <2>2. CASE queue = <<>>
    BY <1>4, <1>t, <2>2
       DEF Take, QueueBound, ReadBackOnly, fileVars
  <2> QED
    BY <2>1, <2>2
<1>5. CASE \/ AddToFile \/ AddDiscarded \/ PauseOff
           \/ FirstPacket \/ Stop \/ SeePause \/ WakeFromPause
           \/ Send \/ IdleWake \/ Destroy \/ Cancel \/ Join
           \/ UNCHANGED vars
  <2>1. queue' = queue /\ writefd' = writefd /\ (pause' => pause)
    BY <1>5 DEF AddToFile, Full, AddDiscarded, PauseOff,
      FirstPacket, Stop, SeePause, WakeFromPause, Send, IdleWake,
      Destroy, Cancel, Join, vars, fileVars
  <2> QED
    BY <1>t, <2>1 DEF QueueBound, ReadBackOnly
<1> QED
  BY <1>1, <1>2, <1>3, <1>4, <1>5
     DEF Next, Callers, Action, Destructor, Terminated

LEMMA QueueInvariant == Spec => []QueueInv
<1>1. QueueInv /\ [Next]_vars => QueueInv'
  BY TypeStep, RingStep, BoundStep DEF QueueInv
<1> QED
  BY QueueInit, <1>1, PTL DEF Spec

\* Outside timeshift a client that does not read costs at most m_queuesize
\* packets of memory (Add, livequeue.c:141-144).
THEOREM QueueBounded == Spec => []QueueBound
<1>1. QueueInv => QueueBound
  BY DEF QueueInv
<1> QED
  BY QueueInvariant, <1>1, PTL

\* In timeshift mode every packet of the queue was read back from the file
\* (Add, Pause and Request together).
THEOREM OnlyReadBack == Spec => []ReadBackOnly
<1>1. QueueInv => ReadBackOnly
  BY DEF QueueInv
<1> QED
  BY QueueInvariant, <1>1, PTL

\* A Request that finds nothing has caught up with the writer: the test of
\* the reader's position against BufferSize (livequeue.c:71-75) starts it
\* over whenever that is needed, also after the drain of Pause made the
\* file longer than BufferSize.
THEOREM NotStranded == Spec => []ReaderNotStranded
<1>1. QueueInv => ReaderNotStranded
  <2> SUFFICES ASSUME QueueInv, rpos >= Len(file), rpos < BufferSize
               PROVE  rpos = wpos
    BY DEF ReaderNotStranded
  <2>1. Len(file) \in Nat /\ rpos \in Nat /\ wpos \in Nat
    BY LenProperties DEF QueueInv, TypeOK
  <2> QED
    BY <2>1, LiveQueueAssumption DEF QueueInv, RingInv
<1> QED
  BY QueueInvariant, <1>1, PTL
-----------------------------------------------------------------------------
(***************************************************************************)
(* The order of the packets.  What follows is stated per position of the   *)
(* queue and of the file, and carried over to Pipeline at the end.         *)
(***************************************************************************)

\* Every packet known anywhere has been added, and the thread sends one.
OnlyAdded ==
  /\ pc = "send" => inflight # 0
  /\ last <= added /\ inflight <= added
  /\ \A i \in 1 .. Len(queue) : queue[i].n <= added
  /\ \A i \in 1 .. Len(file) : file[i] <= added
  /\ \A n \in dropped : n <= added

\* As long as neither has lapped the other, the writer is ahead of the
\* reader in the same round, or behind it in the next one.
Rounds ==
  ~overtaken => \/ ~ahead /\ rpos <= wpos
                \/ ahead /\ wpos <= rpos /\ rpos <= Len(file) /\ Len(file) > 0

\* Neither lapped nor fed with its own packets out of turn: the packet being
\* sent is older than those of the queue, which are older than those the
\* reader has not seen.
Straight ==
  (~overtaken /\ ~redrained) =>
    /\ inflight # 0 => last < inflight
    /\ \A i \in 1 .. Len(queue) : last < queue[i].n /\ inflight < queue[i].n
    /\ \A i \in 1 .. Len(Unread) : last < Unread[i] /\ inflight < Unread[i]
    /\ \A i \in 1 .. Len(queue) : \A j \in 1 .. Len(Unread) :
         queue[i].n < Unread[j]
    /\ \A i, j \in 1 .. Len(queue) : i < j => queue[i].n < queue[j].n
    /\ \A i, j \in 1 .. Len(Unread) : i < j => Unread[i] < Unread[j]

OrderInv == QueueInv /\ OnlyAdded /\ Rounds /\ Straight

LEMMA OrderInit == Init => OrderInv
<1>1. Len(<<>>) = 0
  BY EmptySeq
<1> SUFFICES ASSUME Init PROVE OnlyAdded /\ Rounds /\ Straight
  BY QueueInit DEF OrderInv
<1>2. OnlyAdded
  BY <1>1 DEF Init, OnlyAdded
<1>3. Rounds
  BY DEF Init, Rounds
<1>4. Straight
  <2>1. Len(Unread) = 0
    <3>1. TypeOK /\ ~ahead /\ rpos = 0 /\ wpos = 0
      BY TypeInit DEF Init
    <3> QED
      BY <3>1, UnreadProperties
  <2> QED
    BY <1>1, <2>1 DEF Init, Straight
<1> QED
  BY <1>2, <1>3, <1>4

(***************************************************************************)
(* Types in the form the arithmetic of the next proofs needs.              *)
(***************************************************************************)
LEMMA Shapes ==
  ASSUME TypeOK
  PROVE  /\ Len(queue) \in Nat /\ Len(file) \in Nat
         /\ rpos \in Nat /\ wpos \in Nat /\ wpos <= Len(file)
         /\ inflight \in Nat /\ last \in Nat /\ added \in Nat
         /\ \A i \in 1 .. Len(queue) : queue[i].n \in Nat /\ queue[i].n > 0
         /\ \A i \in 1 .. Len(file) : file[i] \in Nat /\ file[i] > 0
         /\ \A n \in dropped : n \in Nat
<1>1. /\ Len(queue) \in Nat
      /\ \A i \in 1 .. Len(queue) : queue[i] \in Entry
  BY LenProperties, ElementOfSeq DEF TypeOK
<1>2. /\ Len(file) \in Nat
      /\ \A i \in 1 .. Len(file) : file[i] \in Packets
  BY LenProperties, ElementOfSeq DEF TypeOK
<1>3. \A i \in 1 .. Len(queue) : queue[i].n \in Packets
  BY <1>1 DEF Entry
<1> QED
  BY <1>1, <1>2, <1>3, LiveQueueAssumption DEF TypeOK, Packets

(***************************************************************************)
(* What each kind of step does to queue and file, position by position.    *)
(***************************************************************************)
LEMMA AddToFileEffect ==
  ASSUME TypeOK, AddToFile
  PROVE  /\ added' = added + 1
         /\ UNCHANGED <<queue, inflight, last, pc, rpos, redrained, writefd>>
         /\ \/ /\ UNCHANGED <<file, wpos, ahead, overtaken>>
               /\ dropped' = dropped \cup {added + 1}
            \/ /\ UNCHANGED dropped
               /\ writefd
               /\ \/ /\ wpos' = wpos + 1 /\ ahead' = ahead
                     /\ overtaken' = (overtaken \/ (ahead /\ wpos + 1 > rpos))
                     /\ Len(file') = IF wpos + 1 > Len(file)
                                       THEN wpos + 1 ELSE Len(file)
                  \/ /\ wpos' = 0 /\ ahead' = TRUE
                     /\ overtaken' = (overtaken \/ ahead)
                     /\ Len(file') = wpos + 1
               /\ \A i \in 1 .. Len(file') :
                    file'[i] = IF i = wpos + 1 THEN added + 1 ELSE file[i]
               /\ \A i \in 1 .. Len(file') : i <= Len(file) \/ i = wpos + 1
<1> DEFINE w == Written(wpos, <<added + 1>>)
<1>1. added + 1 \in Packets
  BY LiveQueueAssumption DEF AddToFile, Full, TypeOK, Packets
<1>2. <<added + 1>> \in Seq(Packets) /\ Len(<<added + 1>>) = 1
  BY <1>1
<1>3. wpos \in 0 .. Len(file) /\ file \in Seq(Packets)
  BY DEF TypeOK
<1>4. /\ w \in Seq(Packets)
      /\ Len(w) = IF wpos + 1 > Len(file) THEN wpos + 1 ELSE Len(file)
      /\ \A i \in 1 .. Len(w) :
           w[i] = IF i > wpos /\ i <= wpos + 1
                    THEN <<added + 1>>[i - wpos] ELSE file[i]
  BY <1>2, <1>3, WrittenProperties
<1>5. Len(w) \in Nat /\ Len(file) \in Nat /\ wpos \in Nat /\ added \in Nat
  <2> HIDE DEF w
  <2> QED
    BY <1>3, <1>4, LenProperties DEF TypeOK
<1>6. \A i \in 1 .. Len(w) : w[i] = IF i = wpos + 1 THEN added + 1 ELSE file[i]
  <2> HIDE DEF w
  <2> SUFFICES ASSUME NEW i \in 1 .. Len(w)
               PROVE  w[i] = IF i = wpos + 1 THEN added + 1 ELSE file[i]
    OBVIOUS
  <2>1. CASE i = wpos + 1
    <3>1. i - wpos = 1 /\ i > wpos /\ i <= wpos + 1
      BY <1>5, <2>1
    <3>2. w[i] = <<added + 1>>[1]
      BY <1>4, <3>1
    <3> QED
      BY <2>1, <3>2
  <2>2. CASE i # wpos + 1
    BY <1>4, <1>5, <2>2
  <2> QED
    BY <2>1, <2>2
<1>7. CASE /\ writefd /\ file' = w /\ wpos' = wpos + 1 /\ UNCHANGED <<ahead, dropped>>
           /\ overtaken' = (overtaken \/ (ahead /\ wpos + 1 > rpos))
  <2>1. /\ Len(file') = IF wpos + 1 > Len(file) THEN wpos + 1 ELSE Len(file)
        /\ \A i \in 1 .. Len(file') : i <= Len(file) \/ i = wpos + 1
    <3> HIDE DEF w
    <3> QED
      BY <1>3, <1>4, <1>5, <1>7
  <2>2. \A i \in 1 .. Len(file') :
          file'[i] = IF i = wpos + 1 THEN added + 1 ELSE file[i]
    BY <1>6, <1>7
  <2> QED
    BY <1>7, <2>1, <2>2 DEF AddToFile, Full
<1>8. CASE /\ writefd /\ file' = SubSeq(w, 1, wpos + 1)
           /\ wpos' = 0 /\ ahead' = TRUE /\ overtaken' = (overtaken \/ ahead)
           /\ UNCHANGED dropped
  <2> HIDE DEF w
  <2>1. \A i \in 1 .. wpos + 1 : i \in 1 .. Len(w)
    BY <1>3, <1>4, <1>5
  <2>2. \A i \in 1 .. wpos + 1 : w[i] \in Packets
    BY <1>4, <2>1, ElementOfSeq
  <2>3. /\ Len(file') = wpos + 1
        /\ \A i \in 1 .. wpos + 1 : file'[i] = w[i]
    <3>1. /\ Len(file') = IF 1 <= wpos + 1 THEN wpos + 1 - 1 + 1 ELSE 0
          /\ \A i \in 1 .. wpos + 1 - 1 + 1 : file'[i] = w[1 + i - 1]
      BY <1>5, <1>8, <2>2, SubSeqProperties
    <3> QED
      BY <1>5, <3>1
  <2>4. \A i \in 1 .. Len(file') :
          /\ file'[i] = IF i = wpos + 1 THEN added + 1 ELSE file[i]
          /\ i <= Len(file) \/ i = wpos + 1
    BY <1>3, <1>5, <1>6, <2>1, <2>3
  <2> QED
    BY <1>8, <2>3, <2>4 DEF AddToFile, Full
<1>9. CASE UNCHANGED <<file, wpos, ahead, overtaken>> /\ dropped' = dropped \cup {added + 1}
  BY <1>9 DEF AddToFile, Full
<1> QED
  BY <1>7, <1>8, <1>9 DEF AddToFile, Full

LEMMA AddToQueueEffect ==
  ASSUME TypeOK, AddToQueue
  PROVE  /\ added' = added + 1
         /\ UNCHANGED <<file, rpos, wpos, inflight, last, pc,
                        ahead, overtaken, redrained>>
         /\ ~writefd
         /\ \E e \in 0 .. Len(queue) :
              /\ Len(queue') = Len(queue) + 1 - e
              /\ \A i \in 1 .. Len(queue') :
                   queue'[i].n = IF i + e = Len(queue) + 1 THEN added + 1
                                                           ELSE queue[i + e].n
              /\ dropped' = dropped \cup {queue[i].n : i \in 1 .. e}
<1> USE LiveQueueAssumption
<1> DEFINE x      == [n |-> added + 1, from |-> "live"]
           pushed == Append(queue, x)
           excess == IF Len(pushed) > QueueSize
                       THEN Len(pushed) - QueueSize ELSE 0
<1>1. x \in Entry
  BY DEF AddToQueue, Excess, TypeOK, Entry, Packets
<1>2. /\ pushed \in Seq(Entry) /\ Len(pushed) = Len(queue) + 1
      /\ \A i \in 1 .. Len(queue) : pushed[i] = queue[i]
      /\ pushed[Len(queue) + 1] = x
  BY <1>1, AppendProperties DEF TypeOK
<1>3. Len(queue) \in Nat
  BY LenProperties DEF TypeOK
<1>4. excess \in 0 .. Len(queue) /\ Len(pushed) \in Nat
  BY <1>2, <1>3
<1>5. /\ queue' = SubSeq(pushed, excess + 1, Len(pushed))
      /\ dropped' = dropped \cup {pushed[i].n : i \in 1 .. excess}
  BY DEF AddToQueue, Excess
<1> HIDE DEF pushed, excess
<1>6. /\ Len(queue') = Len(queue) + 1 - excess
      /\ \A i \in 1 .. Len(queue') : queue'[i] = pushed[i + excess]
  <2>1. \A i \in (excess + 1) .. Len(pushed) : i \in 1 .. Len(pushed)
    BY <1>4
  <2>2. \A i \in (excess + 1) .. Len(pushed) : pushed[i] \in Entry
    BY <1>2, <2>1, ElementOfSeq
  <2>3. excess + 1 \in Int /\ Len(pushed) \in Int
    BY <1>4
  <2>4. /\ Len(queue') = IF excess + 1 <= Len(pushed)
                           THEN Len(pushed) - (excess + 1) + 1 ELSE 0
        /\ \A i \in 1 .. Len(pushed) - (excess + 1) + 1 :
             queue'[i] = pushed[(excess + 1) + i - 1]
    BY <1>5, <2>2, <2>3, SubSeqProperties
  <2>5. Len(queue') = Len(queue) + 1 - excess
    BY <1>2, <1>3, <1>4, <2>4
  <2>6. \A i \in 1 .. Len(queue') : (excess + 1) + i - 1 = i + excess
    BY <1>3, <1>4, <2>5
  <2>7. Len(pushed) - (excess + 1) + 1 = Len(queue')
    BY <1>2, <1>3, <1>4, <2>5
  <2> QED
    BY <2>4, <2>5, <2>6, <2>7
<1>7. \A i \in 1 .. Len(queue') :
        queue'[i].n = IF i + excess = Len(queue) + 1 THEN added + 1
                                                     ELSE queue[i + excess].n
  <2> SUFFICES ASSUME NEW i \in 1 .. Len(queue')
               PROVE  queue'[i].n = IF i + excess = Len(queue) + 1 THEN added + 1
                                      ELSE queue[i + excess].n
    OBVIOUS
  <2>1. i + excess = Len(queue) + 1 \/ i + excess \in 1 .. Len(queue)
    BY <1>3, <1>4, <1>6
  <2>2. x.n = added + 1
    OBVIOUS
  <2> HIDE DEF x
  <2>3. CASE i + excess = Len(queue) + 1
    BY <1>2, <1>6, <2>2, <2>3
  <2>4. CASE i + excess # Len(queue) + 1
    BY <1>2, <1>6, <2>1, <2>4
  <2> QED
    BY <2>3, <2>4
<1>8. {pushed[i].n : i \in 1 .. excess} = {queue[i].n : i \in 1 .. excess}
  <2>1. \A i \in 1 .. excess : pushed[i] = queue[i]
    BY <1>2, <1>3, <1>4
  <2> QED
    BY <2>1
<1>9. ~writefd /\ added' = added + 1
      /\ UNCHANGED <<file, rpos, wpos, inflight, last, pc,
                     ahead, overtaken, redrained>>
  BY DEF AddToQueue, Excess, TimeShiftMode, fileVars
<1> QED
  BY <1>4, <1>5, <1>6, <1>7, <1>8, <1>9

LEMMA RequestEffect ==
  ASSUME TypeOK, Request
  PROVE  /\ UNCHANGED <<file, wpos, inflight, last, pc, redrained, added, dropped>>
         /\ overtaken' = (overtaken \/ Unread = <<>>)
         /\ \E at \in {rpos, 0} :
              /\ at = rpos \/ rpos >= Len(file)
              /\ at < Len(file)
              /\ rpos' = at + 1 /\ ahead' = (ahead /\ at = rpos)
              /\ Len(queue') = Len(queue) + 1
              /\ \A i \in 1 .. Len(queue') :
                   queue'[i].n = IF i = Len(queue) + 1 THEN file[at + 1]
                                                       ELSE queue[i].n
<1>1. PICK at \in {rpos, 0} :
        /\ at = rpos \/ rpos >= Len(file)
        /\ at < Len(file)
        /\ queue' = Append(queue, [n |-> file[at + 1], from |-> "file"])
        /\ rpos' = at + 1 /\ ahead' = (ahead /\ at = rpos)
  BY DEF Request
<1> DEFINE x == [n |-> file[at + 1], from |-> "file"]
<1>2. Len(queue) \in Nat /\ Len(file) \in Nat /\ at \in Nat
  BY LenProperties DEF TypeOK
<1>3. x \in Entry
  <2>1. at + 1 \in 1 .. Len(file)
    BY <1>1, <1>2
  <2>2. file[at + 1] \in Packets
    BY <2>1, ElementOfSeq DEF TypeOK
  <2> QED
    BY <2>2 DEF Entry
<1>4. x.n = file[at + 1]
  OBVIOUS
<1>5. /\ Len(queue') = Len(queue) + 1
      /\ \A i \in 1 .. Len(queue) : queue'[i] = queue[i]
      /\ queue'[Len(queue) + 1] = x
  BY <1>1, <1>3, AppendProperties DEF TypeOK
<1>6. \A i \in 1 .. Len(queue') :
        queue'[i].n = IF i = Len(queue) + 1 THEN file[at + 1] ELSE queue[i].n
  <2> HIDE DEF x
  <2> QED
    BY <1>2, <1>4, <1>5
<1>7. /\ UNCHANGED <<file, wpos, inflight, last, pc, redrained, added, dropped>>
      /\ overtaken' = (overtaken \/ Unread = <<>>)
  BY DEF Request
<1> QED
  BY <1>1, <1>5, <1>6, <1>7

LEMMA PauseOnEffect ==
  ASSUME TypeOK, RingInv, ReadBackOnly, PauseOn
  PROVE  /\ UNCHANGED <<inflight, last, pc, ahead, added, rpos>>
         /\ Len(queue') = 0
         /\ \E k \in 0 .. Len(queue) :
              /\ wpos' = wpos + k
              /\ Len(file') = IF wpos + k > Len(file) THEN wpos + k ELSE Len(file)
              /\ \A i \in 1 .. Len(file') :
                   file'[i] = IF i > wpos /\ i <= wpos + k THEN queue[i - wpos].n
                                                           ELSE file[i]
              /\ dropped' = dropped \cup {queue[i].n : i \in (k + 1) .. Len(queue)}
              /\ overtaken' = (overtaken \/ (k > 0 /\ ahead /\ wpos + k > rpos))
              /\ redrained => redrained'
              /\ redrained' \/ k = 0 \/ Unread = <<>>
<1>1. PICK k \in 0 .. Len(queue) :
        /\ ~writefd' => k = 0
        /\ file' = Written(wpos, Numbers(SubSeq(queue, 1, k)))
        /\ wpos' = wpos + k
        /\ dropped' = dropped \cup {queue[i].n : i \in (k + 1) .. Len(queue)}
        /\ overtaken' = (overtaken \/ (k > 0 /\ ahead /\ wpos + k > rpos))
        /\ redrained' = \/ redrained
                        \/ Unread # <<>> /\ \E i \in 1 .. k : queue[i].from = "file"
  BY DEF PauseOn
<1> DEFINE q == SubSeq(queue, 1, k)
<1>2. /\ Len(queue) \in Nat /\ Len(file) \in Nat /\ wpos \in Nat /\ k \in Nat
      /\ DOMAIN queue = 1 .. Len(queue)
  BY LenProperties DEF TypeOK
<1>3. /\ q \in Seq(Entry) /\ Len(q) = k
      /\ \A i \in 1 .. k : q[i] = queue[i]
  <2>1. \A i \in 1 .. k : i \in 1 .. Len(queue)
    BY <1>2
  <2>2. \A i \in 1 .. k : queue[i] \in Entry
    BY <2>1, ElementOfSeq DEF TypeOK
  <2>3. /\ q \in Seq(Entry)
        /\ Len(q) = IF 1 <= k THEN k - 1 + 1 ELSE 0
        /\ \A i \in 1 .. k - 1 + 1 : q[i] = queue[1 + i - 1]
    BY <1>2, <2>2, SubSeqProperties
  <2> HIDE DEF q
  <2> QED
    BY <1>2, <2>3
<1> HIDE DEF q
<1>4. /\ Numbers(q) \in Seq(Packets) /\ Len(Numbers(q)) = k
      /\ \A i \in 1 .. k : Numbers(q)[i] = queue[i].n
  BY <1>3, NumbersProperties
<1>5. /\ Len(file') = IF wpos + k > Len(file) THEN wpos + k ELSE Len(file)
      /\ \A i \in 1 .. Len(file') :
           file'[i] = IF i > wpos /\ i <= wpos + k THEN Numbers(q)[i - wpos]
                                                   ELSE file[i]
  BY <1>1, <1>4, WrittenProperties DEF TypeOK, q
<1>6. \A i \in 1 .. Len(file') :
        file'[i] = IF i > wpos /\ i <= wpos + k THEN queue[i - wpos].n
                                                ELSE file[i]
  <2>1. \A i \in 1 .. Len(file') :
          i > wpos /\ i <= wpos + k => i - wpos \in 1 .. k
    BY <1>2
  <2> QED
    BY <1>4, <1>5, <2>1
<1>7. rpos' = rpos
  <2>1. CASE readfd
    BY <2>1 DEF PauseOn
  <2>2. CASE ~readfd
    <3>1. Len(file) = 0
      BY <2>2 DEF RingInv
    <3>2. rpos = 0 /\ rpos \in Nat
      BY <1>2, <3>1, LiveQueueAssumption DEF RingInv, TypeOK
    <3> QED
      BY <2>2, <3>2 DEF PauseOn
  <2> QED
    BY <2>1, <2>2
<1>8. redrained' \/ k = 0 \/ Unread = <<>>
  <2> SUFFICES ASSUME k # 0, Unread # <<>> PROVE redrained'
    OBVIOUS
  <2>1. writefd
    <3>1. Len(Unread) \in Nat /\ Len(Unread) # 0
      BY UnreadProperties, EmptySeq
    <3>2. 1 \in 1 .. Len(Unread)
      BY <3>1
    <3>3. Len(file) # 0
      BY <3>2, <1>2, UnreadProperties
    <3> QED
      BY <3>3 DEF RingInv
  <2>2. 1 \in 1 .. k /\ 1 \in DOMAIN queue
    BY <1>2
  <2>3. queue[1].from = "file"
    BY <2>1, <2>2 DEF ReadBackOnly
  <2> QED
    BY <1>1, <2>2, <2>3
<1>9. Len(queue') = 0
  BY EmptySeq DEF PauseOn
<1>10. UNCHANGED <<inflight, last, pc, ahead, added>>
  BY DEF PauseOn
<1> QED
  BY <1>1, <1>5, <1>6, <1>7, <1>8, <1>9, <1>10

LEMMA TakeEffect ==
  ASSUME TypeOK, Take
  PROVE  /\ UNCHANGED <<file, rpos, wpos, last, ahead, overtaken, redrained,
                        added, dropped>>
         /\ \/ UNCHANGED <<queue, inflight>> /\ pc' = "idle"
            \/ /\ Len(queue) # 0 /\ inflight' = queue[1].n /\ pc' = "send"
               /\ Len(queue') = Len(queue) - 1
               /\ \A i \in 1 .. Len(queue') : queue'[i].n = queue[i + 1].n
<1>1. UNCHANGED <<file, rpos, wpos, last, ahead, overtaken, redrained,
                     added, dropped>>
  BY DEF Take, fileVars, history
<1>2. CASE queue # <<>>
  <2>1. inflight' = Head(queue).n /\ queue' = Tail(queue) /\ pc' = "send"
    BY <1>2 DEF Take
  <2>2. /\ Len(queue') = Len(queue) - 1
        /\ \A i \in 1 .. Len(queue') : queue'[i] = queue[i + 1]
    BY <1>2, <2>1, HeadTailProperties DEF TypeOK
  <2>3. Len(queue) # 0 /\ Head(queue) = queue[1]
    BY <1>2, EmptySeq DEF TypeOK
  <2> QED
    BY <1>1, <2>1, <2>2, <2>3
<1>3. CASE queue = <<>>
  BY <1>1, <1>3 DEF Take
<1> QED
  BY <1>2, <1>3

(***************************************************************************)
(* The remaining steps leave file and positions alone, unless they empty   *)
(* them.                                                                   *)
(***************************************************************************)
Idle == \/ PauseOff \/ FirstPacket \/ Stop \/ SeePause \/ WakeFromPause
        \/ IdleWake \/ Destroy \/ Cancel \/ UNCHANGED vars

LEMMA IdleEffect ==
  ASSUME Idle
  PROVE  /\ UNCHANGED <<queue, file, rpos, wpos, inflight, last, added,
                        dropped, ahead, overtaken, redrained>>
         /\ pc' = "send" => pc = "send"
  BY DEF Idle, PauseOff, FirstPacket, Stop, SeePause, WakeFromPause, IdleWake,
         Destroy, Cancel, vars, fileVars, history

LEMMA Steps ==
  ASSUME [Next]_vars
  PROVE  \/ AddToFile \/ AddDiscarded \/ AddToQueue \/ Request \/ PauseOn
         \/ Cleanup \/ Take \/ Send \/ Join \/ Close \/ Idle
  BY DEF Next, Callers, Action, Destructor, Terminated, Idle

(***************************************************************************)
(* No step makes up a packet.                                              *)
(***************************************************************************)
LEMMA AddedStep == OrderInv /\ [Next]_vars => OnlyAdded'
<1> SUFFICES ASSUME OrderInv, [Next]_vars PROVE OnlyAdded'
  OBVIOUS
<1>t. /\ TypeOK /\ RingInv /\ ReadBackOnly /\ OnlyAdded
      /\ Len(queue') \in Nat /\ Len(file') \in Nat
  BY TypeStep, LenProperties DEF OrderInv, QueueInv, TypeOK
<1>s. /\ Len(queue) \in Nat /\ Len(file) \in Nat
      /\ rpos \in Nat /\ wpos \in Nat /\ wpos <= Len(file)
      /\ inflight \in Nat /\ last \in Nat /\ added \in Nat
      /\ \A i \in 1 .. Len(queue) : queue[i].n \in Nat /\ queue[i].n > 0
      /\ \A i \in 1 .. Len(file) : file[i] \in Nat /\ file[i] > 0
      /\ \A n \in dropped : n \in Nat
  BY <1>t, Shapes
<1>1. CASE AddToFile
  <2>1. added' = added + 1 /\ UNCHANGED <<queue, inflight, last, pc>>
    BY <1>1, <1>t, AddToFileEffect
  <2>2. \A n \in dropped' : n <= added'
    <3>1. dropped' = dropped \/ dropped' = dropped \cup {added + 1}
      BY <1>1, <1>t, AddToFileEffect
    <3> QED
      BY <1>t, <1>s, <2>1, <3>1 DEF OnlyAdded
  <2>3. \A i \in 1 .. Len(file') : file'[i] <= added'
    <3>1. CASE file' = file
      BY <1>t, <1>s, <2>1, <3>1 DEF OnlyAdded
    <3>2. CASE \A i \in 1 .. Len(file') :
                 /\ file'[i] = IF i = wpos + 1 THEN added + 1 ELSE file[i]
                 /\ i <= Len(file) \/ i = wpos + 1
      BY <1>t, <1>s, <2>1, <3>2 DEF OnlyAdded
    <3> QED
      BY <1>1, <1>t, <3>1, <3>2, AddToFileEffect
  <2> QED
    BY <1>t, <1>s, <2>1, <2>2, <2>3 DEF OnlyAdded
<1>2. CASE AddDiscarded
  BY <1>2, <1>t, <1>s DEF OnlyAdded, AddDiscarded, fileVars
<1>3. CASE AddToQueue
  <2>1. PICK e \in 0 .. Len(queue) :
          /\ Len(queue') = Len(queue) + 1 - e
          /\ \A i \in 1 .. Len(queue') :
               queue'[i].n = IF i + e = Len(queue) + 1 THEN added + 1
                                                       ELSE queue[i + e].n
          /\ dropped' = dropped \cup {queue[i].n : i \in 1 .. e}
    BY <1>3, <1>t, AddToQueueEffect
  <2>2. /\ added' = added + 1
        /\ UNCHANGED <<file, inflight, last, pc>>
    BY <1>3, <1>t, AddToQueueEffect
  <2>3. \A i \in 1 .. Len(queue') :
          i + e = Len(queue) + 1 \/ i + e \in 1 .. Len(queue)
    BY <1>s, <2>1
  <2>4. \A i \in 1 .. Len(queue') : queue'[i].n <= added'
    BY <1>t, <1>s, <2>1, <2>2, <2>3 DEF OnlyAdded
  <2>5. \A n \in dropped' : n <= added'
    BY <1>t, <1>s, <2>1, <2>2 DEF OnlyAdded
  <2> QED
    BY <1>t, <1>s, <2>2, <2>4, <2>5 DEF OnlyAdded
<1>4. CASE Request
  <2>1. PICK at \in {rpos, 0} :
          /\ at < Len(file)
          /\ Len(queue') = Len(queue) + 1
          /\ \A i \in 1 .. Len(queue') :
               queue'[i].n = IF i = Len(queue) + 1 THEN file[at + 1]
                                                   ELSE queue[i].n
    BY <1>4, <1>t, RequestEffect
  <2>2. UNCHANGED <<file, inflight, last, pc, added, dropped>>
    BY <1>4, <1>t, RequestEffect
  <2>3. at + 1 \in 1 .. Len(file)
    BY <1>s, <2>1
  <2>4. \A i \in 1 .. Len(queue') : i \in 1 .. Len(queue) \/ i = Len(queue) + 1
    BY <1>s, <2>1
  <2>5. \A i \in 1 .. Len(queue') : queue'[i].n <= added
    BY <1>t, <2>1, <2>3, <2>4 DEF OnlyAdded
  <2> QED
    BY <1>t, <2>2, <2>5 DEF OnlyAdded
<1>5. CASE PauseOn
  <2>1. PICK k \in 0 .. Len(queue) :
          /\ Len(file') = IF wpos + k > Len(file) THEN wpos + k ELSE Len(file)
          /\ \A i \in 1 .. Len(file') :
               file'[i] = IF i > wpos /\ i <= wpos + k THEN queue[i - wpos].n
                                                       ELSE file[i]
          /\ dropped' = dropped \cup {queue[i].n : i \in (k + 1) .. Len(queue)}
    BY <1>5, <1>t, PauseOnEffect
  <2>2. UNCHANGED <<inflight, last, pc, added>> /\ Len(queue') = 0
    BY <1>5, <1>t, PauseOnEffect
  <2>3. \A i \in 1 .. Len(file') :
          IF i > wpos /\ i <= wpos + k THEN i - wpos \in 1 .. Len(queue)
                                       ELSE i \in 1 .. Len(file)
    BY <1>s, <2>1
  <2>4. \A i \in 1 .. Len(file') : file'[i] <= added
    BY <1>t, <1>s, <2>1, <2>3 DEF OnlyAdded
  <2>5. \A n \in dropped' : n <= added
    BY <1>t, <1>s, <2>1 DEF OnlyAdded
  <2> QED
    BY <1>t, <1>s, <2>2, <2>4, <2>5 DEF OnlyAdded
<1>6. CASE Cleanup
  <2>1. /\ Len(queue') = 0 /\ UNCHANGED <<file, inflight, last, pc, added>>
        /\ dropped' = dropped \cup {queue[i].n : i \in 1 .. Len(queue)}
    BY <1>6, <1>t, EmptySeq, LenProperties DEF Cleanup, fileVars, TypeOK
  <2> QED
    BY <1>t, <1>s, <2>1 DEF OnlyAdded
<1>7. CASE Take
  <2>1. CASE UNCHANGED <<queue, inflight>> /\ pc' = "idle"
    BY <1>7, <1>t, <2>1, TakeEffect DEF OnlyAdded
  <2>2. CASE /\ Len(queue) # 0 /\ inflight' = queue[1].n /\ pc' = "send"
             /\ Len(queue') = Len(queue) - 1
             /\ \A i \in 1 .. Len(queue') : queue'[i].n = queue[i + 1].n
    <3>1. 1 \in 1 .. Len(queue)
      BY <1>s, <2>2
    <3>2. \A i \in 1 .. Len(queue') : i + 1 \in 1 .. Len(queue)
      BY <1>s, <2>2
    <3>3. UNCHANGED <<file, last, added, dropped>>
      BY <1>7, <1>t, TakeEffect
    <3>4. inflight' # 0 /\ inflight' <= added
      BY <1>t, <1>s, <2>2, <3>1 DEF OnlyAdded
    <3>5. \A i \in 1 .. Len(queue') : queue'[i].n <= added
      BY <1>t, <2>2, <3>2 DEF OnlyAdded
    <3> QED
      BY <1>t, <3>3, <3>4, <3>5 DEF OnlyAdded
  <2> QED
    BY <1>7, <1>t, <2>1, <2>2, TakeEffect
<1>8. CASE Send
  BY <1>8, <1>t, <1>s DEF OnlyAdded, Send, fileVars
<1>9. CASE Join
  BY <1>9, <1>t, <1>s DEF OnlyAdded, Join, fileVars
<1>10. CASE Close
  <2>1. /\ Len(queue') = 0 /\ Len(file') = 0
        /\ UNCHANGED <<inflight, last, pc, added>>
    BY <1>10, EmptySeq DEF Close
  <2>2. \A n \in Elements(Numbers(queue)) : n <= added
    <3>1. /\ queue \in Seq(Entry)
          /\ DOMAIN Numbers(queue) = 1 .. Len(queue)
          /\ \A i \in 1 .. Len(queue) : Numbers(queue)[i] = queue[i].n
      BY <1>t, LenProperties DEF TypeOK, Numbers
    <3> QED
      BY <1>t, <3>1 DEF OnlyAdded, Elements
  <2>3. \A n \in Elements(Unread) : n <= added
    <3>1. DOMAIN Unread = 1 .. Len(Unread)
      BY <1>t, UnreadProperties, LenProperties
    <3> QED
      BY <1>t, <3>1, UnreadProperties DEF OnlyAdded, Elements
  <2> QED
    BY <1>10, <1>t, <2>1, <2>2, <2>3 DEF OnlyAdded, Close
<1>11. CASE Idle
  BY <1>11, <1>t, IdleEffect DEF OnlyAdded
<1> QED
  BY <1>1, <1>2, <1>3, <1>4, <1>5, <1>6, <1>7, <1>8, <1>9, <1>10, <1>11, Steps

(***************************************************************************)
(* An order that was lost is never promised again.                         *)
(***************************************************************************)
LEMMA OnlyGrow ==
  ASSUME TypeOK, [Next]_vars
  PROVE  (overtaken => overtaken') /\ (redrained => redrained')
<1>0. overtaken \in BOOLEAN /\ redrained \in BOOLEAN
  BY DEF TypeOK
<1>1. CASE AddToFile
  BY <1>0, <1>1 DEF AddToFile
<1>2. CASE AddToQueue \/ Take
  BY <1>2 DEF AddToQueue, Take, history
<1>3. CASE Request
  BY <1>0, <1>3 DEF Request
<1>4. CASE PauseOn
  BY <1>0, <1>4 DEF PauseOn
<1>5. CASE AddDiscarded \/ Cleanup \/ Send \/ Join \/ Close \/ Idle
  BY <1>5, IdleEffect DEF AddDiscarded, Cleanup, Send, Join, Close
<1> QED
  BY <1>1, <1>2, <1>3, <1>4, <1>5, Steps

(***************************************************************************)
(* What each kind of step does to the records the reader has not seen:     *)
(* Add puts one behind them, Request takes the first, Pause puts the       *)
(* packets of the queue behind them.  Nothing else changes them, as long   *)
(* as neither position laps the other.                                     *)
(***************************************************************************)
UnreadShape ==
  ~overtaken =>
    /\ ~ahead => /\ Len(Unread) = wpos - rpos
                 /\ \A i \in 1 .. Len(Unread) : Unread[i] = file[rpos + i]
    /\ ahead  => /\ Len(Unread) = Len(file) - rpos + wpos
                 /\ \A i \in 1 .. Len(Unread) :
                      Unread[i] = IF i <= Len(file) - rpos THEN file[rpos + i]
                                  ELSE file[i - (Len(file) - rpos)]

LEMMA UnreadShaped == TypeOK /\ Rounds => UnreadShape
<1> SUFFICES ASSUME TypeOK, Rounds, ~overtaken
             PROVE  /\ ~ahead => /\ Len(Unread) = wpos - rpos
                                 /\ \A i \in 1 .. Len(Unread) : Unread[i] = file[rpos + i]
                    /\ ahead  => /\ Len(Unread) = Len(file) - rpos + wpos
                                 /\ \A i \in 1 .. Len(Unread) :
                                      Unread[i] = IF i <= Len(file) - rpos THEN file[rpos + i]
                                                  ELSE file[i - (Len(file) - rpos)]
  BY DEF UnreadShape
<1>s. Len(file) \in Nat /\ rpos \in Nat /\ wpos \in Nat
  BY Shapes
<1>1. CASE ~ahead
  <2>1. rpos <= wpos
    BY <1>1 DEF Rounds
  <2>2. Len(Unread) = (IF rpos < wpos THEN wpos - rpos ELSE 0) + 0
    BY <1>1, UnreadProperties
  <2>3. Len(Unread) = wpos - rpos
    BY <1>s, <2>1, <2>2
  <2> QED
    BY <1>1, <2>3, UnreadProperties
<1>2. CASE ahead
  <2>1. rpos <= Len(file)
    BY <1>2 DEF Rounds
  <2>2. Len(Unread) = (IF rpos < Len(file) THEN Len(file) - rpos ELSE 0) + wpos
    BY <1>2, UnreadProperties
  <2>3. Len(Unread) = Len(file) - rpos + wpos
    BY <1>s, <2>1, <2>2
  <2> QED
    BY <1>2, <2>1, <2>3, UnreadProperties
<1> QED
  BY <1>1, <1>2

LEMMA UnreadShapedNext == (TypeOK /\ Rounds)' => UnreadShape'
BY UnreadShaped, PTL

LEMMA AddToFileUnread ==
  ASSUME TypeOK, TypeOK', Rounds, AddToFile, ~overtaken'
  PROVE  /\ Rounds'
         /\ \/ dropped' = dropped \cup {added + 1} /\ Unread' = Unread
            \/ /\ UNCHANGED dropped
               /\ Len(Unread') = Len(Unread) + 1
               /\ \A i \in 1 .. Len(Unread') :
                    Unread'[i] = IF i = Len(Unread) + 1 THEN added + 1 ELSE Unread[i]
<1>b. ~overtaken
  BY OnlyGrow DEF Next, Callers
<1>s. /\ Len(file) \in Nat /\ rpos \in Nat /\ wpos \in Nat /\ wpos <= Len(file)
      /\ Len(file') \in Nat /\ wpos' \in Nat
  BY Shapes, LenProperties DEF TypeOK
<1>u. UnreadShape
  BY UnreadShaped
<1>r. rpos' = rpos
  BY AddToFileEffect
<1>1. CASE UNCHANGED <<file, wpos, ahead, overtaken>> /\ dropped' = dropped \cup {added + 1}
  BY <1>1, <1>r DEF Rounds, Unread
<1>2. CASE /\ wpos' = wpos + 1 /\ ahead' = ahead
           /\ overtaken' = (overtaken \/ (ahead /\ wpos + 1 > rpos))
           /\ Len(file') = IF wpos + 1 > Len(file) THEN wpos + 1 ELSE Len(file)
           /\ \A i \in 1 .. Len(file') :
                file'[i] = IF i = wpos + 1 THEN added + 1 ELSE file[i]
           /\ UNCHANGED dropped
  <2>1. CASE ~ahead
    <3>1. rpos <= wpos
      BY <1>b, <2>1 DEF Rounds
    <3>2. Rounds'
      BY <1>2, <1>r, <1>s, <2>1, <3>1 DEF Rounds
    <3>3. UnreadShape'
      BY <3>2, UnreadShapedNext
    <3>4. /\ Len(Unread') = wpos' - rpos'
          /\ \A i \in 1 .. Len(Unread') : Unread'[i] = file'[rpos' + i]
      BY <1>2, <2>1, <3>3 DEF UnreadShape
    <3>5. /\ Len(Unread) = wpos - rpos
          /\ \A i \in 1 .. Len(Unread) : Unread[i] = file[rpos + i]
      BY <1>b, <1>u, <2>1 DEF UnreadShape
    <3>6. Len(Unread') = Len(Unread) + 1
      BY <1>2, <1>r, <1>s, <3>1, <3>4, <3>5
    <3>7. \A i \in 1 .. Len(Unread') :
            /\ rpos + i \in 1 .. Len(file')
            /\ i = Len(Unread) + 1 <=> rpos + i = wpos + 1
            /\ i = Len(Unread) + 1 \/ i \in 1 .. Len(Unread)
      BY <1>2, <1>r, <1>s, <3>1, <3>4, <3>5
    <3>8. \A i \in 1 .. Len(Unread') :
            Unread'[i] = IF i = Len(Unread) + 1 THEN added + 1 ELSE Unread[i]
      BY <1>2, <1>r, <3>4, <3>5, <3>7
    <3> QED
      BY <1>2, <3>2, <3>6, <3>8
  <2>2. CASE ahead
    <3>1. wpos <= rpos /\ rpos <= Len(file) /\ Len(file) > 0
      BY <1>b, <2>2 DEF Rounds
    <3>2. wpos + 1 <= rpos
      <4>1. ~(wpos + 1 > rpos)
        BY <1>2, <2>2
      <4> QED
        BY <4>1, <1>s
    <3>3. Len(file') = Len(file)
      BY <1>2, <1>s, <3>1, <3>2
    <3>4. Rounds'
      BY <1>2, <1>r, <1>s, <2>2, <3>1, <3>2, <3>3 DEF Rounds
    <3>5. UnreadShape'
      BY <3>4, UnreadShapedNext
    <3>6. /\ Len(Unread') = Len(file) - rpos + (wpos + 1)
          /\ \A i \in 1 .. Len(Unread') :
               Unread'[i] = IF i <= Len(file) - rpos THEN file'[rpos + i]
                            ELSE file'[i - (Len(file) - rpos)]
      BY <1>2, <1>r, <2>2, <3>3, <3>5 DEF UnreadShape
    <3>7. /\ Len(Unread) = Len(file) - rpos + wpos
          /\ \A i \in 1 .. Len(Unread) :
               Unread[i] = IF i <= Len(file) - rpos THEN file[rpos + i]
                           ELSE file[i - (Len(file) - rpos)]
      BY <1>b, <1>u, <2>2 DEF UnreadShape
    <3>8. Len(Unread') = Len(Unread) + 1
      BY <1>s, <3>1, <3>6, <3>7
    <3>9. \A i \in 1 .. Len(Unread') :
            IF i <= Len(file) - rpos
              THEN /\ rpos + i \in 1 .. Len(file') /\ rpos + i # wpos + 1
                   /\ i # Len(Unread) + 1 /\ i \in 1 .. Len(Unread)
              ELSE /\ i - (Len(file) - rpos) \in 1 .. Len(file')
                   /\ i = Len(Unread) + 1 <=> i - (Len(file) - rpos) = wpos + 1
                   /\ i = Len(Unread) + 1 \/ i \in 1 .. Len(Unread)
      <4>1. /\ Len(Unread) = Len(file) - rpos + wpos
            /\ Len(Unread') = Len(file) - rpos + (wpos + 1)
        BY <3>6, <3>7
      <4> SUFFICES ASSUME NEW i \in 1 .. Len(Unread')
                   PROVE  IF i <= Len(file) - rpos
                            THEN /\ rpos + i \in 1 .. Len(file') /\ rpos + i # wpos + 1
                                 /\ i # Len(Unread) + 1 /\ i \in 1 .. Len(Unread)
                            ELSE /\ i - (Len(file) - rpos) \in 1 .. Len(file')
                                 /\ i = Len(Unread) + 1 <=> i - (Len(file) - rpos) = wpos + 1
                                 /\ i = Len(Unread) + 1 \/ i \in 1 .. Len(Unread)
        OBVIOUS
      <4>2. CASE i <= Len(file) - rpos
        BY <1>s, <3>1, <3>2, <3>3, <4>1, <4>2
      <4>3. CASE ~(i <= Len(file) - rpos)
        <5>1. i - (Len(file) - rpos) \in 1 .. Len(file')
          BY <1>s, <3>1, <3>2, <3>3, <4>1, <4>3
        <5>2. i = Len(Unread) + 1 <=> i - (Len(file) - rpos) = wpos + 1
          BY <1>s, <3>1, <4>1, <4>3
        <5>3. i = Len(Unread) + 1 \/ i \in 1 .. Len(Unread)
          BY <1>s, <3>1, <4>1, <4>3
        <5> QED
          BY <4>3, <5>1, <5>2, <5>3
      <4> QED
        BY <4>2, <4>3
    <3>10. \A i \in 1 .. Len(Unread') :
            Unread'[i] = IF i = Len(Unread) + 1 THEN added + 1 ELSE Unread[i]
      <4> SUFFICES ASSUME NEW i \in 1 .. Len(Unread')
                   PROVE  Unread'[i] = IF i = Len(Unread) + 1 THEN added + 1 ELSE Unread[i]
        OBVIOUS
      <4>1. CASE i <= Len(file) - rpos
        BY <1>2, <3>6, <3>7, <3>9, <4>1
      <4>2. CASE ~(i <= Len(file) - rpos)
        BY <1>2, <3>6, <3>7, <3>9, <4>2
      <4> QED
        BY <4>1, <4>2
    <3> QED
      BY <1>2, <3>4, <3>8, <3>10
  <2> QED
    BY <2>1, <2>2
<1>3. CASE /\ wpos' = 0 /\ ahead' = TRUE /\ overtaken' = (overtaken \/ ahead)
           /\ Len(file') = wpos + 1
           /\ \A i \in 1 .. Len(file') :
                file'[i] = IF i = wpos + 1 THEN added + 1 ELSE file[i]
           /\ UNCHANGED dropped
  <2>1. ~ahead
    BY <1>3
  <2>2. rpos <= wpos
    BY <1>b, <2>1 DEF Rounds
  <2>3. Rounds'
    BY <1>3, <1>r, <1>s, <2>2 DEF Rounds
  <2>4. UnreadShape'
    BY <2>3, UnreadShapedNext
  <2>5. /\ Len(Unread') = Len(file') - rpos' + wpos'
        /\ \A i \in 1 .. Len(Unread') :
             Unread'[i] = IF i <= Len(file') - rpos' THEN file'[rpos' + i]
                          ELSE file'[i - (Len(file') - rpos')]
    BY <1>3, <2>4 DEF UnreadShape
  <2>6. /\ Len(Unread) = wpos - rpos
        /\ \A i \in 1 .. Len(Unread) : Unread[i] = file[rpos + i]
    BY <1>b, <1>u, <2>1 DEF UnreadShape
  <2>7. Len(Unread') = Len(Unread) + 1
    BY <1>3, <1>r, <1>s, <2>2, <2>5, <2>6
  <2>8. \A i \in 1 .. Len(Unread') :
          /\ i <= Len(file') - rpos' /\ rpos + i \in 1 .. Len(file')
          /\ i = Len(Unread) + 1 <=> rpos + i = wpos + 1
          /\ i = Len(Unread) + 1 \/ i \in 1 .. Len(Unread)
    BY <1>3, <1>r, <1>s, <2>2, <2>5, <2>6
  <2>9. \A i \in 1 .. Len(Unread') :
          Unread'[i] = IF i = Len(Unread) + 1 THEN added + 1 ELSE Unread[i]
    BY <1>3, <1>r, <2>5, <2>6, <2>8
  <2> QED
    BY <1>3, <2>3, <2>7, <2>9
<1> QED
  BY <1>1, <1>2, <1>3, AddToFileEffect

LEMMA RequestUnread ==
  ASSUME TypeOK, TypeOK', Rounds, Request, ~overtaken'
  PROVE  /\ Rounds'
         /\ Len(Unread) > 0 /\ Len(Unread') = Len(Unread) - 1
         /\ \A i \in 1 .. Len(Unread') : Unread'[i] = Unread[i + 1]
         /\ Len(queue') = Len(queue) + 1
         /\ \A i \in 1 .. Len(queue') :
              queue'[i].n = IF i = Len(queue) + 1 THEN Unread[1] ELSE queue[i].n
<1>b. ~overtaken /\ Unread # <<>>
  BY RequestEffect
<1>s. /\ Len(file) \in Nat /\ rpos \in Nat /\ wpos \in Nat /\ wpos <= Len(file)
      /\ Len(Unread) \in Nat
  BY Shapes, UnreadProperties
<1>u. UnreadShape
  BY UnreadShaped
<1>1. PICK at \in {rpos, 0} :
        /\ at = rpos \/ rpos >= Len(file)
        /\ at < Len(file)
        /\ rpos' = at + 1 /\ ahead' = (ahead /\ at = rpos)
        /\ Len(queue') = Len(queue) + 1
        /\ \A i \in 1 .. Len(queue') :
             queue'[i].n = IF i = Len(queue) + 1 THEN file[at + 1] ELSE queue[i].n
  BY RequestEffect
<1>2. file' = file /\ wpos' = wpos
  BY RequestEffect
<1>3. Len(Unread) > 0
  <2>1. Unread \in Seq(Packets)
    BY UnreadProperties
  <2>2. Len(Unread) # 0
    BY <1>b, <2>1, EmptySeq
  <2> QED
    BY <1>s, <2>2
<1>4. CASE ~ahead
  <2>1. /\ Len(Unread) = wpos - rpos
        /\ \A i \in 1 .. Len(Unread) : Unread[i] = file[rpos + i]
    BY <1>b, <1>u, <1>4 DEF UnreadShape
  <2>2. rpos < wpos /\ at = rpos
    BY <1>s, <1>1, <1>3, <2>1
  <2>a. ~ahead' /\ rpos' = rpos + 1
    BY <1>1, <1>4, <2>2
  <2>3. Rounds'
    BY <1>s, <1>2, <2>2, <2>a DEF Rounds
  <2>4. UnreadShape'
    BY <2>3, UnreadShapedNext
  <2>5. /\ Len(Unread') = wpos - (rpos + 1)
        /\ \A i \in 1 .. Len(Unread') : Unread'[i] = file[(rpos + 1) + i]
    BY <1>1, <1>2, <1>4, <2>2, <2>4 DEF UnreadShape
  <2>6. /\ Len(Unread') = Len(Unread) - 1 /\ 1 \in 1 .. Len(Unread)
        /\ \A i \in 1 .. Len(Unread') :
             (rpos + 1) + i = rpos + (i + 1) /\ i + 1 \in 1 .. Len(Unread)
    <3>1. Len(Unread) = wpos - rpos /\ Len(Unread') = wpos - (rpos + 1)
      BY <2>1, <2>5
    <3> QED
      BY <1>s, <2>2, <3>1
  <2>7. \A i \in 1 .. Len(Unread') : Unread'[i] = Unread[i + 1]
    BY <2>1, <2>5, <2>6
  <2>8. Unread[1] = file[at + 1]
    BY <2>1, <2>2, <2>6
  <2> QED
    BY <1>1, <1>3, <2>3, <2>6, <2>7, <2>8
<1>5. CASE ahead /\ at = rpos
  <2>1. /\ Len(Unread) = Len(file) - rpos + wpos
        /\ \A i \in 1 .. Len(Unread) :
             Unread[i] = IF i <= Len(file) - rpos THEN file[rpos + i]
                         ELSE file[i - (Len(file) - rpos)]
    BY <1>b, <1>u, <1>5 DEF UnreadShape
  <2>2. wpos <= rpos /\ rpos < Len(file)
    BY <1>b, <1>1, <1>5 DEF Rounds
  <2>a. ahead' /\ rpos' = rpos + 1
    BY <1>1, <1>5
  <2>3. Rounds'
    BY <1>s, <1>2, <2>2, <2>a DEF Rounds
  <2>4. UnreadShape'
    BY <2>3, UnreadShapedNext
  <2>5. /\ Len(Unread') = Len(file) - (rpos + 1) + wpos
        /\ \A i \in 1 .. Len(Unread') :
             Unread'[i] = IF i <= Len(file) - (rpos + 1) THEN file[(rpos + 1) + i]
                          ELSE file[i - (Len(file) - (rpos + 1))]
    BY <1>b, <1>1, <1>2, <1>5, <2>4 DEF UnreadShape
  <2>6. /\ Len(Unread') = Len(Unread) - 1 /\ 1 \in 1 .. Len(Unread)
        /\ 1 <= Len(file) - rpos
        /\ \A i \in 1 .. Len(Unread') :
             /\ (rpos + 1) + i = rpos + (i + 1) /\ i + 1 \in 1 .. Len(Unread)
             /\ i <= Len(file) - (rpos + 1) <=> i + 1 <= Len(file) - rpos
             /\ i - (Len(file) - (rpos + 1)) = (i + 1) - (Len(file) - rpos)
    BY <1>s, <1>3, <2>1, <2>2, <2>5
  <2>7. \A i \in 1 .. Len(Unread') : Unread'[i] = Unread[i + 1]
    <3> SUFFICES ASSUME NEW i \in 1 .. Len(Unread') PROVE Unread'[i] = Unread[i + 1]
      OBVIOUS
    <3>1. CASE i <= Len(file) - (rpos + 1)
      BY <2>1, <2>5, <2>6, <3>1
    <3>2. CASE ~(i <= Len(file) - (rpos + 1))
      BY <2>1, <2>5, <2>6, <3>2
    <3> QED
      BY <3>1, <3>2
  <2>8. Unread[1] = file[at + 1]
    BY <1>5, <2>1, <2>6
  <2> QED
    BY <1>1, <1>3, <2>3, <2>6, <2>7, <2>8
<1>6. CASE ahead /\ at # rpos
  <2>1. /\ Len(Unread) = Len(file) - rpos + wpos
        /\ \A i \in 1 .. Len(Unread) :
             Unread[i] = IF i <= Len(file) - rpos THEN file[rpos + i]
                         ELSE file[i - (Len(file) - rpos)]
    BY <1>b, <1>u, <1>6 DEF UnreadShape
  <2>2. rpos = Len(file) /\ at = 0
    <3>1. rpos <= Len(file)
      BY <1>b, <1>6 DEF Rounds
    <3> QED
      BY <1>s, <1>1, <1>6, <3>1
  <2>3. /\ Len(file) - rpos = 0 /\ Len(Unread) = wpos /\ wpos >= 1
        /\ \A i \in 1 .. Len(Unread) : ~(i <= 0) /\ i - 0 = i
    BY <1>s, <1>3, <2>1, <2>2
  <2>4. \A i \in 1 .. Len(Unread) : Unread[i] = file[i]
    BY <2>1, <2>3
  <2>5. ~ahead' /\ rpos' = 1
    <3>1. ~ahead'
      BY <1>1, <1>6
    <3>2. rpos' = at + 1
      BY <1>1
    <3> QED
      BY <2>2, <3>1, <3>2
  <2>6. Rounds'
    BY <1>s, <1>2, <2>3, <2>5 DEF Rounds
  <2>7. UnreadShape'
    BY <2>6, UnreadShapedNext
  <2>8. /\ Len(Unread') = wpos - 1
        /\ \A i \in 1 .. Len(Unread') : Unread'[i] = file[1 + i]
    BY <1>2, <2>5, <2>7 DEF UnreadShape
  <2>9. /\ Len(Unread') = Len(Unread) - 1 /\ 1 \in 1 .. Len(Unread)
        /\ \A i \in 1 .. Len(Unread') : 1 + i = i + 1 /\ i + 1 \in 1 .. Len(Unread)
    BY <1>s, <2>3, <2>8
  <2>10. \A i \in 1 .. Len(Unread') : Unread'[i] = Unread[i + 1]
    BY <2>4, <2>8, <2>9
  <2>11. Unread[1] = file[at + 1]
    BY <2>2, <2>4, <2>9
  <2> QED
    BY <1>1, <1>3, <2>6, <2>9, <2>10, <2>11
<1> QED
  BY <1>4, <1>5, <1>6

LEMMA PauseOnUnread ==
  ASSUME TypeOK, TypeOK', RingInv, ReadBackOnly, Rounds, PauseOn, ~overtaken'
  PROVE  /\ Rounds'
         /\ \E k \in 0 .. Len(queue) :
              /\ Len(Unread') = Len(Unread) + k
              /\ \A i \in 1 .. Len(Unread') :
                   Unread'[i] = IF i <= Len(Unread) THEN Unread[i]
                                ELSE queue[i - Len(Unread)].n
              /\ dropped' = dropped \cup {queue[i].n : i \in (k + 1) .. Len(queue)}
              /\ redrained' \/ k = 0 \/ Len(Unread) = 0
<1>1. PICK k \in 0 .. Len(queue) :
        /\ wpos' = wpos + k
        /\ Len(file') = IF wpos + k > Len(file) THEN wpos + k ELSE Len(file)
        /\ \A i \in 1 .. Len(file') :
             file'[i] = IF i > wpos /\ i <= wpos + k THEN queue[i - wpos].n
                                                     ELSE file[i]
        /\ dropped' = dropped \cup {queue[i].n : i \in (k + 1) .. Len(queue)}
        /\ overtaken' = (overtaken \/ (k > 0 /\ ahead /\ wpos + k > rpos))
        /\ redrained' \/ k = 0 \/ Unread = <<>>
  BY PauseOnEffect
<1>2. rpos' = rpos /\ ahead' = ahead
  BY PauseOnEffect
<1>b. ~overtaken
  BY <1>1
<1>s. /\ Len(file) \in Nat /\ rpos \in Nat /\ wpos \in Nat /\ wpos <= Len(file)
      /\ Len(Unread) \in Nat /\ Len(queue) \in Nat /\ k \in Nat
  BY Shapes, UnreadProperties
<1>u. UnreadShape
  BY UnreadShaped
<1>e. redrained' \/ k = 0 \/ Len(Unread) = 0
  BY <1>1, EmptySeq
<1>3. CASE ~ahead
  <2>1. /\ Len(Unread) = wpos - rpos /\ rpos <= wpos
        /\ \A i \in 1 .. Len(Unread) : Unread[i] = file[rpos + i]
    BY <1>b, <1>u, <1>3 DEF UnreadShape, Rounds
  <2>2. Rounds'
    BY <1>s, <1>1, <1>2, <1>3, <2>1 DEF Rounds
  <2>3. UnreadShape'
    BY <2>2, UnreadShapedNext
  <2>4. /\ Len(Unread') = wpos + k - rpos
        /\ \A i \in 1 .. Len(Unread') : Unread'[i] = file'[rpos + i]
    <3>1. ~overtaken' /\ ~ahead' /\ wpos' = wpos + k /\ rpos' = rpos
      BY <1>1, <1>2, <1>3
    <3>2. /\ Len(Unread') = wpos' - rpos'
          /\ \A i \in 1 .. Len(Unread') : Unread'[i] = file'[rpos' + i]
      BY <2>3, <3>1 DEF UnreadShape
    <3>3. Len(Unread') = wpos + k - rpos
      BY <1>s, <3>1, <3>2
    <3> QED
      BY <3>1, <3>2, <3>3
  <2>5. Len(Unread') = Len(Unread) + k
    BY <1>s, <2>1, <2>4
  <2>6. \A i \in 1 .. Len(Unread') :
          /\ rpos + i \in 1 .. Len(file')
          /\ i <= Len(Unread) <=> ~(rpos + i > wpos)
          /\ rpos + i <= wpos + k
          /\ i <= Len(Unread) => i \in 1 .. Len(Unread)
          /\ rpos + i - wpos = i - Len(Unread)
    <3>1. /\ Len(Unread) = wpos - rpos /\ Len(Unread') = wpos + k - rpos
          /\ rpos <= wpos
          /\ Len(file') = IF wpos + k > Len(file) THEN wpos + k ELSE Len(file)
      BY <1>1, <2>1, <2>4
    <3> QED
      BY <1>s, <3>1
  <2>7. \A i \in 1 .. Len(Unread') :
          Unread'[i] = IF i <= Len(Unread) THEN Unread[i]
                       ELSE queue[i - Len(Unread)].n
    <3> SUFFICES ASSUME NEW i \in 1 .. Len(Unread')
                 PROVE  Unread'[i] = IF i <= Len(Unread) THEN Unread[i]
                                     ELSE queue[i - Len(Unread)].n
      OBVIOUS
    <3>1. CASE i <= Len(Unread)
      BY <1>1, <2>1, <2>4, <2>6, <3>1
    <3>2. CASE ~(i <= Len(Unread))
      <4>1. /\ rpos + i \in 1 .. Len(file') /\ rpos + i > wpos /\ rpos + i <= wpos + k
            /\ rpos + i - wpos = i - Len(Unread)
        BY <2>6, <3>2
      <4>2. file'[rpos + i] = queue[(rpos + i) - wpos].n
        BY <1>1, <4>1
      <4>3. Unread'[i] = file'[rpos + i]
        BY <2>4
      <4>4. Unread'[i] = queue[i - Len(Unread)].n
        BY <1>s, <4>1, <4>2, <4>3
      <4> QED
        BY <3>2, <4>4
    <3> QED
      BY <3>1, <3>2
  <2> QED
    BY <1>1, <1>e, <2>2, <2>5, <2>7
<1>4. CASE ahead
  <2>1. /\ Len(Unread) = Len(file) - rpos + wpos
        /\ \A i \in 1 .. Len(Unread) :
             Unread[i] = IF i <= Len(file) - rpos THEN file[rpos + i]
                         ELSE file[i - (Len(file) - rpos)]
        /\ wpos <= rpos /\ rpos <= Len(file) /\ Len(file) > 0
    BY <1>b, <1>u, <1>4 DEF UnreadShape, Rounds
  <2>2. wpos + k <= rpos
    <3>1. k = 0 \/ ~(wpos + k > rpos)
      <4>1. ~(k > 0 /\ wpos + k > rpos)
        BY <1>1, <1>4
      <4> QED
        BY <1>s, <4>1
    <3> QED
      BY <1>s, <2>1, <3>1
  <2>3. Len(file') = Len(file)
    BY <1>s, <1>1, <2>1, <2>2
  <2>4. Rounds'
    BY <1>s, <1>1, <1>2, <1>4, <2>1, <2>2, <2>3 DEF Rounds
  <2>5. UnreadShape'
    BY <2>4, UnreadShapedNext
  <2>6. /\ Len(Unread') = Len(file) - rpos + (wpos + k)
        /\ \A i \in 1 .. Len(Unread') :
             Unread'[i] = IF i <= Len(file) - rpos THEN file'[rpos + i]
                          ELSE file'[i - (Len(file) - rpos)]
    BY <1>1, <1>2, <1>4, <2>3, <2>5 DEF UnreadShape
  <2>7. Len(Unread') = Len(Unread) + k
    BY <1>s, <2>1, <2>6
  <2>8. \A i \in 1 .. Len(Unread') :
          IF i <= Len(file) - rpos
            THEN /\ rpos + i \in 1 .. Len(file') /\ ~(rpos + i <= wpos + k)
                 /\ i <= Len(Unread) /\ i \in 1 .. Len(Unread)
            ELSE /\ i - (Len(file) - rpos) \in 1 .. Len(file')
                 /\ i <= Len(Unread) <=> ~(i - (Len(file) - rpos) > wpos)
                 /\ i - (Len(file) - rpos) <= wpos + k
                 /\ i <= Len(Unread) => i \in 1 .. Len(Unread)
                 /\ i - (Len(file) - rpos) - wpos = i - Len(Unread)
    BY <1>s, <2>1, <2>2, <2>3, <2>6
  <2>9. \A i \in 1 .. Len(Unread') :
          Unread'[i] = IF i <= Len(Unread) THEN Unread[i]
                       ELSE queue[i - Len(Unread)].n
    <3> SUFFICES ASSUME NEW i \in 1 .. Len(Unread')
                 PROVE  Unread'[i] = IF i <= Len(Unread) THEN Unread[i]
                                     ELSE queue[i - Len(Unread)].n
      OBVIOUS
    <3>1. CASE i <= Len(file) - rpos
      BY <1>1, <2>1, <2>6, <2>8, <3>1
    <3>2. CASE ~(i <= Len(file) - rpos) /\ i <= Len(Unread)
      BY <1>1, <2>1, <2>6, <2>8, <3>2
    <3>3. CASE ~(i <= Len(file) - rpos) /\ ~(i <= Len(Unread))
      BY <1>1, <2>6, <2>8, <3>3
    <3> QED
      BY <3>1, <3>2, <3>3
  <2> QED
    BY <1>1, <1>e, <2>4, <2>7, <2>9
<1> QED
  BY <1>3, <1>4

(***************************************************************************)
(* The other steps leave the file alone, Close empties it.                 *)
(***************************************************************************)
LEMMA UnreadKept ==
  ASSUME TypeOK,
         AddDiscarded \/ AddToQueue \/ Cleanup \/ Take \/ Send \/ Join \/ Idle
  PROVE  UNCHANGED <<file, rpos, wpos, ahead, overtaken, redrained, Unread>>
<1>1. UNCHANGED <<file, rpos, wpos, ahead, overtaken, redrained>>
  BY AddToQueueEffect, TakeEffect, IdleEffect
     DEF AddDiscarded, Cleanup, Send, Join, fileVars
<1> QED
  BY <1>1 DEF Unread

LEMMA CloseEmpties ==
  ASSUME TypeOK', Close
  PROVE  /\ Len(queue') = 0 /\ Len(file') = 0 /\ Len(Unread') = 0
         /\ UNCHANGED <<overtaken, redrained, inflight, last, added>>
         /\ rpos' = 0 /\ wpos' = 0 /\ ~ahead'
<1>1. /\ Len(queue') = 0 /\ Len(file') = 0
      /\ UNCHANGED <<overtaken, redrained, inflight, last, added>>
      /\ rpos' = 0 /\ wpos' = 0 /\ ~ahead'
  BY EmptySeq DEF Close
<1>2. Rounds'
  BY <1>1 DEF Rounds
<1>3. Unread' = SubSeq(file', 1, 0)
  BY <1>1 DEF Unread
<1>4. Len(SubSeq(file', 1, 0)) = 0
  BY SubSeqProperties, EmptySeq
<1> QED
  BY <1>1, <1>3, <1>4

LEMMA RoundsStep == OrderInv /\ [Next]_vars => Rounds'
<1> SUFFICES ASSUME OrderInv, [Next]_vars, ~overtaken' PROVE Rounds'
  BY DEF Rounds
<1>t. /\ TypeOK /\ TypeOK' /\ RingInv /\ ReadBackOnly /\ Rounds
  BY TypeStep DEF OrderInv, QueueInv
<1>1. CASE AddToFile
  BY <1>1, <1>t, AddToFileUnread
<1>2. CASE Request
  BY <1>2, <1>t, RequestUnread
<1>3. CASE PauseOn
  BY <1>3, <1>t, PauseOnUnread
<1>4. CASE Close
  BY <1>4, <1>t, CloseEmpties DEF Rounds
<1>5. CASE AddDiscarded \/ AddToQueue \/ Cleanup \/ Take \/ Send \/ Join \/ Idle
  BY <1>5, <1>t, UnreadKept DEF Rounds
<1> QED
  BY <1>1, <1>2, <1>3, <1>4, <1>5, Steps

(***************************************************************************)
(* What the reader has not seen has been added, and without a file that is *)
(* nothing.                                                                *)
(***************************************************************************)
LEMMA UnreadKnown ==
  ASSUME TypeOK, OnlyAdded
  PROVE  /\ Len(Unread) \in Nat
         /\ \A i \in 1 .. Len(Unread) :
              Unread[i] \in Nat /\ Unread[i] > 0 /\ Unread[i] <= added
<1>1. \A i \in 1 .. Len(file) : file[i] \in Nat /\ file[i] > 0 /\ file[i] <= added
  BY Shapes DEF OnlyAdded
<1>2. \A i \in 1 .. Len(Unread) : \E j \in 1 .. Len(file) : Unread[i] = file[j]
  BY UnreadProperties
<1> QED
  BY <1>1, <1>2, UnreadProperties

LEMMA NoFileNothingUnread ==
  ASSUME TypeOK, RingInv, ~writefd
  PROVE  Len(Unread) = 0
<1>1. Len(file) = 0
  BY DEF RingInv
<1>2. Len(Unread) \in Nat
  BY UnreadProperties
<1> SUFFICES ASSUME Len(Unread) # 0 PROVE FALSE
  OBVIOUS
<1>3. 1 \in 1 .. Len(Unread)
  BY <1>2
<1>4. PICK j \in 1 .. Len(file) : Unread[1] = file[j]
  BY <1>3, UnreadProperties
<1> QED
  BY <1>1, <1>4

(***************************************************************************)
(* Adding, requesting, pausing and sending keep the order, as long as no   *)
(* position laps the other and no packet is written back out of turn.      *)
(***************************************************************************)
LEMMA StraightStep == OrderInv /\ [Next]_vars => Straight'
<1> SUFFICES ASSUME OrderInv, [Next]_vars, ~overtaken', ~redrained'
             PROVE  /\ inflight' # 0 => last' < inflight'
                    /\ \A i \in 1 .. Len(queue') :
                         last' < queue'[i].n /\ inflight' < queue'[i].n
                    /\ \A i \in 1 .. Len(Unread') :
                         last' < Unread'[i] /\ inflight' < Unread'[i]
                    /\ \A i \in 1 .. Len(queue') : \A j \in 1 .. Len(Unread') :
                         queue'[i].n < Unread'[j]
                    /\ \A i, j \in 1 .. Len(queue') :
                         i < j => queue'[i].n < queue'[j].n
                    /\ \A i, j \in 1 .. Len(Unread') :
                         i < j => Unread'[i] < Unread'[j]
  BY DEF Straight
<1>t. /\ TypeOK /\ TypeOK' /\ RingInv /\ ReadBackOnly /\ OnlyAdded
      /\ Rounds /\ Straight
      /\ Len(queue') \in Nat /\ Len(file') \in Nat
  BY TypeStep, LenProperties DEF OrderInv, QueueInv, TypeOK
<1>s. /\ Len(queue) \in Nat
      /\ inflight \in Nat /\ last \in Nat /\ added \in Nat
      /\ \A i \in 1 .. Len(queue) : queue[i].n \in Nat /\ queue[i].n > 0
  BY <1>t, Shapes
<1>v. /\ Len(Unread) \in Nat
      /\ \A i \in 1 .. Len(Unread) :
           Unread[i] \in Nat /\ Unread[i] > 0 /\ Unread[i] <= added
  BY <1>t, UnreadKnown
<1>a. /\ last <= added /\ inflight <= added
      /\ \A i \in 1 .. Len(queue) : queue[i].n <= added
  BY <1>t DEF OnlyAdded
<1>b. ~overtaken /\ ~redrained
  BY <1>t, OnlyGrow
<1>o. /\ inflight # 0 => last < inflight
      /\ \A i \in 1 .. Len(queue) : last < queue[i].n /\ inflight < queue[i].n
      /\ \A i \in 1 .. Len(Unread) : last < Unread[i] /\ inflight < Unread[i]
      /\ \A i \in 1 .. Len(queue) : \A j \in 1 .. Len(Unread) :
           queue[i].n < Unread[j]
      /\ \A i, j \in 1 .. Len(queue) : i < j => queue[i].n < queue[j].n
      /\ \A i, j \in 1 .. Len(Unread) : i < j => Unread[i] < Unread[j]
  BY <1>b, <1>t DEF Straight
<1>1. CASE AddToFile
  <2>1. UNCHANGED <<queue, inflight, last>>
    BY <1>1, <1>t, AddToFileEffect
  <2>2. CASE Unread' = Unread
    BY <1>o, <2>1, <2>2
  <2>3. CASE /\ Len(Unread') = Len(Unread) + 1
             /\ \A i \in 1 .. Len(Unread') :
                  Unread'[i] = IF i = Len(Unread) + 1 THEN added + 1 ELSE Unread[i]
    <3>1. \A i \in 1 .. Len(Unread') :
            \/ i \in 1 .. Len(Unread) /\ Unread'[i] = Unread[i]
            \/ i = Len(Unread) + 1 /\ Unread'[i] = added + 1
      BY <1>v, <2>3
    <3>2. \A i, j \in 1 .. Len(Unread') : i < j => Unread'[i] < Unread'[j]
      <4> SUFFICES ASSUME NEW i \in 1 .. Len(Unread'),
                          NEW j \in 1 .. Len(Unread'), i < j
                   PROVE  Unread'[i] < Unread'[j]
        OBVIOUS
      <4>1. i \in 1 .. Len(Unread) /\ Unread'[i] = Unread[i]
        <5>1. i # Len(Unread) + 1
          BY <1>v, <2>3
        <5> QED
          BY <3>1, <5>1
      <4>2. CASE j \in 1 .. Len(Unread) /\ Unread'[j] = Unread[j]
        BY <1>o, <4>1, <4>2
      <4>3. CASE j = Len(Unread) + 1 /\ Unread'[j] = added + 1
        BY <1>s, <1>v, <4>1, <4>3
      <4> QED
        BY <3>1, <4>2, <4>3
    <3>3. \A i \in 1 .. Len(Unread') : last < Unread'[i] /\ inflight < Unread'[i]
      <4> SUFFICES ASSUME NEW i \in 1 .. Len(Unread')
                   PROVE  last < Unread'[i] /\ inflight < Unread'[i]
        OBVIOUS
      <4>1. CASE i \in 1 .. Len(Unread) /\ Unread'[i] = Unread[i]
        BY <1>o, <4>1
      <4>2. CASE Unread'[i] = added + 1
        BY <1>s, <1>a, <4>2
      <4> QED
        BY <3>1, <4>1, <4>2
    <3>4. \A i \in 1 .. Len(queue) : \A j \in 1 .. Len(Unread') :
            queue[i].n < Unread'[j]
      <4> SUFFICES ASSUME NEW i \in 1 .. Len(queue), NEW j \in 1 .. Len(Unread')
                   PROVE  queue[i].n < Unread'[j]
        OBVIOUS
      <4>1. CASE j \in 1 .. Len(Unread) /\ Unread'[j] = Unread[j]
        BY <1>o, <4>1
      <4>2. CASE Unread'[j] = added + 1
        BY <1>s, <1>a, <4>2
      <4> QED
        BY <3>1, <4>1, <4>2
    <3> QED
      BY <1>o, <2>1, <3>2, <3>3, <3>4
  <2> QED
    BY <1>1, <1>t, <2>2, <2>3, AddToFileUnread
<1>2. CASE AddDiscarded
  <2>1. UNCHANGED <<queue, inflight, last, Unread>>
    BY <1>2, <1>t, UnreadKept DEF AddDiscarded
  <2> QED
    BY <1>o, <2>1
<1>3. CASE AddToQueue
  <2>1. PICK e \in 0 .. Len(queue) :
          /\ Len(queue') = Len(queue) + 1 - e
          /\ \A i \in 1 .. Len(queue') :
               queue'[i].n = IF i + e = Len(queue) + 1 THEN added + 1
                                                       ELSE queue[i + e].n
    BY <1>3, <1>t, AddToQueueEffect
  <2>2. UNCHANGED <<inflight, last, Unread>> /\ ~writefd
    BY <1>3, <1>t, AddToQueueEffect, UnreadKept
  <2>3. \A i \in 1 .. Len(queue') :
          \/ i + e \in 1 .. Len(queue) /\ queue'[i].n = queue[i + e].n
          \/ i + e = Len(queue) + 1 /\ queue'[i].n = added + 1
    <3> SUFFICES ASSUME NEW i \in 1 .. Len(queue')
                 PROVE  \/ i + e \in 1 .. Len(queue) /\ queue'[i].n = queue[i + e].n
                        \/ i + e = Len(queue) + 1 /\ queue'[i].n = added + 1
      OBVIOUS
    <3>1. i + e \in 1 .. Len(queue) \/ i + e = Len(queue) + 1
      <4>1. Len(queue') = Len(queue) + 1 - e
        BY <2>1
      <4>2. Len(queue) \in Nat /\ e \in 0 .. Len(queue)
        BY <1>s
      <4>3. i \in 1 .. (Len(queue) + 1 - e)
        BY <4>1
      <4> QED
        BY <4>2, <4>3
    <3> QED
      BY <1>s, <2>1, <3>1
  <2>4. Len(Unread) = 0
    BY <1>t, <2>2, NoFileNothingUnread
  <2>5. \A i, j \in 1 .. Len(queue') : i < j => queue'[i].n < queue'[j].n
    <3> SUFFICES ASSUME NEW i \in 1 .. Len(queue'), NEW j \in 1 .. Len(queue'),
                        i < j
                 PROVE  queue'[i].n < queue'[j].n
      OBVIOUS
    <3>1. i + e \in 1 .. Len(queue) /\ queue'[i].n = queue[i + e].n
      BY <1>s, <1>t, <2>1, <2>3
    <3>2. i + e < j + e
      BY <1>t
    <3>3. CASE j + e \in 1 .. Len(queue) /\ queue'[j].n = queue[j + e].n
      BY <1>o, <3>1, <3>2, <3>3
    <3>4. CASE j + e = Len(queue) + 1 /\ queue'[j].n = added + 1
      BY <1>s, <1>a, <3>1, <3>4
    <3> QED
      BY <2>3, <3>3, <3>4
  <2>6. \A i \in 1 .. Len(queue') : last' < queue'[i].n /\ inflight' < queue'[i].n
    <3> SUFFICES ASSUME NEW i \in 1 .. Len(queue')
                 PROVE  last < queue'[i].n /\ inflight < queue'[i].n
      BY <2>2
    <3>1. CASE i + e \in 1 .. Len(queue) /\ queue'[i].n = queue[i + e].n
      BY <1>o, <3>1
    <3>2. CASE queue'[i].n = added + 1
      BY <1>s, <1>a, <3>2
    <3> QED
      BY <2>3, <3>1, <3>2
  <2>7. Len(Unread') = 0
    BY <2>2, <2>4
  <2> QED
    BY <1>o, <2>2, <2>5, <2>6, <2>7
<1>4. CASE Request
  <2>1. /\ Len(Unread) > 0 /\ Len(Unread') = Len(Unread) - 1
        /\ \A i \in 1 .. Len(Unread') : Unread'[i] = Unread[i + 1]
        /\ Len(queue') = Len(queue) + 1
        /\ \A i \in 1 .. Len(queue') :
             queue'[i].n = IF i = Len(queue) + 1 THEN Unread[1] ELSE queue[i].n
    BY <1>4, <1>t, RequestUnread
  <2>2. UNCHANGED <<inflight, last>>
    BY <1>4, <1>t, RequestEffect
  <2>3. 1 \in 1 .. Len(Unread)
    BY <1>v, <2>1
  <2>4. \A i \in 1 .. Len(Unread') : i + 1 \in 1 .. Len(Unread) /\ 1 < i + 1
    BY <1>v, <2>1
  <2>5. \A i \in 1 .. Len(queue') :
          \/ i \in 1 .. Len(queue) /\ queue'[i].n = queue[i].n
          \/ i = Len(queue) + 1 /\ queue'[i].n = Unread[1]
    BY <1>s, <2>1
  <2>6. \A i, j \in 1 .. Len(queue') : i < j => queue'[i].n < queue'[j].n
    <3> SUFFICES ASSUME NEW i \in 1 .. Len(queue'), NEW j \in 1 .. Len(queue'),
                        i < j
                 PROVE  queue'[i].n < queue'[j].n
      OBVIOUS
    <3>1. i \in 1 .. Len(queue) /\ queue'[i].n = queue[i].n
      BY <1>s, <1>t, <2>1, <2>5
    <3>2. CASE j \in 1 .. Len(queue) /\ queue'[j].n = queue[j].n
      BY <1>o, <3>1, <3>2
    <3>3. CASE j = Len(queue) + 1 /\ queue'[j].n = Unread[1]
      BY <1>o, <2>3, <3>1, <3>3
    <3> QED
      BY <2>5, <3>2, <3>3
  <2>7. \A i \in 1 .. Len(queue') : last' < queue'[i].n /\ inflight' < queue'[i].n
    BY <1>o, <2>2, <2>3, <2>5
  <2>8. \A i \in 1 .. Len(queue') : \A j \in 1 .. Len(Unread') :
          queue'[i].n < Unread'[j]
    <3> SUFFICES ASSUME NEW i \in 1 .. Len(queue'), NEW j \in 1 .. Len(Unread')
                 PROVE  queue'[i].n < Unread'[j]
      OBVIOUS
    <3>1. Unread'[j] = Unread[j + 1] /\ j + 1 \in 1 .. Len(Unread) /\ 1 < j + 1
      BY <2>1, <2>4
    <3>2. CASE i \in 1 .. Len(queue) /\ queue'[i].n = queue[i].n
      BY <1>o, <3>1, <3>2
    <3>3. CASE queue'[i].n = Unread[1]
      BY <1>o, <2>3, <3>1, <3>3
    <3> QED
      BY <2>5, <3>2, <3>3
  <2>9. \A i \in 1 .. Len(Unread') : last' < Unread'[i] /\ inflight' < Unread'[i]
    BY <1>o, <2>1, <2>2, <2>4
  <2>10. \A i, j \in 1 .. Len(Unread') : i < j => Unread'[i] < Unread'[j]
    <3> SUFFICES ASSUME NEW i \in 1 .. Len(Unread'), NEW j \in 1 .. Len(Unread'),
                        i < j
                 PROVE  Unread'[i] < Unread'[j]
      OBVIOUS
    <3>1. i + 1 < j + 1 /\ i + 1 \in 1 .. Len(Unread) /\ j + 1 \in 1 .. Len(Unread)
      BY <1>v, <2>1
    <3> QED
      BY <1>o, <2>1, <3>1
  <2> QED
    BY <1>o, <2>2, <2>6, <2>7, <2>8, <2>9, <2>10
<1>5. CASE PauseOn
  <2>1. PICK k \in 0 .. Len(queue) :
          /\ Len(Unread') = Len(Unread) + k
          /\ \A i \in 1 .. Len(Unread') :
               Unread'[i] = IF i <= Len(Unread) THEN Unread[i]
                            ELSE queue[i - Len(Unread)].n
          /\ redrained' \/ k = 0 \/ Len(Unread) = 0
    BY <1>5, <1>t, PauseOnUnread
  <2>2. UNCHANGED <<inflight, last>> /\ Len(queue') = 0
    BY <1>5, <1>t, PauseOnEffect
  <2>3. CASE k = 0
    <3>1. \A i \in 1 .. Len(Unread') :
            i \in 1 .. Len(Unread) /\ Unread'[i] = Unread[i]
      BY <1>v, <2>1, <2>3
    <3> QED
      BY <1>o, <2>2, <3>1
  <2>4. CASE Len(Unread) = 0
    <3>1. \A i \in 1 .. Len(Unread') :
            i \in 1 .. Len(queue) /\ Unread'[i] = queue[i].n
      BY <1>s, <2>1, <2>4
    <3> QED
      BY <1>o, <2>2, <3>1
  <2> QED
    BY <2>1, <2>3, <2>4
<1>6. CASE Cleanup
  <2>1. Len(queue') = 0 /\ UNCHANGED <<inflight, last, Unread>>
    BY <1>6, <1>t, EmptySeq, UnreadKept DEF Cleanup
  <2> QED
    BY <1>o, <2>1
<1>7. CASE Take
  <2>1. UNCHANGED <<last, Unread>>
    BY <1>7, <1>t, TakeEffect, UnreadKept
  <2>2. CASE UNCHANGED <<queue, inflight>>
    BY <1>o, <2>1, <2>2
  <2>3. CASE /\ Len(queue) # 0 /\ inflight' = queue[1].n
             /\ Len(queue') = Len(queue) - 1
             /\ \A i \in 1 .. Len(queue') : queue'[i].n = queue[i + 1].n
    <3>1. 1 \in 1 .. Len(queue)
      BY <1>s, <2>3
    <3>2. \A i \in 1 .. Len(queue') :
            i + 1 \in 1 .. Len(queue) /\ 1 < i + 1
      BY <1>s, <2>3
    <3>3. \A i, j \in 1 .. Len(queue') : i < j => queue'[i].n < queue'[j].n
      <4> SUFFICES ASSUME NEW i \in 1 .. Len(queue'), NEW j \in 1 .. Len(queue'),
                          i < j
                   PROVE  queue'[i].n < queue'[j].n
        OBVIOUS
      <4>1. i + 1 \in 1 .. Len(queue) /\ j + 1 \in 1 .. Len(queue) /\ i + 1 < j + 1
        BY <1>t, <3>2
      <4> QED
        BY <1>o, <2>3, <4>1
    <3>4. \A i \in 1 .. Len(queue') :
            last' < queue'[i].n /\ inflight' < queue'[i].n
      BY <1>o, <2>1, <2>3, <3>1, <3>2
    <3>5. \A i \in 1 .. Len(Unread') : last' < Unread'[i] /\ inflight' < Unread'[i]
      BY <1>o, <2>1, <2>3, <3>1
    <3>6. \A i \in 1 .. Len(queue') : \A j \in 1 .. Len(Unread') :
            queue'[i].n < Unread'[j]
      BY <1>o, <2>1, <2>3, <3>2
    <3>7. last' < inflight'
      BY <1>o, <2>1, <2>3, <3>1
    <3> QED
      BY <1>o, <2>1, <3>3, <3>4, <3>5, <3>6, <3>7
  <2> QED
    BY <1>7, <1>t, <2>2, <2>3, TakeEffect
<1>8. CASE Send
  <2>1. /\ UNCHANGED <<queue, Unread>>
        /\ last' = inflight /\ inflight' = 0
    BY <1>8, <1>t, UnreadKept DEF Send
  <2> QED
    BY <1>s, <1>v, <1>o, <2>1
<1>9. CASE Join
  <2>1. UNCHANGED <<queue, Unread, last>> /\ inflight' = 0
    BY <1>9, <1>t, UnreadKept DEF Join
  <2> QED
    BY <1>s, <1>v, <1>o, <2>1
<1>10. CASE Close
  <2>1. /\ Len(queue') = 0 /\ Len(Unread') = 0
        /\ UNCHANGED <<inflight, last>>
    BY <1>10, <1>t, CloseEmpties
  <2> QED
    BY <1>o, <2>1
<1>11. CASE Idle
  <2>1. UNCHANGED <<queue, inflight, last, Unread>>
    BY <1>11, <1>t, IdleEffect, UnreadKept
  <2> QED
    BY <1>o, <2>1
<1> QED
  BY <1>1, <1>2, <1>3, <1>4, <1>5, <1>6, <1>7, <1>8, <1>9, <1>10, <1>11, Steps

LEMMA OrderInvariant == Spec => []OrderInv
<1>1. OrderInv /\ [Next]_vars => OrderInv'
  BY AddedStep, RoundsStep, StraightStep, TypeStep, RingStep, BoundStep
     DEF OrderInv, QueueInv
<1> QED
  BY OrderInit, <1>1, PTL DEF Spec

(***************************************************************************)
(* The pipeline, position by position: the packet being sent, the queue,   *)
(* the unread part of the file.                                            *)
(***************************************************************************)
SendingLen == IF inflight = 0 THEN 0 ELSE 1

LEMMA PipelineProperties ==
  ASSUME TypeOK
  PROVE  /\ Pipeline \in Seq(Packets)
         /\ Len(Pipeline) = SendingLen + Len(queue) + Len(Unread)
         /\ DOMAIN Pipeline = 1 .. (SendingLen + Len(queue) + Len(Unread))
         /\ \A i \in DOMAIN Pipeline :
              Pipeline[i] =
                IF i <= SendingLen THEN inflight
                ELSE IF i <= SendingLen + Len(queue) THEN queue[i - SendingLen].n
                ELSE Unread[i - SendingLen - Len(queue)]
<1> DEFINE one == IF inflight = 0 THEN <<>> ELSE <<inflight>>
           num == Numbers(queue)
<1>s. Len(queue) \in Nat /\ inflight \in Nat
  BY Shapes
<1>1. /\ one \in Seq(Packets) /\ Len(one) = SendingLen
      /\ \A i \in 1 .. SendingLen : one[i] = inflight
  <2>1. CASE inflight = 0
    BY <2>1, EmptySeq DEF SendingLen
  <2>2. CASE inflight # 0
    <3>1. inflight \in Packets
      BY <2>2, LiveQueueAssumption DEF TypeOK, Packets
    <3> QED
      BY <2>2, <3>1 DEF SendingLen
  <2> QED
    BY <2>1, <2>2
<1>2. /\ num \in Seq(Packets) /\ Len(num) = Len(queue)
      /\ \A i \in 1 .. Len(queue) : num[i] = queue[i].n
  BY NumbersProperties DEF TypeOK
<1>3. Unread \in Seq(Packets) /\ Len(Unread) \in Nat
  BY UnreadProperties
<1> HIDE DEF one, num
<1>4. SendingLen \in Nat /\ Len(Unread) \in Nat
  BY <1>3 DEF SendingLen
<1>5. /\ one \o num \in Seq(Packets)
      /\ Len(one \o num) = SendingLen + Len(queue)
      /\ \A i \in 1 .. SendingLen + Len(queue) : (one \o num)[i] =
           IF i <= SendingLen THEN one[i] ELSE num[i - SendingLen]
  <2>1. /\ one \o num \in Seq(Packets)
        /\ Len(one \o num) = Len(one) + Len(num)
        /\ \A i \in 1 .. Len(one) + Len(num) : (one \o num)[i] =
             IF i <= Len(one) THEN one[i] ELSE num[i - Len(one)]
    BY <1>1, <1>2, ConcatProperties, ZenonT(30)
  <2> QED
    BY <1>1, <1>2, <2>1
<1>6. Pipeline = (one \o num) \o Unread
  BY DEF Pipeline, one, num
<1>7. /\ Pipeline \in Seq(Packets)
      /\ Len(Pipeline) = SendingLen + Len(queue) + Len(Unread)
      /\ \A i \in 1 .. SendingLen + Len(queue) + Len(Unread) : Pipeline[i] =
           IF i <= SendingLen + Len(queue)
             THEN (one \o num)[i] ELSE Unread[i - (SendingLen + Len(queue))]
  <2> DEFINE both == one \o num
  <2>1. both \in Seq(Packets) /\ Len(both) = SendingLen + Len(queue)
    BY <1>5
  <2> HIDE DEF both
  <2>2. /\ both \o Unread \in Seq(Packets)
        /\ Len(both \o Unread) = Len(both) + Len(Unread)
        /\ \A i \in 1 .. Len(both) + Len(Unread) : (both \o Unread)[i] =
             IF i <= Len(both) THEN both[i] ELSE Unread[i - Len(both)]
    BY <1>3, <2>1, ConcatProperties, ZenonT(30)
  <2>3. Pipeline = both \o Unread
    BY <1>6 DEF both
  <2>4. /\ Pipeline \in Seq(Packets)
        /\ Len(Pipeline) = SendingLen + Len(queue) + Len(Unread)
        /\ \A i \in 1 .. SendingLen + Len(queue) + Len(Unread) : Pipeline[i] =
             IF i <= SendingLen + Len(queue)
               THEN both[i] ELSE Unread[i - (SendingLen + Len(queue))]
    BY <1>3, <2>1, <2>2, <2>3
  <2> QED
    BY <2>4 DEF both
<1>8. DOMAIN Pipeline = 1 .. (SendingLen + Len(queue) + Len(Unread))
  BY <1>7, LenProperties
<1>9. ASSUME NEW i \in DOMAIN Pipeline
      PROVE  Pipeline[i] =
               IF i <= SendingLen THEN inflight
               ELSE IF i <= SendingLen + Len(queue) THEN queue[i - SendingLen].n
               ELSE Unread[i - SendingLen - Len(queue)]
  <2>1. CASE i <= SendingLen
    <3>1. i \in 1 .. SendingLen /\ i \in 1 .. SendingLen + Len(queue)
      BY <1>4, <1>8, <1>s, <2>1
    <3> QED
      BY <1>1, <1>5, <1>7, <1>8, <1>9, <2>1, <3>1
  <2>2. CASE i > SendingLen /\ i <= SendingLen + Len(queue)
    <3>1. i - SendingLen \in 1 .. Len(queue) /\ i \in 1 .. SendingLen + Len(queue)
      BY <1>4, <1>8, <1>s, <1>9, <2>2
    <3>2. ~(i <= SendingLen)
      BY <1>4, <1>8, <1>s, <1>9, <2>2
    <3> QED
      BY <1>2, <1>5, <1>7, <1>8, <1>9, <2>2, <3>1, <3>2
  <2>3. CASE i > SendingLen + Len(queue)
    <3>1. /\ i - (SendingLen + Len(queue)) \in 1 .. Len(Unread)
          /\ i - (SendingLen + Len(queue)) = i - SendingLen - Len(queue)
          /\ ~(i <= SendingLen) /\ ~(i <= SendingLen + Len(queue))
      BY <1>4, <1>8, <1>s, <1>9, <2>3
    <3> QED
      BY <1>3, <1>7, <1>8, <1>9, <3>1
  <2> QED
    BY <1>4, <1>8, <1>s, <1>9, <2>1, <2>2, <2>3
<1> QED
  BY <1>7, <1>8, <1>9

(***************************************************************************)
(* The order per position is the order of the pipeline.                    *)
(***************************************************************************)
LEMMA StraightIsInOrder == OrderInv => InOrder
<1> SUFFICES ASSUME OrderInv, ~overtaken, ~redrained,
                    NEW i \in DOMAIN Pipeline
             PROVE  /\ last < Pipeline[i]
                    /\ \A j \in DOMAIN Pipeline :
                         i < j => Pipeline[i] < Pipeline[j]
  BY DEF InOrder
<1> DEFINE a == SendingLen
           b == Len(queue)
<1>t. TypeOK
  BY DEF OrderInv, QueueInv
<1>s. /\ Len(queue) \in Nat /\ Len(Unread) \in Nat
      /\ inflight \in Nat /\ last \in Nat
  BY <1>t, Shapes, UnreadProperties
<1>o. /\ inflight # 0 => last < inflight
      /\ \A k \in 1 .. Len(queue) : last < queue[k].n /\ inflight < queue[k].n
      /\ \A k \in 1 .. Len(Unread) : last < Unread[k] /\ inflight < Unread[k]
      /\ \A k \in 1 .. Len(queue) : \A l \in 1 .. Len(Unread) :
           queue[k].n < Unread[l]
      /\ \A k, l \in 1 .. Len(queue) : k < l => queue[k].n < queue[l].n
      /\ \A k, l \in 1 .. Len(Unread) : k < l => Unread[k] < Unread[l]
  BY DEF OrderInv, Straight
<1>p. /\ DOMAIN Pipeline = 1 .. (SendingLen + Len(queue) + Len(Unread))
      /\ \A k \in DOMAIN Pipeline :
           Pipeline[k] =
             IF k <= SendingLen THEN inflight
             ELSE IF k <= SendingLen + Len(queue) THEN queue[k - SendingLen].n
             ELSE Unread[k - SendingLen - Len(queue)]
  BY <1>t, PipelineProperties
<1>l. a \in {0, 1} /\ (a = 1 => inflight # 0)
  BY <1>s DEF SendingLen
<1>1. \A k \in DOMAIN Pipeline :
        \/ k = 1 /\ a = 1 /\ Pipeline[k] = inflight
        \/ k > a /\ k - a \in 1 .. b /\ Pipeline[k] = queue[k - a].n
        \/ /\ k > a + b /\ k - a - b \in 1 .. Len(Unread)
           /\ Pipeline[k] = Unread[k - a - b]
  <2> SUFFICES ASSUME NEW k \in DOMAIN Pipeline
               PROVE  \/ k = 1 /\ a = 1 /\ Pipeline[k] = inflight
                      \/ k > a /\ k - a \in 1 .. b /\ Pipeline[k] = queue[k - a].n
                      \/ /\ k > a + b /\ k - a - b \in 1 .. Len(Unread)
                         /\ Pipeline[k] = Unread[k - a - b]
    OBVIOUS
  <2>1. k \in 1 .. (a + b + Len(Unread))
    BY <1>p, <1>l
  <2>2. CASE k <= a
    BY <1>s, <1>l, <1>p, <2>1, <2>2
  <2>3. CASE k > a /\ k <= a + b
    BY <1>s, <1>l, <1>p, <2>1, <2>3
  <2>4. CASE k > a + b
    BY <1>s, <1>l, <1>p, <2>1, <2>4
  <2> QED
    BY <1>s, <1>l, <2>1, <2>2, <2>3, <2>4
<1> HIDE DEF a, b
<1>i. a \in Nat /\ b \in Nat /\ b = Len(queue) /\ a \in {0, 1}
  BY <1>s, <1>l DEF a, b
<1>2. last < Pipeline[i]
  BY <1>1, <1>o, <1>l, <1>i
<1>3. ASSUME NEW j \in DOMAIN Pipeline, i < j
      PROVE  Pipeline[i] < Pipeline[j]
  <2>0. i \in Nat /\ j \in Nat /\ i >= 1 /\ j >= 1
    BY <1>p, <1>s, <1>l
  <2>1. CASE i = 1 /\ a = 1 /\ Pipeline[i] = inflight
    BY <1>1, <1>o, <1>i, <1>3, <2>0, <2>1
  <2>2. CASE i - a \in 1 .. b /\ Pipeline[i] = queue[i - a].n
    <3>1. CASE j - a \in 1 .. b /\ Pipeline[j] = queue[j - a].n
      <4>1. i - a < j - a
        BY <1>3, <1>i, <2>0
      <4> QED
        BY <1>o, <1>i, <2>2, <3>1, <4>1
    <3>2. CASE /\ j - a - b \in 1 .. Len(Unread)
               /\ Pipeline[j] = Unread[j - a - b]
      BY <1>o, <1>i, <2>2, <3>2
    <3>3. ~(j = 1 /\ a = 1)
      BY <1>3, <1>i, <2>0
    <3> QED
      BY <1>1, <3>1, <3>2, <3>3
  <2>3. CASE /\ i > a + b /\ i - a - b \in 1 .. Len(Unread)
             /\ Pipeline[i] = Unread[i - a - b]
    <3>1. j > a + b
      BY <1>3, <1>i, <2>0, <2>3
    <3>2. ~(j - a \in 1 .. b) /\ ~(j = 1 /\ a = 1)
      BY <1>3, <1>i, <2>0, <3>1
    <3>3. /\ j - a - b \in 1 .. Len(Unread)
          /\ Pipeline[j] = Unread[j - a - b]
      BY <1>1, <3>2
    <3>4. i - a - b < j - a - b
      BY <1>3, <1>s, <1>i, <2>0
    <3> QED
      BY <1>o, <2>3, <3>3, <3>4
  <2> QED
    BY <1>1, <2>1, <2>2, <2>3
<1> QED
  BY <1>2, <1>3

\* Whatever way adding, pausing, resuming, requesting, retuning and sending
\* interleave, thread, queue and file together hold the packets that are
\* newer than the last one sent in the order of the Add calls, through every
\* round of the ring, until the writer runs over records not yet read, the
\* reader goes on with nothing unread, or a pause writes packets that were
\* read back behind records not yet read.
THEOREM AlwaysInOrder == Spec => []InOrder
BY OrderInvariant, StraightIsInOrder, PTL

-----------------------------------------------------------------------------
(***************************************************************************)
(* The refinement: every step of the queue is a step of OrderedStream on   *)
(* what was added, what was sent and whether the order is still promised,  *)
(* or leaves these three alone.                                            *)
(***************************************************************************)
LEMMA OrderedInit == Init => Ordered!Init
BY DEF Init, Ordered!Init

LEMMA OrderedStep ==
  ASSUME OrderInv, [Next]_vars
  PROVE  [Ordered!Next]_<<added, last, overtaken \/ redrained>>
<1> DEFINE same == UNCHANGED <<added, last, overtaken, redrained>>
<1>t. /\ TypeOK /\ OnlyAdded /\ Straight
      /\ overtaken \in BOOLEAN /\ redrained \in BOOLEAN
      /\ overtaken' \in BOOLEAN /\ redrained' \in BOOLEAN
  BY TypeStep DEF OrderInv, QueueInv, TypeOK
<1>s. inflight \in Nat /\ last \in Nat /\ added \in Nat
  BY <1>t, Shapes
<1>1. CASE AddToFile \/ AddDiscarded \/ AddToQueue
  <2>1. added' = added + 1 /\ last' = last /\ redrained' = redrained
    BY <1>1 DEF AddToFile, Full, AddDiscarded, AddToQueue, Excess
  <2>2. (overtaken => overtaken') /\ overtaken' \in BOOLEAN
    BY <1>t, OnlyGrow
  <2>3. (overtaken' \/ redrained') \in {overtaken \/ redrained, TRUE}
    BY <1>t, <2>1, <2>2
  <2>4. Ordered!Accept
    BY <2>1, <2>3 DEF Ordered!Accept
  <2> QED
    BY <2>4 DEF Ordered!Next
<1>2. CASE Request \/ PauseOn
  <2>1. added' = added /\ last' = last
    BY <1>2 DEF Request, PauseOn
  <2>2. /\ (overtaken => overtaken') /\ (redrained => redrained')
        /\ overtaken' \in BOOLEAN /\ redrained' \in BOOLEAN
    BY <1>t, OnlyGrow
  <2>3. CASE overtaken' \/ redrained'
    <3>1. Ordered!Unorder
      BY <2>1, <2>3 DEF Ordered!Unorder
    <3> QED
      BY <3>1 DEF Ordered!Next
  <2>4. CASE ~overtaken' /\ ~redrained'
    <3>1. (overtaken \/ redrained) = FALSE /\ (overtaken' \/ redrained') = FALSE
      BY <2>2, <2>4
    <3>2. (overtaken \/ redrained)' = (overtaken \/ redrained)
      BY <3>1
    <3> QED
      BY <2>1, <3>2
  <2> QED
    BY <2>3, <2>4
<1>3. CASE Send
  <2>1. /\ last' = inflight
        /\ added' = added /\ overtaken' = overtaken /\ redrained' = redrained
    BY <1>3 DEF Send
  <2>2. inflight # 0 /\ inflight <= added
    BY <1>3, <1>t DEF OnlyAdded, Send
  <2>3. (~overtaken /\ ~redrained) => last < inflight
    BY <1>t, <2>2 DEF Straight
  <2>4. last' \in (IF overtaken \/ redrained THEN 1 ELSE last + 1) .. added
    BY <1>s, <2>1, <2>2, <2>3
  <2>5. Ordered!Deliver
    BY <2>1, <2>4 DEF Ordered!Deliver
  <2> QED
    BY <2>5 DEF Ordered!Next
<1>4. CASE Cleanup \/ Take \/ Join \/ Close \/ Idle
  <2>1. same
    BY <1>4, IdleEffect DEF Cleanup, Take, Join, Close, history
  <2> QED
    BY <2>1
<1> QED
  BY <1>1, <1>2, <1>3, <1>4, Steps

\* To the client the queue is an OrderedStream: a packet is sent at most
\* once and behind the older ones, whatever is added, paused, requested,
\* discarded and killed, until one of the three cases of AlwaysInOrder.
THEOREM Refinement == Spec => ImplementsOrderedStream
<1>1. OrderInv /\ [Next]_vars
        => [Ordered!Next]_<<added, last, overtaken \/ redrained>>
  BY OrderedStep
<1> QED
  BY OrderInvariant, OrderedInit, <1>1, PTL
     DEF Spec, ImplementsOrderedStream, Ordered!Spec

-----------------------------------------------------------------------------
(***************************************************************************)
(* Where every packet is.                                                  *)
(***************************************************************************)
InQueue(n) == \E i \in 1 .. Len(queue) : n = queue[i].n
InFile(n)  == \E i \in 1 .. Len(Unread) : n = Unread[i]
IsHeld(n)  == (n = inflight /\ n # 0) \/ InQueue(n) \/ InFile(n)

\* The thread holds a packet only while it sends it.
HeldToSend == inflight # 0 => pc = "send"

\* NothingVanishes, with the pipeline taken apart.
Once ==
  (~overtaken /\ ~redrained) =>
    \A n \in (last + 1) .. added : IsHeld(n) <=> n \notin dropped

OnceInv == OrderInv /\ HeldToSend /\ Once

LEMMA OnceInit == Init => OnceInv
<1> SUFFICES ASSUME Init PROVE HeldToSend /\ Once
  BY OrderInit DEF OnceInv
<1>1. HeldToSend
  BY DEF Init, HeldToSend
<1>2. Once
  BY DEF Init, Once
<1> QED
  BY <1>1, <1>2

LEMMA HeldToSendStep == OnceInv /\ [Next]_vars => HeldToSend'
<1> SUFFICES ASSUME HeldToSend, [Next]_vars PROVE HeldToSend'
  BY DEF OnceInv
<1>1. CASE AddToFile \/ AddDiscarded \/ AddToQueue \/ Request \/ PauseOn \/ Cleanup
  BY <1>1 DEF HeldToSend, AddToFile, Full, AddDiscarded, AddToQueue, Excess,
              Request, PauseOn, Cleanup
<1>2. CASE Take \/ Send \/ Join \/ Close
  BY <1>2 DEF HeldToSend, Take, Send, Join, Close
<1>3. CASE Idle
  BY <1>3 DEF HeldToSend, Idle, PauseOff, FirstPacket, Stop, SeePause,
              WakeFromPause, IdleWake, Destroy, Cancel, vars, fileVars, history
<1> QED
  BY <1>1, <1>2, <1>3, Steps

(***************************************************************************)
(* What Close gives up is the queue and the unread part of the file.       *)
(***************************************************************************)
LEMMA ElementsProperties ==
  ASSUME TypeOK, NEW n
  PROVE  /\ n \in Elements(Numbers(queue)) <=> InQueue(n)
         /\ n \in Elements(Unread) <=> InFile(n)
<1>1. n \in Elements(Numbers(queue)) <=> InQueue(n)
  <2>1. DOMAIN Numbers(queue) = 1 .. Len(queue)
    BY LenProperties DEF TypeOK, Numbers
  <2>2. \A i \in 1 .. Len(queue) : Numbers(queue)[i] = queue[i].n
    BY NumbersProperties DEF TypeOK
  <2> QED
    BY <2>1, <2>2 DEF Elements, InQueue
<1>2. n \in Elements(Unread) <=> InFile(n)
  <2>1. DOMAIN Unread = 1 .. Len(Unread)
    BY UnreadProperties, LenProperties
  <2> QED
    BY <2>1 DEF Elements, InFile
<1> QED
  BY <1>1, <1>2

(***************************************************************************)
(* A packet leaves thread, queue and file by being sent or being given up, *)
(* and comes back by neither.                                              *)
(***************************************************************************)
LEMMA OnceStep == OnceInv /\ [Next]_vars => Once'
<1> SUFFICES ASSUME OnceInv, [Next]_vars PROVE Once'
  OBVIOUS
<1>g. last' \in Nat /\ added' \in Nat
  BY TypeStep DEF OnceInv, OrderInv, QueueInv, TypeOK
<1> SUFFICES ASSUME ~overtaken', ~redrained',
                    NEW n \in Nat, last' < n, n <= added'
             PROVE  IsHeld(n)' <=> n \notin dropped'
  <2>1. \A l, a \in Nat : \A m \in (l + 1) .. a : m \in Nat /\ l < m /\ m <= a
    OBVIOUS
  <2>2. \A m \in (last' + 1) .. added' : m \in Nat /\ last' < m /\ m <= added'
    BY <1>g, <2>1
  <2> QED
    BY <2>2 DEF Once
<1>t. /\ TypeOK /\ RingInv /\ ReadBackOnly /\ OnlyAdded /\ Rounds /\ Straight
      /\ OrderInv /\ HeldToSend /\ Once /\ TypeOK' /\ RingInv'
  BY TypeStep, RingStep DEF OnceInv, OrderInv, QueueInv
<1>s. /\ Len(queue) \in Nat
      /\ inflight \in Nat /\ last \in Nat /\ added \in Nat
      /\ \A i \in 1 .. Len(queue) : queue[i].n \in Nat /\ queue[i].n > 0
      /\ \A m \in dropped : m \in Nat
  BY <1>t, Shapes
<1>v. /\ Len(Unread) \in Nat
      /\ \A i \in 1 .. Len(Unread) :
           Unread[i] \in Nat /\ Unread[i] > 0 /\ Unread[i] <= added
  BY <1>t, UnreadKnown
<1>p. n > 0 /\ Len(queue') \in Nat /\ Len(file') \in Nat
  <2>1. Len(queue') \in Nat /\ Len(file') \in Nat
    BY <1>t, LenProperties DEF TypeOK
  <2>2. \A l \in Nat : l < n => n > 0
    OBVIOUS
  <2> QED
    BY <1>g, <2>1, <2>2
<1>a. /\ last <= added /\ inflight <= added
      /\ \A i \in 1 .. Len(queue) : queue[i].n <= added
      /\ \A m \in dropped : m <= added
  BY <1>t DEF OnlyAdded
<1>b. ~overtaken /\ ~redrained
  BY OnlyGrow, <1>t
<1>o. /\ inflight # 0 => last < inflight
      /\ \A i \in 1 .. Len(queue) : last < queue[i].n /\ inflight < queue[i].n
      /\ \A i \in 1 .. Len(Unread) : last < Unread[i] /\ inflight < Unread[i]
      /\ \A i \in 1 .. Len(queue) : \A j \in 1 .. Len(Unread) :
           queue[i].n < Unread[j]
      /\ \A i, j \in 1 .. Len(queue) : i < j => queue[i].n < queue[j].n
      /\ \A i, j \in 1 .. Len(Unread) : i < j => Unread[i] < Unread[j]
  BY <1>b, <1>t DEF Straight
<1>h. \A m \in (last + 1) .. added : IsHeld(m) <=> m \notin dropped
  BY <1>b, <1>t DEF Once
<1>u. last' = last /\ added' = added => (IsHeld(n) <=> n \notin dropped)
  <2>1. last < n /\ n <= added => n \in (last + 1) .. added
    BY <1>s
  <2> QED
    BY <1>h, <2>1
<1>f. ~IsHeld(added + 1) /\ added + 1 \notin dropped
  BY <1>s, <1>v, <1>a DEF IsHeld, InQueue, InFile
<1>1. CASE AddToFile
  <2>1. added' = added + 1 /\ UNCHANGED <<queue, inflight, last>>
    BY <1>1, <1>t, AddToFileEffect
  <2>2. n \in (last + 1) .. added \/ n = added + 1
    BY <1>s, <1>p, <2>1
  <2>3. CASE Unread' = Unread /\ dropped' = dropped \cup {added + 1}
    <3>1. IsHeld(n)' <=> IsHeld(n)
      BY <2>1, <2>3 DEF IsHeld, InQueue, InFile
    <3> QED
      BY <1>s, <1>h, <1>f, <2>2, <2>3, <3>1
  <2>4. CASE /\ UNCHANGED dropped
             /\ Len(Unread') = Len(Unread) + 1
             /\ \A i \in 1 .. Len(Unread') :
                  Unread'[i] = IF i = Len(Unread) + 1 THEN added + 1 ELSE Unread[i]
    <3>1. \A i \in 1 .. Len(Unread) :
            i \in 1 .. Len(Unread') /\ Unread'[i] = Unread[i]
      BY <1>v, <2>4
    <3>2. \A i \in 1 .. Len(Unread') :
            \/ i \in 1 .. Len(Unread) /\ Unread'[i] = Unread[i]
            \/ Unread'[i] = added + 1
      BY <1>v, <2>4
    <3>3. /\ Len(Unread) + 1 \in 1 .. Len(Unread')
          /\ Unread'[Len(Unread) + 1] = added + 1
      BY <1>v, <2>4
    <3>4. InFile(n)' <=> InFile(n) \/ n = added + 1
      BY <3>1, <3>2, <3>3 DEF InFile
    <3>5. IsHeld(n)' <=> IsHeld(n) \/ n = added + 1
      BY <2>1, <3>4 DEF IsHeld, InQueue
    <3> QED
      BY <1>h, <1>f, <2>2, <2>4, <3>5
  <2> QED
    BY <1>1, <1>t, <2>3, <2>4, AddToFileUnread
<1>2. CASE AddDiscarded
  <2>1. /\ added' = added + 1 /\ dropped' = dropped \cup {added + 1}
        /\ UNCHANGED <<queue, Unread, inflight, last>>
    BY <1>2, <1>t, UnreadKept DEF AddDiscarded
  <2>2. n \in (last + 1) .. added \/ n = added + 1
    BY <1>s, <1>p, <2>1
  <2>3. IsHeld(n)' <=> IsHeld(n)
    BY <2>1 DEF IsHeld, InQueue, InFile
  <2> QED
    BY <1>s, <1>h, <1>f, <2>1, <2>2, <2>3
<1>3. CASE AddToQueue
  <2>1. PICK e \in 0 .. Len(queue) :
          /\ Len(queue') = Len(queue) + 1 - e
          /\ \A i \in 1 .. Len(queue') :
               queue'[i].n = IF i + e = Len(queue) + 1 THEN added + 1
                                                       ELSE queue[i + e].n
          /\ dropped' = dropped \cup {queue[i].n : i \in 1 .. e}
    BY <1>3, <1>t, AddToQueueEffect
  <2>2. /\ UNCHANGED <<Unread, inflight, last>> /\ ~writefd
        /\ added' = added + 1
    BY <1>3, <1>t, AddToQueueEffect, UnreadKept
  <2>3. n \in (last + 1) .. added \/ n = added + 1
    BY <1>s, <1>p, <2>2
  <2>4. \A i \in 1 .. Len(queue') :
          \/ i + e \in (e + 1) .. Len(queue) /\ queue'[i].n = queue[i + e].n
          \/ i + e = Len(queue) + 1 /\ queue'[i].n = added + 1
    <3>1. \A i \in 1 .. Len(queue') :
            i + e = Len(queue) + 1 \/ i + e \in (e + 1) .. Len(queue)
      BY <1>s, <1>p, <2>1
    <3>2. Len(queue) + 1 \notin (e + 1) .. Len(queue)
      BY <1>s
    <3> QED
      BY <2>1, <3>1, <3>2
  <2>5. \A i \in (e + 1) .. Len(queue) :
          i - e \in 1 .. Len(queue') /\ queue'[i - e].n = queue[i].n
    <3> SUFFICES ASSUME NEW i \in (e + 1) .. Len(queue)
                 PROVE  i - e \in 1 .. Len(queue') /\ queue'[i - e].n = queue[i].n
      OBVIOUS
    <3>1. i - e \in 1 .. Len(queue') /\ (i - e) + e = i /\ i # Len(queue) + 1
      BY <1>s, <2>1
    <3> QED
      BY <2>1, <3>1
  <2>6. Len(queue') \in 1 .. Len(queue') /\ queue'[Len(queue')].n = added + 1
    <3>1. Len(queue') + e = Len(queue) + 1 /\ Len(queue') \in 1 .. Len(queue')
      BY <1>s, <2>1
    <3> QED
      BY <2>1, <3>1
  <2>7. InQueue(n)' <=> n = added + 1 \/ \E i \in (e + 1) .. Len(queue) : n = queue[i].n
    BY <2>4, <2>5, <2>6 DEF InQueue
  <2>8. InFile(n)' <=> InFile(n)
    BY <2>2 DEF InFile
  <2>9. CASE \E i \in 1 .. e : n = queue[i].n
    <3>1. PICK i \in 1 .. e : n = queue[i].n
      BY <2>9
    <3>2. n \in dropped'
      BY <2>1, <3>1
    <3>3. i \in 1 .. Len(queue)
      BY <1>s, <2>1
    <3>4. n # inflight /\ n # added + 1
      BY <1>s, <1>o, <1>a, <3>1, <3>3
    <3>5. ~InFile(n)
      BY <1>s, <1>o, <3>1, <3>3 DEF InFile
    <3>6. \A j \in (e + 1) .. Len(queue) : n # queue[j].n
      <4>1. \A j \in (e + 1) .. Len(queue) : j \in 1 .. Len(queue) /\ i < j
        BY <1>s, <2>1
      <4> QED
        BY <1>s, <1>o, <3>1, <3>3, <4>1
    <3>7. ~IsHeld(n)'
      BY <2>2, <2>7, <2>8, <3>4, <3>5, <3>6 DEF IsHeld
    <3> QED
      BY <3>2, <3>7
  <2>10. CASE ~\E i \in 1 .. e : n = queue[i].n
    <3>1. n \in dropped' <=> n \in dropped
      BY <2>1, <2>10
    <3>2. \A i \in 1 .. Len(queue) : i \in 1 .. e \/ i \in (e + 1) .. Len(queue)
      BY <1>s, <2>1
    <3>3. \A i \in (e + 1) .. Len(queue) : i \in 1 .. Len(queue)
      BY <1>s, <2>1
    <3>4. InQueue(n) <=> \E i \in (e + 1) .. Len(queue) : n = queue[i].n
      BY <2>10, <3>2, <3>3 DEF InQueue
    <3>5. IsHeld(n)' <=> IsHeld(n) \/ n = added + 1
      BY <1>p, <2>2, <2>7, <2>8, <3>4 DEF IsHeld
    <3> QED
      BY <1>h, <1>f, <2>3, <3>1, <3>5
  <2> QED
    BY <2>9, <2>10
<1>4. CASE Request
  <2>1. /\ Len(Unread) > 0 /\ Len(Unread') = Len(Unread) - 1
        /\ \A i \in 1 .. Len(Unread') : Unread'[i] = Unread[i + 1]
        /\ Len(queue') = Len(queue) + 1
        /\ \A i \in 1 .. Len(queue') :
             queue'[i].n = IF i = Len(queue) + 1 THEN Unread[1] ELSE queue[i].n
    BY <1>4, <1>t, RequestUnread
  <2>2. UNCHANGED <<inflight, last, added, dropped>>
    BY <1>4, <1>t, RequestEffect
  <2>3. 1 \in 1 .. Len(Unread)
    BY <1>v, <2>1
  <2>4. \A i \in 1 .. Len(Unread) :
          i = 1 \/ (i - 1 \in 1 .. Len(Unread') /\ Unread'[i - 1] = Unread[i])
    <3> SUFFICES ASSUME NEW i \in 1 .. Len(Unread), i # 1
                 PROVE  i - 1 \in 1 .. Len(Unread') /\ Unread'[i - 1] = Unread[i]
      OBVIOUS
    <3>1. i - 1 \in 1 .. Len(Unread') /\ (i - 1) + 1 = i
      BY <1>v, <2>1
    <3> QED
      BY <2>1, <3>1
  <2>5. \A i \in 1 .. Len(Unread') :
          i + 1 \in 1 .. Len(Unread) /\ Unread'[i] = Unread[i + 1]
    BY <1>v, <2>1
  <2>6. InFile(n)' => InFile(n)
    BY <2>5 DEF InFile
  <2>7. InFile(n) <=> InFile(n)' \/ n = Unread[1]
    <3>1. InFile(n) => InFile(n)' \/ n = Unread[1]
      BY <2>4 DEF InFile
    <3>2. n = Unread[1] => InFile(n)
      BY <2>3 DEF InFile
    <3> QED
      BY <2>6, <3>1, <3>2
  <2>8. \A i \in 1 .. Len(queue) : i \in 1 .. Len(queue') /\ queue'[i].n = queue[i].n
    BY <1>s, <2>1
  <2>9. /\ Len(queue) + 1 \in 1 .. Len(queue')
        /\ queue'[Len(queue) + 1].n = Unread[1]
    BY <1>s, <2>1
  <2>10. \A i \in 1 .. Len(queue') :
           \/ i \in 1 .. Len(queue) /\ queue'[i].n = queue[i].n
           \/ queue'[i].n = Unread[1]
    BY <1>s, <2>1
  <2>11. InQueue(n)' <=> InQueue(n) \/ n = Unread[1]
    BY <2>8, <2>9, <2>10 DEF InQueue
  <2>12. IsHeld(n)' <=> IsHeld(n)
    BY <2>2, <2>7, <2>11 DEF IsHeld
  <2> QED
    BY <1>u, <2>2, <2>12
<1>5. CASE PauseOn
  <2>1. PICK k \in 0 .. Len(queue) :
          /\ Len(Unread') = Len(Unread) + k
          /\ \A i \in 1 .. Len(Unread') :
               Unread'[i] = IF i <= Len(Unread) THEN Unread[i]
                            ELSE queue[i - Len(Unread)].n
          /\ dropped' = dropped \cup {queue[i].n : i \in (k + 1) .. Len(queue)}
    BY <1>5, <1>t, PauseOnUnread
  <2>2. UNCHANGED <<inflight, last, added>> /\ Len(queue') = 0
    BY <1>5, <1>t, PauseOnEffect
  <2>3. ~InQueue(n)'
    BY <2>2 DEF InQueue
  <2>4. \A i \in (k + 1) .. Len(queue) : i \in 1 .. Len(queue)
    BY <1>s, <2>1
  <2>5. \A i \in 1 .. k : i \in 1 .. Len(queue)
    BY <1>s, <2>1
  <2>6. InFile(n)' <=> InFile(n) \/ \E i \in 1 .. k : n = queue[i].n
    <3>0. k \in Nat /\ Len(Unread') = Len(Unread) + k
      BY <1>s, <2>1
    <3>1. \A i \in 1 .. Len(Unread') :
            \/ i \in 1 .. Len(Unread) /\ i <= Len(Unread)
            \/ i - Len(Unread) \in 1 .. k /\ ~(i <= Len(Unread))
      BY <1>v, <3>0
    <3>2. \A i \in 1 .. Len(Unread) : i \in 1 .. Len(Unread') /\ i <= Len(Unread)
      BY <1>v, <3>0
    <3>3. \A i \in 1 .. k : /\ i + Len(Unread) \in 1 .. Len(Unread')
                            /\ ~(i + Len(Unread) <= Len(Unread))
                            /\ (i + Len(Unread)) - Len(Unread) = i
      BY <1>v, <3>0
    <3>4. InFile(n)' => InFile(n) \/ \E i \in 1 .. k : n = queue[i].n
      BY <2>1, <3>1 DEF InFile
    <3>5. InFile(n) => InFile(n)'
      BY <2>1, <3>2 DEF InFile
    <3>6. ASSUME NEW i \in 1 .. k, n = queue[i].n PROVE InFile(n)'
      <4>1. Unread'[i + Len(Unread)] = queue[(i + Len(Unread)) - Len(Unread)].n
        BY <2>1, <3>3
      <4>2. Unread'[i + Len(Unread)] = n
        BY <3>3, <3>6, <4>1
      <4> QED
        BY <3>3, <4>2 DEF InFile
    <3> QED
      BY <3>4, <3>5, <3>6
  <2>7. \A i \in 1 .. Len(queue) : i \in 1 .. k \/ i \in (k + 1) .. Len(queue)
    BY <1>s, <2>1
  <2>8. CASE \E i \in (k + 1) .. Len(queue) : n = queue[i].n
    <3>1. PICK i \in (k + 1) .. Len(queue) : n = queue[i].n
      BY <2>8
    <3>2. n \in dropped'
      BY <2>1, <3>1
    <3>3. n # inflight
      BY <1>s, <1>o, <2>4, <3>1
    <3>4. ~InFile(n)
      BY <1>s, <1>o, <2>4, <3>1 DEF InFile
    <3>5. \A j \in 1 .. k : n # queue[j].n
      <4>1. \A j \in 1 .. k : j < i
        BY <1>s, <2>1
      <4> QED
        BY <1>s, <1>o, <2>4, <2>5, <3>1, <4>1
    <3> QED
      BY <2>2, <2>3, <2>6, <3>2, <3>3, <3>4, <3>5 DEF IsHeld
  <2>9. CASE ~\E i \in (k + 1) .. Len(queue) : n = queue[i].n
    <3>1. n \in dropped' <=> n \in dropped
      BY <2>1, <2>9
    <3>2. InQueue(n) <=> \E i \in 1 .. k : n = queue[i].n
      BY <2>5, <2>7, <2>9 DEF InQueue
    <3>3. IsHeld(n)' <=> IsHeld(n)
      BY <2>2, <2>3, <2>6, <3>2 DEF IsHeld
    <3> QED
      BY <1>u, <2>2, <3>1, <3>3
  <2> QED
    BY <2>8, <2>9
<1>6. CASE Cleanup
  <2>1. /\ Len(queue') = 0 /\ UNCHANGED <<inflight, last, added>>
        /\ dropped' = dropped \cup {queue[i].n : i \in 1 .. Len(queue)}
    BY <1>6, <1>t, EmptySeq, LenProperties DEF Cleanup, TypeOK
  <2>2. ~InQueue(n)' /\ (InFile(n)' <=> InFile(n))
    BY <1>6, <1>t, <2>1, UnreadKept DEF InQueue, InFile
  <2>3. n \in dropped' <=> n \in dropped \/ InQueue(n)
    BY <2>1 DEF InQueue
  <2>4. InQueue(n) => n # inflight /\ ~InFile(n)
    BY <1>s, <1>o DEF InQueue, InFile
  <2> QED
    BY <1>u, <2>1, <2>2, <2>3, <2>4 DEF IsHeld
<1>7. CASE Take
  <2>1. UNCHANGED <<Unread, last, added, dropped>>
    BY <1>7, <1>t, TakeEffect, UnreadKept
  <2>2. CASE UNCHANGED <<queue, inflight>>
    <3>1. IsHeld(n)' <=> IsHeld(n)
      BY <2>1, <2>2 DEF IsHeld, InQueue, InFile
    <3> QED
      BY <1>u, <2>1, <3>1
  <2>3. CASE /\ Len(queue) # 0 /\ inflight' = queue[1].n
             /\ Len(queue') = Len(queue) - 1
             /\ \A i \in 1 .. Len(queue') : queue'[i].n = queue[i + 1].n
    <3>1. inflight = 0
      BY <1>7, <1>t DEF HeldToSend, Take
    <3>2. \A i \in 1 .. Len(queue) :
            i = 1 \/ (i - 1 \in 1 .. Len(queue') /\ queue'[i - 1].n = queue[i].n)
      <4> SUFFICES ASSUME NEW i \in 1 .. Len(queue), i # 1
                   PROVE  i - 1 \in 1 .. Len(queue') /\ queue'[i - 1].n = queue[i].n
        OBVIOUS
      <4>1. i - 1 \in 1 .. Len(queue') /\ (i - 1) + 1 = i
        BY <1>s, <2>3
      <4> QED
        BY <2>3, <4>1
    <3>3. \A i \in 1 .. Len(queue') : i + 1 \in 1 .. Len(queue)
      BY <1>s, <2>3
    <3>4. 1 \in 1 .. Len(queue)
      BY <1>s, <2>3
    <3>5. InQueue(n) <=> InQueue(n)' \/ n = queue[1].n
      <4>1. InQueue(n) => InQueue(n)' \/ n = queue[1].n
        BY <3>2 DEF InQueue
      <4>2. InQueue(n)' \/ n = queue[1].n => InQueue(n)
        BY <2>3, <3>3, <3>4 DEF InQueue
      <4> QED
        BY <4>1, <4>2
    <3>6. IsHeld(n)' <=> IsHeld(n)
      BY <1>p, <2>1, <2>3, <3>1, <3>5 DEF IsHeld, InFile
    <3> QED
      BY <1>u, <2>1, <3>6
  <2> QED
    BY <1>7, <1>t, <2>2, <2>3, TakeEffect
<1>8. CASE Send
  <2>1. /\ UNCHANGED <<queue, Unread, added, dropped>>
        /\ last' = inflight /\ inflight' = 0 /\ inflight # 0
    BY <1>8, <1>t, UnreadKept DEF Send, OnlyAdded
  <2>2. n \in (last + 1) .. added /\ n # inflight
    BY <1>s, <1>o, <1>p, <2>1
  <2>3. IsHeld(n)' <=> IsHeld(n)
    BY <1>p, <2>1, <2>2 DEF IsHeld, InQueue, InFile
  <2> QED
    BY <1>h, <2>1, <2>2, <2>3
<1>9. CASE Join
  <2>1. /\ UNCHANGED <<queue, Unread, last, added>> /\ inflight' = 0
        /\ dropped' = dropped \cup ({inflight} \ {0})
    BY <1>9, <1>t, UnreadKept DEF Join
  <2>2. (InQueue(n)' <=> InQueue(n)) /\ (InFile(n)' <=> InFile(n))
    BY <2>1 DEF InQueue, InFile
  <2>3. InQueue(n) \/ InFile(n) => n # inflight
    BY <1>s, <1>o DEF InQueue, InFile
  <2>4. n \in dropped' <=> n \in dropped \/ n = inflight
    BY <1>p, <2>1
  <2>5. IsHeld(n) <=> n = inflight \/ InQueue(n) \/ InFile(n)
    BY <1>p DEF IsHeld
  <2>6. IsHeld(n)' <=> InQueue(n) \/ InFile(n)
    BY <1>p, <2>1, <2>2 DEF IsHeld
  <2> QED
    BY <1>u, <2>1, <2>3, <2>4, <2>5, <2>6
<1>10. CASE Close
  <2>1. /\ Len(queue') = 0 /\ Len(Unread') = 0
        /\ UNCHANGED <<inflight, last, added>>
        /\ dropped' = dropped \cup Elements(Numbers(queue)) \cup Elements(Unread)
    BY <1>10, <1>t, CloseEmpties DEF Close
  <2>2. n \in dropped' <=> n \in dropped \/ InQueue(n) \/ InFile(n)
    BY <1>t, <2>1, ElementsProperties
  <2>3. ~InQueue(n)' /\ ~InFile(n)'
    BY <2>1 DEF InQueue, InFile
  <2>4. InQueue(n) \/ InFile(n) => n # inflight
    BY <1>s, <1>o DEF InQueue, InFile
  <2> QED
    BY <1>u, <2>1, <2>2, <2>3, <2>4 DEF IsHeld
<1>11. CASE Idle
  <2>1. UNCHANGED <<queue, Unread, inflight, last, added, dropped>>
    BY <1>11, <1>t, IdleEffect, UnreadKept
  <2>2. IsHeld(n)' <=> IsHeld(n)
    BY <2>1 DEF IsHeld, InQueue, InFile
  <2> QED
    BY <1>u, <2>1, <2>2
<1> QED
  BY <1>1, <1>2, <1>3, <1>4, <1>5, <1>6, <1>7, <1>8, <1>9, <1>10, <1>11, Steps

(***************************************************************************)
(* The pipeline holds what thread, queue and file hold.                    *)
(***************************************************************************)
LEMMA PipelineElements ==
  ASSUME TypeOK, NEW n \in Nat, n > 0
  PROVE  n \in Elements(Pipeline) <=> IsHeld(n)
<1> DEFINE a == SendingLen
           b == Len(queue)
<1>s. Len(queue) \in Nat /\ Len(Unread) \in Nat /\ inflight \in Nat
  BY Shapes, UnreadProperties
<1>p. /\ DOMAIN Pipeline = 1 .. (a + b + Len(Unread))
      /\ \A k \in DOMAIN Pipeline :
           Pipeline[k] = IF k <= a THEN inflight
                         ELSE IF k <= a + b THEN queue[k - a].n
                         ELSE Unread[k - a - b]
  BY PipelineProperties
<1>l. a \in {0, 1} /\ (a = 1 <=> inflight # 0)
  BY <1>s DEF SendingLen
<1>i. b = Len(queue) /\ b \in Nat /\ a \in Nat /\ Len(Unread) \in Nat
  BY <1>s, <1>l
<1> HIDE DEF a, b
<1>1. ASSUME NEW k \in DOMAIN Pipeline, n = Pipeline[k]
      PROVE  IsHeld(n)
  <2>0. k \in 1 .. (a + b + Len(Unread))
    BY <1>p
  <2>1. CASE k <= a
    BY <1>p, <1>1, <2>1 DEF IsHeld
  <2>2. CASE k > a /\ k <= a + b
    <3>1. k - a \in 1 .. Len(queue) /\ ~(k <= a)
      BY <1>i, <2>0, <2>2
    <3>2. n = queue[k - a].n
      BY <1>p, <1>1, <2>2, <3>1
    <3> QED
      BY <3>1, <3>2 DEF IsHeld, InQueue
  <2>3. CASE k > a + b
    <3>1. /\ k - a - b \in 1 .. Len(Unread)
          /\ ~(k <= a) /\ ~(k <= a + b)
      BY <1>s, <1>i, <1>l, <2>0, <2>3
    <3>2. n = Unread[k - a - b]
      BY <1>p, <1>1, <3>1
    <3> QED
      BY <3>1, <3>2 DEF IsHeld, InFile
  <2> QED
    BY <1>i, <2>0, <2>1, <2>2, <2>3
<1>2. ASSUME n = inflight
      PROVE  \E k \in DOMAIN Pipeline : n = Pipeline[k]
  <2>1. a = 1 /\ 1 \in DOMAIN Pipeline /\ 1 <= a
    BY <1>p, <1>l, <1>i, <1>2
  <2> QED
    BY <1>p, <1>2, <2>1
<1>3. ASSUME NEW i \in 1 .. Len(queue), n = queue[i].n
      PROVE  \E k \in DOMAIN Pipeline : n = Pipeline[k]
  <2>1. /\ i + a \in DOMAIN Pipeline /\ ~(i + a <= a) /\ i + a <= a + b
        /\ (i + a) - a = i
    BY <1>p, <1>i
  <2> QED
    BY <1>p, <1>3, <2>1
<1>4. ASSUME NEW i \in 1 .. Len(Unread), n = Unread[i]
      PROVE  \E k \in DOMAIN Pipeline : n = Pipeline[k]
  <2> DEFINE k == a + b + i
  <2>1. /\ k \in DOMAIN Pipeline /\ ~(k <= a) /\ ~(k <= a + b)
        /\ k - a - b = i
    BY <1>s, <1>p, <1>i, <1>l
  <2> HIDE DEF k
  <2> QED
    BY <1>p, <1>4, <2>1
<1> QED
  BY <1>1, <1>2, <1>3, <1>4 DEF Elements, IsHeld, InQueue, InFile

LEMMA OnceInvariant == Spec => []OnceInv
<1>1. OnceInv /\ [Next]_vars => OnceInv'
  BY HeldToSendStep, OnceStep, AddedStep, RoundsStep, StraightStep, TypeStep, RingStep,
     BoundStep DEF OnceInv, OrderInv, QueueInv
<1> QED
  BY OnceInit, <1>1, PTL DEF Spec

\* Outside the three cases of AlwaysInOrder every packet newer than the last
\* one sent is either on its way to the client or among those given up for a
\* stated reason.
THEOREM NothingLostWithoutTrace == Spec => []NothingVanishes
<1>1. OnceInv => NothingVanishes
  <2> SUFFICES ASSUME OnceInv, ~overtaken, ~redrained,
                      NEW n \in (last + 1) .. added
               PROVE  (n \in Elements(Pipeline)) # (n \in dropped)
    BY DEF NothingVanishes
  <2>t. TypeOK
    BY DEF OnceInv, OrderInv, QueueInv
  <2>1. n \in Elements(Pipeline) <=> IsHeld(n)
    <3>1. n \in Nat /\ n > 0
      BY <2>t DEF TypeOK
    <3> QED
      BY <2>t, <3>1, PipelineElements
  <2>2. IsHeld(n) <=> n \notin dropped
    BY DEF OnceInv, Once
  <2> QED
    BY <2>1, <2>2
<1> QED
  BY OnceInvariant, <1>1, PTL
=============================================================================
