---------------------------- MODULE Socket_proofs ----------------------------
(***************************************************************************)
(* TypeOK, TakenOnce and NothingLost for every number of writers and       *)
(* packets, every length of header and payload, and every capacity of the  *)
(* connection.                                                             *)
(***************************************************************************)
EXTENDS Socket, SequenceTheorems, TLAPS

LEMMA ConstantTypes ==
  /\ SyncLength \in Nat \ {0} /\ HeaderLength \in Nat
  /\ HeaderLength - SyncLength \in Nat \ {0}
  /\ Capacity \in Nat \ {0} /\ MaxFailures \in Nat
  /\ \A w \in Writers : MaxPackets[w] \in Nat
  /\ \A p \in Packets : Payload[p] \in Nat /\ Length(p) \in Nat
  BY SocketAssumption DEF Length

LEMMA PacketsAre ==
  ASSUME NEW p
  PROVE  p \in Packets <=>
           \E v \in Writers : \E k \in 1 .. MaxPackets[v] : p = [w |-> v, n |-> k]
  BY DEF Packets

\* A writer that has not written all its packets is at one of them.
LEMMA CurrentIsPacket ==
  ASSUME TypeOK, NEW w \in Writers, next[w] <= MaxPackets[w]
  PROVE  Current(w) \in Packets
  <1>1. next[w] \in 1 .. MaxPackets[w]
    BY ConstantTypes DEF TypeOK
  <1>. QED
    BY <1>1, PacketsAre DEF Current

LEMMA PieceType ==
  ASSUME TypeOK, NEW w \in Writers, next[w] <= MaxPackets[w], NEW k \in Nat
  PROVE  /\ Piece(w, k) \in Seq(Bytes) /\ Len(Piece(w, k)) = k
         /\ \A i \in 1 .. k :
              Piece(w, k)[i] = [p |-> Current(w), at |-> written[w] + i]
  <1>1. Current(w) \in Packets /\ written[w] \in Nat
    BY CurrentIsPacket DEF TypeOK
  <1>2. \A i \in 1 .. k : [p |-> Current(w), at |-> written[w] + i] \in Bytes
    BY <1>1 DEF Bytes
  <1>. QED
    BY <1>2 DEF Piece

\* What the reader wants is a number, and only of a packet it is at.
LEMMA WantedType ==
  ASSUME phase \in {"idle", "sync", "header", "payload", "closed"},
         head \in Packets
  PROVE  Wanted \in Nat
  BY ConstantTypes DEF Wanted

LEMMA InitType == Init => TypeOK
  <1>. SUFFICES ASSUME Init PROVE TypeOK
    OBVIOUS
  <1>1. head \in Packets
    BY SocketAssumption DEF Init
  <1>2. DOMAIN next = Writers
        /\ \A w \in Writers : next[w] \in 1 .. MaxPackets[w] + 1
    <2>. SUFFICES ASSUME NEW w \in Writers PROVE 1 \in 1 .. MaxPackets[w] + 1
      BY DEF Init
    <2>1. MaxPackets[w] \in Nat
      BY ConstantTypes
    <2>. QED
      BY <2>1
  <1>5. /\ written \in [Writers -> Nat]
        /\ \A w \in Writers : written[w] = 0
    BY DEF Init
  <1>6. failures \in 0 .. MaxFailures
    BY ConstantTypes DEF Init
  <1>3. Len(got) <= Wanted /\ Len(stream) <= Capacity
    BY ConstantTypes DEF Init, Wanted
  <1>4. stream \in Seq(Bytes) /\ got \in Seq(Bytes) /\ begun \in Seq(Packets)
        /\ accepted \in Seq([p : Packets, whole : BOOLEAN])
    BY EmptySeq DEF Init
  <1>. QED
    BY <1>1, <1>2, <1>3, <1>4, <1>5, <1>6 DEF Init, TypeOK

\* The reader looks for something new: it has read nothing of that yet.
LEMMA LookForKeeps ==
  ASSUME TypeOK, NEW what \in {"idle", "sync", "header", "payload", "closed"},
         LookFor(what), UNCHANGED writing, head' \in Packets,
         accepted' \in Seq([p : Packets, whole : BOOLEAN]),
         stream' \in Seq(Bytes), Len(stream') <= Capacity,
         conn' \in {"open", "shut", "reset"}, begun' \in Seq(Packets),
         mixed' \in BOOLEAN, timedOut' \in BOOLEAN, failures' \in 0 .. MaxFailures
  PROVE  TypeOK'
  <1>1. phase' = what /\ got' = <<>>
    BY DEF LookFor
  <1>2. Wanted' \in Nat
    <2>1. phase' \in {"idle", "sync", "header", "payload", "closed"}
      BY <1>1
    <2>. QED
      BY <2>1, ConstantTypes DEF Wanted
  <1>3. got' \in Seq(Bytes) /\ Len(got') = 0
    BY <1>1, EmptySeq
  <1>4. Len(got') <= Wanted'
    BY <1>2, <1>3
  <1>. QED
    BY <1>1, <1>3, <1>4 DEF TypeOK, writing, Current

\* send() took k bytes.
LEMMA SendIs ==
  ASSUME TypeOK, NEW w \in Writers, Send(w)
  PROVE  \E k \in Nat \ {0} :
           /\ k <= Capacity - Len(stream)
           /\ k <= Length(Current(w)) - written[w]
           /\ next[w] <= MaxPackets[w]
           /\ stream' = stream \o Piece(w, k)
           /\ written' = [written EXCEPT ![w] =
                IF written[w] + k = Length(Current(w)) THEN 0 ELSE written[w] + k]
           /\ next' = [next EXCEPT ![w] =
                IF written[w] + k = Length(Current(w)) THEN next[w] + 1 ELSE next[w]]
  <1>1. PICK k \in 1 .. Least(Capacity - Len(stream), Length(Current(w)) - written[w]) :
          /\ next[w] <= MaxPackets[w]
          /\ stream' = stream \o Piece(w, k)
          /\ written' = [written EXCEPT ![w] =
               IF written[w] + k = Length(Current(w)) THEN 0 ELSE written[w] + k]
          /\ next' = [next EXCEPT ![w] =
               IF written[w] + k = Length(Current(w)) THEN next[w] + 1 ELSE next[w]]
    BY DEF Send
  <1>2. /\ Capacity - Len(stream) \in Int
        /\ Length(Current(w)) - written[w] \in Int
    BY <1>1, ConstantTypes, CurrentIsPacket DEF TypeOK
  <1>3. /\ k \in Nat \ {0} /\ k <= Capacity - Len(stream)
        /\ k <= Length(Current(w)) - written[w]
    BY <1>2 DEF Least
  <1>. QED
    BY <1>1, <1>3

\* Bytes are added behind the others.
LEMMA Appended ==
  ASSUME NEW S, NEW s \in Seq(S), NEW t \in Seq(S)
  PROVE  /\ s \o t \in Seq(S) /\ Len(s \o t) = Len(s) + Len(t)
         /\ \A i \in 1 .. Len(s) : (s \o t)[i] = s[i]
         /\ \A i \in 1 .. Len(t) : (s \o t)[Len(s) + i] = t[i]
         /\ \A i \in 1 .. Len(s) + Len(t) : i > Len(s) => (s \o t)[i] = t[i - Len(s)]
  <1>1. /\ s \o t \in Seq(S) /\ Len(s \o t) = Len(s) + Len(t)
        /\ \A i \in 1 .. Len(s) + Len(t) :
             (s \o t)[i] = IF i <= Len(s) THEN s[i] ELSE t[i - Len(s)]
    BY ConcatProperties, ZenonT(30)
  <1>2. Len(s) \in Nat /\ Len(t) \in Nat
    OBVIOUS
  <1>. DEFINE u == s \o t
  <1>3. \A i \in 1 .. Len(s) + Len(t) :
          u[i] = IF i <= Len(s) THEN s[i] ELSE t[i - Len(s)]
    BY <1>1
  <1>. HIDE DEF u
  <1>4. \A i \in 1 .. Len(s) : u[i] = s[i]
    BY <1>2, <1>3
  <1>5. \A i \in 1 .. Len(t) : u[Len(s) + i] = t[i]
    <2>. SUFFICES ASSUME NEW i \in 1 .. Len(t) PROVE u[Len(s) + i] = t[i]
      OBVIOUS
    <2>1. /\ Len(s) + i \in 1 .. Len(s) + Len(t) /\ ~(Len(s) + i <= Len(s))
          /\ Len(s) + i - Len(s) = i
      BY <1>2
    <2>. QED
      BY <1>3, <2>1
  <1>6. \A i \in 1 .. Len(s) + Len(t) : i > Len(s) => u[i] = t[i - Len(s)]
    BY <1>2, <1>3
  <1>. QED
    BY <1>1, <1>4, <1>5, <1>6 DEF u

LEMMA SendType == \A w \in Writers : TypeOK /\ Send(w) => TypeOK'
  <1>. SUFFICES ASSUME NEW w \in Writers, TypeOK, Send(w) PROVE TypeOK'
    OBVIOUS
  <1>1. PICK k \in Nat \ {0} :
          /\ k <= Capacity - Len(stream)
          /\ k <= Length(Current(w)) - written[w]
          /\ next[w] <= MaxPackets[w]
          /\ stream' = stream \o Piece(w, k)
          /\ written' = [written EXCEPT ![w] =
               IF written[w] + k = Length(Current(w)) THEN 0 ELSE written[w] + k]
          /\ next' = [next EXCEPT ![w] =
               IF written[w] + k = Length(Current(w)) THEN next[w] + 1 ELSE next[w]]
    BY SendIs
  <1>2. /\ Current(w) \in Packets /\ Length(Current(w)) \in Nat
        /\ MaxPackets[w] \in Nat /\ written[w] \in Nat
        /\ next[w] \in 1 .. MaxPackets[w] + 1
    BY <1>1, CurrentIsPacket, ConstantTypes DEF TypeOK
  <1>3. /\ Piece(w, k) \in Seq(Bytes) /\ Len(Piece(w, k)) = k
    BY <1>1, PieceType
  <1>4. stream' \in Seq(Bytes) /\ Len(stream') = Len(stream) + k
    <2>1. stream \in Seq(Bytes)
      BY DEF TypeOK
    <2>2. stream \o Piece(w, k) \in Seq(Bytes)
          /\ Len(stream \o Piece(w, k)) = Len(stream) + Len(Piece(w, k))
      BY <1>3, <2>1, Appended
    <2>. QED
      BY <1>1, <1>3, <2>2
  <1>5. Len(stream') <= Capacity
    BY <1>1, <1>4, ConstantTypes DEF TypeOK
  <1>6. DOMAIN next' = Writers /\ written' \in [Writers -> Nat]
    BY <1>1, <1>2 DEF TypeOK
  <1>7. \A v \in Writers : next'[v] \in 1 .. MaxPackets[v] + 1
    <2>. SUFFICES ASSUME NEW v \in Writers PROVE next'[v] \in 1 .. MaxPackets[v] + 1
      OBVIOUS
    <2>1. CASE v = w
      BY <1>1, <1>2, <2>1 DEF TypeOK
    <2>2. CASE v # w
      BY <1>1, <2>2 DEF TypeOK
    <2>. QED
      BY <2>1, <2>2
  <1>8. \A v \in Writers : written'[v] # 0 => written'[v] < Length(Current(v)')
    <2>. SUFFICES ASSUME NEW v \in Writers, written'[v] # 0
                  PROVE written'[v] < Length([w |-> v, n |-> next'[v]])
      BY DEF Current
    <2>1. CASE v = w
      <3>1. written[w] + k # Length(Current(w))
        BY <1>1, <1>2, <2>1 DEF TypeOK
      <3>2. next'[w] = next[w] /\ written'[w] = written[w] + k
        BY <1>1, <3>1 DEF TypeOK
      <3>3. [w |-> v, n |-> next'[v]] = Current(w)
        BY <2>1, <3>2 DEF Current
      <3>4. written[w] + k < Length(Current(w))
        BY <1>1, <1>2, <3>1
      <3>. QED
        BY <2>1, <3>2, <3>3, <3>4
    <2>2. CASE v # w
      <3>1. written'[v] = written[v] /\ next'[v] = next[v]
        BY <1>1, <2>2 DEF TypeOK
      <3>. QED
        BY <3>1 DEF TypeOK, Current
    <2>. QED
      BY <2>1, <2>2
  <1>9. begun' \in Seq(Packets)
    <2>1. begun' = begun \/ begun' = Append(begun, Current(w))
      BY DEF Send
    <2>2. begun \in Seq(Packets)
      BY DEF TypeOK
    <2>. QED
      BY <1>2, <2>1, <2>2
  <1>10. mixed' \in BOOLEAN
    BY DEF Send, TypeOK
  <1>11. UNCHANGED <<conn, phase, got, head, accepted, timedOut, failures>>
    BY DEF Send, reading
  <1>12. Wanted' = Wanted
    BY <1>11 DEF Wanted
  <1>. QED
    BY <1>4, <1>5, <1>6, <1>7, <1>8, <1>9, <1>10, <1>11, <1>12 DEF TypeOK

\* A sequence is cut in two.
LEMMA CutInTwo ==
  ASSUME NEW S, NEW s \in Seq(S), NEW k \in Nat, k <= Len(s)
  PROVE  /\ SubSeq(s, 1, k) \in Seq(S) /\ Len(SubSeq(s, 1, k)) = k
         /\ \A i \in 1 .. k : SubSeq(s, 1, k)[i] = s[i]
         /\ SubSeq(s, k + 1, Len(s)) \in Seq(S)
         /\ Len(SubSeq(s, k + 1, Len(s))) = Len(s) - k
         /\ \A i \in 1 .. Len(s) - k : SubSeq(s, k + 1, Len(s))[i] = s[k + i]
  <1>1. Len(s) \in Nat /\ \A i \in 1 .. Len(s) : s[i] \in S
    OBVIOUS
  <1>2. /\ SubSeq(s, 1, k) \in Seq(S) /\ Len(SubSeq(s, 1, k)) = k
        /\ \A i \in 1 .. k : SubSeq(s, 1, k)[i] = s[i]
    BY <1>1
  <1>3. /\ SubSeq(s, k + 1, Len(s)) \in Seq(S)
        /\ Len(SubSeq(s, k + 1, Len(s))) = Len(s) - k
        /\ \A i \in 1 .. Len(s) - k : SubSeq(s, k + 1, Len(s))[i] = s[k + i]
    BY <1>1
  <1>. QED
    BY <1>2, <1>3

\* recv() took k bytes.
LEMMA ReceiveIs ==
  ASSUME TypeOK, Receive
  PROVE  \E k \in Nat \ {0} :
           /\ k <= Len(stream) /\ k <= Wanted - Len(got)
           /\ got' = got \o SubSeq(stream, 1, k)
           /\ stream' = SubSeq(stream, k + 1, Len(stream))
  <1>1. /\ stream \in Seq(Bytes) /\ stream # <<>> /\ Len(got) \in Nat
        /\ Len(got) <= Wanted /\ Len(got) # Wanted
    BY DEF TypeOK, Receive, Complete
  <1>2. Wanted \in Nat
    BY WantedType DEF TypeOK
  <1>3. Len(stream) \in Nat \ {0} /\ Wanted - Len(got) \in Nat \ {0}
    BY <1>1, <1>2
  <1>4. /\ Take \in Nat \ {0} /\ Take <= Len(stream) /\ Take <= Wanted - Len(got)
    BY <1>3 DEF Take, Least
  <1>. QED
    BY <1>4 DEF Receive

LEMMA ReceiveType == TypeOK /\ Receive => TypeOK'
  <1>. SUFFICES ASSUME TypeOK, Receive PROVE TypeOK'
    OBVIOUS
  <1>1. PICK k \in Nat \ {0} :
          /\ k <= Len(stream) /\ k <= Wanted - Len(got)
          /\ got' = got \o SubSeq(stream, 1, k)
          /\ stream' = SubSeq(stream, k + 1, Len(stream))
    BY ReceiveIs
  <1>2. got \in Seq(Bytes) /\ stream \in Seq(Bytes) /\ Len(stream) <= Capacity
    BY DEF TypeOK
  <1>3. /\ SubSeq(stream, 1, k) \in Seq(Bytes) /\ Len(SubSeq(stream, 1, k)) = k
        /\ stream' \in Seq(Bytes) /\ Len(stream') = Len(stream) - k
    BY <1>1, <1>2, CutInTwo
  <1>4. got' \in Seq(Bytes) /\ Len(got') = Len(got) + k
    BY <1>1, <1>2, <1>3, Appended
  <1>5. UNCHANGED <<writing, conn, phase, head, accepted, history>>
    BY DEF Receive
  <1>6. Wanted' = Wanted /\ Wanted \in Nat
    BY <1>5, WantedType DEF Wanted, TypeOK
  <1>7. Len(got') <= Wanted' /\ Len(stream') <= Capacity
    BY <1>1, <1>2, <1>3, <1>4, <1>6, ConstantTypes
  <1>. QED
    BY <1>3, <1>4, <1>5, <1>7 DEF TypeOK, writing, history, Current

LEMMA AcceptType ==
  ASSUME TypeOK, NEW q \in Packets, NEW whole \in BOOLEAN, Accept(q, whole)
  PROVE  accepted' \in Seq([p : Packets, whole : BOOLEAN])
  <1>1. [p |-> q, whole |-> whole] \in [p : Packets, whole : BOOLEAN]
    OBVIOUS
  <1>. QED
    BY <1>1 DEF Accept, TypeOK

\* What is read first after the sync mark belongs to a packet.
LEMMA HeaderIsRead ==
  ASSUME TypeOK, Complete, phase = "header"
  PROVE  /\ DOMAIN got = 1 .. HeaderLength - SyncLength
         /\ 1 \in DOMAIN got /\ got[1].p \in Packets
  <1>1. /\ got \in Seq(Bytes) /\ Len(got) = HeaderLength - SyncLength
    BY DEF Complete, Wanted, TypeOK
  <1>2. 1 \in 1 .. Len(got)
    BY <1>1, ConstantTypes
  <1>3. got[1] \in Bytes
    BY <1>1, <1>2
  <1>. QED
    BY <1>1, <1>2, <1>3 DEF Bytes

LEMMA HeaderType == TypeOK /\ Header => TypeOK'
  <1>. SUFFICES ASSUME TypeOK, Header PROVE TypeOK'
    OBVIOUS
  <1>1. head' \in Packets
    BY HeaderIsRead DEF Header
  <1>2. /\ accepted' \in Seq([p : Packets, whole : BOOLEAN])
        /\ \E what \in {"idle", "payload"} : LookFor(what)
    <2>1. CASE Payload[head'] = 0
      <3>1. Accept(head', TRUE)
        BY <2>1 DEF Header
      <3>2. LookFor("idle")
        BY <3>1 DEF Accept
      <3>3. accepted' = Append(accepted, [p |-> head', whole |-> TRUE])
        BY <3>1 DEF Accept
      <3>4. [p |-> head', whole |-> TRUE] \in [p : Packets, whole : BOOLEAN]
        BY <1>1
      <3>. QED
        BY <3>2, <3>3, <3>4 DEF TypeOK
    <2>2. CASE Payload[head'] # 0
      BY <2>2 DEF Header, TypeOK
    <2>. QED
      BY <2>1, <2>2
  <1>3. UNCHANGED <<writing, stream, conn, begun, mixed, timedOut, failures>>
    BY DEF Header, history
  <1>4. /\ stream' \in Seq(Bytes) /\ Len(stream') <= Capacity
        /\ conn' \in {"open", "shut", "reset"} /\ begun' \in Seq(Packets)
        /\ mixed' \in BOOLEAN /\ timedOut' \in BOOLEAN
        /\ failures' \in 0 .. MaxFailures
    BY <1>3 DEF TypeOK
  <1>. QED
    BY <1>1, <1>2, <1>3, <1>4, LookForKeeps

LEMMA BodyType == TypeOK /\ Body => TypeOK'
  <1>. SUFFICES ASSUME TypeOK, Body PROVE TypeOK'
    OBVIOUS
  <1>1. Accept(head, Are(head, HeaderLength)) /\ head \in Packets
    BY DEF Body, TypeOK
  <1>2. Are(head, HeaderLength) \in BOOLEAN
    BY DEF Are
  <1>3. accepted' \in Seq([p : Packets, whole : BOOLEAN]) /\ LookFor("idle")
    BY <1>1, <1>2, AcceptType DEF Accept
  <1>4. UNCHANGED <<writing, stream, conn, head, begun, mixed, timedOut, failures>>
    BY DEF Body, history
  <1>5. /\ stream' \in Seq(Bytes) /\ Len(stream') <= Capacity
        /\ conn' \in {"open", "shut", "reset"} /\ begun' \in Seq(Packets)
        /\ mixed' \in BOOLEAN /\ timedOut' \in BOOLEAN
        /\ failures' \in 0 .. MaxFailures
    BY <1>4 DEF TypeOK
  <1>. QED
    BY <1>1, <1>3, <1>4, <1>5, LookForKeeps

LEMMA WriteFailsType == \A w \in Writers : TypeOK /\ WriteFails(w) => TypeOK'
  <1>. SUFFICES ASSUME NEW w \in Writers, TypeOK, WriteFails(w) PROVE TypeOK'
    OBVIOUS
  <1>1. /\ next[w] <= MaxPackets[w]
        /\ next' = [next EXCEPT ![w] = IF w \in Retries THEN next[w] ELSE next[w] + 1]
        /\ written' = [written EXCEPT ![w] = 0]
        /\ failures < MaxFailures /\ failures' = failures + 1 /\ timedOut' = TRUE
        /\ UNCHANGED <<stream, conn, phase, got, head, accepted, begun, mixed>>
    BY DEF WriteFails, GiveUp, reading
  <1>2. MaxPackets[w] \in Nat /\ next[w] \in 1 .. MaxPackets[w] + 1
    BY ConstantTypes DEF TypeOK
  <1>3. DOMAIN next' = Writers /\ written' \in [Writers -> Nat]
    BY <1>1 DEF TypeOK
  <1>4. \A v \in Writers : next'[v] \in 1 .. MaxPackets[v] + 1
    <2>. SUFFICES ASSUME NEW v \in Writers PROVE next'[v] \in 1 .. MaxPackets[v] + 1
      OBVIOUS
    <2>1. CASE v = w
      BY <1>1, <1>2, <2>1 DEF TypeOK
    <2>2. CASE v # w
      BY <1>1, <2>2 DEF TypeOK
    <2>. QED
      BY <2>1, <2>2
  <1>5. \A v \in Writers : written'[v] # 0 => written'[v] < Length(Current(v)')
    <2>. SUFFICES ASSUME NEW v \in Writers, written'[v] # 0
                  PROVE written'[v] < Length([w |-> v, n |-> next'[v]])
      BY DEF Current
    <2>1. v # w
      BY <1>1 DEF TypeOK
    <2>2. written'[v] = written[v] /\ next'[v] = next[v]
      BY <1>1, <2>1 DEF TypeOK
    <2>. QED
      BY <2>2 DEF TypeOK, Current
  <1>6. failures' \in 0 .. MaxFailures
    <2>1. failures \in 0 .. MaxFailures
      BY DEF TypeOK
    <2>. QED
      BY <1>1, <2>1, ConstantTypes
  <1>7. Wanted' = Wanted
    BY <1>1 DEF Wanted
  <1>. QED
    BY <1>1, <1>3, <1>4, <1>5, <1>6, <1>7 DEF TypeOK

LEMMA CloseType == TypeOK /\ Close => TypeOK'
  <1>. SUFFICES ASSUME TypeOK, Close PROVE TypeOK'
    OBVIOUS
  <1>1. /\ conn' \in {"open", "shut", "reset"} /\ timedOut' = TRUE
        /\ stream' = stream \/ stream' = <<>>
        /\ UNCHANGED <<writing, phase, got, head, accepted, begun, mixed, failures>>
    BY DEF Close, reading
  <1>2. stream' \in Seq(Bytes) /\ Len(stream') <= Capacity
    <2>1. CASE stream' = stream
      BY <2>1 DEF TypeOK
    <2>2. CASE stream' = <<>>
      BY <2>2, ConstantTypes
    <2>. QED
      BY <1>1, <2>1, <2>2
  <1>3. Wanted' = Wanted
    BY <1>1 DEF Wanted
  <1>. QED
    BY <1>1, <1>2, <1>3 DEF TypeOK, writing, Current

\* The steps of the reader that end or begin something and take no packet.
Turns == Begin \/ ReadTimeout \/ ReadEnd \/ ReadError \/ Sync \/ Reject

LEMMA TurnsAre ==
  ASSUME Turns
  PROVE  /\ \E what \in {"idle", "sync", "header", "closed"} :
              /\ LookFor(what)
              /\ what = "header" => Sync /\ IsSync
         /\ UNCHANGED <<next, written, stream, head, accepted, begun, mixed, failures>>
         /\ conn' = conn \/ conn' = "shut"
         /\ timedOut' = timedOut \/ timedOut' = TRUE
  BY DEF Turns, Begin, ReadTimeout, ReadEnd, ReadError, Sync, Reject, writing,
         history

LEMMA TurnsType == TypeOK /\ Turns => TypeOK'
  <1>. SUFFICES ASSUME TypeOK, Turns PROVE TypeOK'
    OBVIOUS
  <1>1. PICK what \in {"idle", "sync", "header", "closed"} : LookFor(what)
    BY TurnsAre
  <1>2. /\ UNCHANGED <<next, written, stream, head, accepted, begun, mixed, failures>>
        /\ conn' = conn \/ conn' = "shut"
        /\ timedOut' = timedOut \/ timedOut' = TRUE
    BY TurnsAre
  <1>3. /\ UNCHANGED writing /\ head' \in Packets
        /\ accepted' \in Seq([p : Packets, whole : BOOLEAN])
        /\ stream' \in Seq(Bytes) /\ Len(stream') <= Capacity
        /\ conn' \in {"open", "shut", "reset"} /\ begun' \in Seq(Packets)
        /\ mixed' \in BOOLEAN /\ timedOut' \in BOOLEAN
        /\ failures' \in 0 .. MaxFailures
    BY <1>2 DEF TypeOK, writing
  <1>. QED
    BY <1>1, <1>3, LookForKeeps

LEMMA UnchangedType == TypeOK /\ UNCHANGED vars => TypeOK'
  <1>1. UNCHANGED vars => Wanted' = Wanted
    BY DEF vars, reading, Wanted
  <1>. QED
    BY <1>1 DEF TypeOK, vars, writing, reading, history, Current

LEMMA Steps ==
  ASSUME [Next]_vars
  PROVE  \/ \E w \in Writers : Send(w)
         \/ \E w \in Writers : WriteFails(w)
         \/ Close \/ Receive \/ Header \/ Body \/ Turns \/ UNCHANGED vars
  <1>1. Next \/ UNCHANGED vars
    OBVIOUS
  <1>2. Reader => Receive \/ Header \/ Body \/ Turns
    BY DEF Reader, Turns
  <1>. QED
    BY <1>1, <1>2 DEF Next, Terminated, Waiting

LEMMA StepType == TypeOK /\ [Next]_vars => TypeOK'
  <1>. SUFFICES ASSUME TypeOK, [Next]_vars PROVE TypeOK'
    OBVIOUS
  <1>. QED
    BY Steps, SendType, WriteFailsType, CloseType, ReceiveType, HeaderType,
       BodyType, TurnsType, UnchangedType

(* The variables of the writers and the reader keep their types, TypeOK:   *)
(* no writer is at a byte its packet has not (msgpacket.c:403-432), and    *)
(* recv is never asked for more than is missing (os-config.c:78-107).      *)
THEOREM TypeCorrect == Spec => []TypeOK
  BY InitType, StepType, PTL DEF Spec

-----------------------------------------------------------------------------
(* TakenOnce.  The bytes that are on their way to a decision of the reader *)
(* are those it has got and those on the connection.  Of the bytes of one  *)
(* writer, none comes behind one of a later packet, and none of a packet   *)
(* whose last byte was sent comes again.                                   *)

IsLast(b) == b.at = Length(b.p)

\* c may come behind b.
Before(b, c) ==
  b.p.w = c.p.w =>
    /\ b.p.n <= c.p.n
    /\ b.p.n = c.p.n => ~IsLast(b) /\ (b.p.w \notin Retries => b.at < c.at)

\* The byte that w sends next.
NextByte(w) == [p |-> Current(w), at |-> written[w] + 1]

\* All that comes and all that will be sent may come behind b.
Passed(b) ==
  /\ \A i \in 1 .. Len(Coming) : Before(b, Coming[i])
  /\ \A w \in Writers : Before(b, NextByte(w))

Ordered ==
  \A i \in 1 .. Len(Coming) :
    /\ \A j \in 1 .. Len(Coming) : i < j => Before(Coming[i], Coming[j])
    /\ \A w \in Writers : Before(Coming[i], NextByte(w))

HeaderEnd(q) == [p |-> q, at |-> HeaderLength]

\* The last byte of a packet that is known to have passed when it is taken.
Mark(q) == [p |-> q, at |-> IF q.w \in Retries THEN Length(q) ELSE HeaderLength]

\* What was taken has passed ...
Left == \A a \in DOMAIN accepted : Passed(Mark(accepted[a].p))

\* ... and so has the header of the packet the reader is in, which is none
\* that was taken.
AtPayload ==
  phase = "payload" =>
    /\ Payload[head] # 0
    /\ Passed(HeaderEnd(head))
    /\ \A a \in DOMAIN accepted :
         accepted[a].p.w = head.w => accepted[a].p.n < head.n

OrderInv == TypeOK /\ Ordered /\ Left /\ AtPayload /\ TakenOnce

-----------------------------------------------------------------------------
(* What the steps do to the bytes that come.                               *)

LEMMA ComingIs ==
  ASSUME NEW g \in Seq(Bytes), NEW s \in Seq(Bytes)
  PROVE  /\ g \o s \in Seq(Bytes) /\ Len(g \o s) = Len(g) + Len(s)
         /\ \A i \in 1 .. Len(g) : (g \o s)[i] = g[i]
         /\ \A i \in 1 .. Len(g) + Len(s) : i > Len(g) => (g \o s)[i] = s[i - Len(g)]
  BY Appended

LEMMA ComingType ==
  ASSUME TypeOK
  PROVE  /\ Coming \in Seq(Bytes) /\ Len(Coming) = Len(got) + Len(stream)
         /\ Len(got) \in Nat /\ Len(stream) \in Nat /\ Len(Coming) \in Nat
         /\ \A i \in 1 .. Len(Coming) : Coming[i] \in Bytes
         /\ \A i \in 1 .. Len(got) : Coming[i] = got[i]
         /\ \A i \in 1 .. Len(Coming) :
              i > Len(got) => Coming[i] = stream[i - Len(got)]
  <1>1. got \in Seq(Bytes) /\ stream \in Seq(Bytes)
    BY DEF TypeOK
  <1>2. /\ got \o stream \in Seq(Bytes)
        /\ Len(got \o stream) = Len(got) + Len(stream)
        /\ \A i \in 1 .. Len(got) : (got \o stream)[i] = got[i]
        /\ \A i \in 1 .. Len(got) + Len(stream) :
             i > Len(got) => (got \o stream)[i] = stream[i - Len(got)]
    BY <1>1, ComingIs
  <1>3. Coming \in Seq(Bytes)
    BY <1>2 DEF Coming
  <1>4. \A i \in 1 .. Len(Coming) : Coming[i] \in Bytes
    BY <1>3
  <1>. QED
    BY <1>1, <1>2, <1>3, <1>4 DEF Coming

LEMMA ComingTypeNext ==
  ASSUME TypeOK'
  PROVE  /\ Len(Coming') = Len(got') + Len(stream')
         /\ Len(got') \in Nat /\ Len(stream') \in Nat
         /\ \A i \in 1 .. Len(got') : Coming'[i] = got'[i]
         /\ \A i \in 1 .. Len(Coming') :
              i > Len(got') => Coming'[i] = stream'[i - Len(got')]
  <1>1. got' \in Seq(Bytes) /\ stream' \in Seq(Bytes)
    BY DEF TypeOK
  <1>2. /\ Len(got' \o stream') = Len(got') + Len(stream')
        /\ \A i \in 1 .. Len(got') : (got' \o stream')[i] = got'[i]
        /\ \A i \in 1 .. Len(got') + Len(stream') :
             i > Len(got') => (got' \o stream')[i] = stream'[i - Len(got')]
    BY <1>1, ComingIs
  <1>. QED
    BY <1>1, <1>2 DEF Coming

\* What comes after a step is a part of what came before it.
Part(d) ==
  /\ d \in Nat /\ d + Len(Coming') <= Len(Coming)
  /\ \A i \in 1 .. Len(Coming') : Coming'[i] = Coming[d + i]

\* The reader gives up what it has got.
LEMMA LookForPart ==
  ASSUME TypeOK, TypeOK', NEW what, LookFor(what), stream' = stream
  PROVE  Part(Len(got))
  <1>1. got' = <<>>
    BY DEF LookFor
  <1>2. /\ Len(Coming') = Len(got') + Len(stream')
        /\ \A i \in 1 .. Len(Coming') :
             i > Len(got') => Coming'[i] = stream'[i - Len(got')]
    BY ComingTypeNext
  <1>3. /\ Len(Coming) = Len(got) + Len(stream)
        /\ Len(got) \in Nat /\ Len(stream) \in Nat
        /\ \A i \in 1 .. Len(Coming) :
             i > Len(got) => Coming[i] = stream[i - Len(got)]
    BY ComingType
  <1>4. Len(Coming') = Len(stream)
    BY <1>1, <1>2, <1>3
  <1>5. \A i \in 1 .. Len(stream) : Coming'[i] = Coming[Len(got) + i]
    <2>. SUFFICES ASSUME NEW i \in 1 .. Len(stream)
                  PROVE  Coming'[i] = Coming[Len(got) + i]
      OBVIOUS
    <2>1. Coming'[i] = stream[i]
      BY <1>1, <1>2, <1>3, <1>4
    <2>2. /\ Len(got) + i \in 1 .. Len(Coming) /\ Len(got) + i > Len(got)
          /\ (Len(got) + i) - Len(got) = i
      BY <1>3
    <2>3. Coming[Len(got) + i] = stream[(Len(got) + i) - Len(got)]
      BY <1>3, <2>2
    <2>. QED
      BY <2>1, <2>2, <2>3
  <1>. QED
    BY <1>3, <1>4, <1>5 DEF Part

LEMMA ClosePart ==
  ASSUME TypeOK, TypeOK', Close
  PROVE  Part(0)
  <1>1. got' = got /\ (stream' = stream \/ stream' = <<>>)
    BY DEF Close, reading
  <1>2. /\ Len(Coming') = Len(got') + Len(stream')
        /\ \A i \in 1 .. Len(got') : Coming'[i] = got'[i]
    BY ComingTypeNext
  <1>3. /\ Len(Coming) = Len(got) + Len(stream)
        /\ Len(got) \in Nat /\ Len(stream) \in Nat
        /\ \A i \in 1 .. Len(got) : Coming[i] = got[i]
    BY ComingType
  <1>4. CASE stream' = stream
    <2>1. Coming' = Coming
      BY <1>1, <1>4 DEF Coming
    <2>. QED
      BY <1>3, <2>1 DEF Part
  <1>5. CASE stream' = <<>>
    <2>1. Len(Coming') = Len(got)
      BY <1>1, <1>2, <1>3, <1>5
    <2>. QED
      BY <1>1, <1>2, <1>3, <2>1 DEF Part
  <1>. QED
    BY <1>1, <1>4, <1>5

LEMMA ReceivePart ==
  ASSUME TypeOK, TypeOK', Receive
  PROVE  Part(0) /\ Len(Coming') = Len(Coming)
  <1>1. PICK k \in Nat \ {0} :
          /\ k <= Len(stream) /\ k <= Wanted - Len(got)
          /\ got' = got \o SubSeq(stream, 1, k)
          /\ stream' = SubSeq(stream, k + 1, Len(stream))
    BY ReceiveIs
  <1>2. /\ Len(Coming') = Len(got') + Len(stream')
        /\ \A i \in 1 .. Len(got') : Coming'[i] = got'[i]
        /\ \A i \in 1 .. Len(Coming') :
             i > Len(got') => Coming'[i] = stream'[i - Len(got')]
    BY ComingTypeNext
  <1>3. /\ Len(Coming) = Len(got) + Len(stream)
        /\ Len(got) \in Nat /\ Len(stream) \in Nat
        /\ \A i \in 1 .. Len(got) : Coming[i] = got[i]
        /\ \A i \in 1 .. Len(Coming) :
             i > Len(got) => Coming[i] = stream[i - Len(got)]
    BY ComingType
  <1>4. stream \in Seq(Bytes) /\ got \in Seq(Bytes)
    BY DEF TypeOK
  <1>5. /\ SubSeq(stream, 1, k) \in Seq(Bytes) /\ Len(SubSeq(stream, 1, k)) = k
        /\ \A i \in 1 .. k : SubSeq(stream, 1, k)[i] = stream[i]
        /\ Len(stream') = Len(stream) - k
        /\ \A i \in 1 .. Len(stream) - k : stream'[i] = stream[k + i]
    BY <1>1, <1>4, CutInTwo
  <1>6. /\ Len(got') = Len(got) + k
        /\ \A i \in 1 .. Len(got) : got'[i] = got[i]
        /\ \A i \in 1 .. Len(got) + k : i > Len(got) => got'[i] = stream[i - Len(got)]
    <2>1. /\ Len(got') = Len(got) + Len(SubSeq(stream, 1, k))
          /\ \A i \in 1 .. Len(got) : got'[i] = got[i]
          /\ \A i \in 1 .. Len(got) + Len(SubSeq(stream, 1, k)) :
               i > Len(got) => got'[i] = SubSeq(stream, 1, k)[i - Len(got)]
      BY <1>1, <1>4, <1>5, ComingIs
    <2>2. \A i \in 1 .. Len(got) + k : i > Len(got) => i - Len(got) \in 1 .. k
      BY <1>3
    <2>. QED
      BY <1>5, <2>1, <2>2
  <1>7. Len(Coming') = Len(Coming)
    <2>1. Len(got') + Len(stream') = Len(got) + Len(stream)
      BY <1>3, <1>5, <1>6
    <2>. QED
      BY <1>2, <1>3, <2>1
  <1>8. \A i \in 1 .. Len(Coming) : Coming'[i] = Coming[i]
    <2>. SUFFICES ASSUME NEW i \in 1 .. Len(Coming) PROVE Coming'[i] = Coming[i]
      OBVIOUS
    <2>1. CASE i <= Len(got)
      <3>1. i \in 1 .. Len(got) /\ i \in 1 .. Len(got')
        BY <1>1, <1>3, <1>6, <2>1
      <3>. QED
        BY <1>2, <1>3, <1>6, <3>1
    <2>2. CASE i > Len(got) /\ i <= Len(got) + k
      <3>1. i \in 1 .. Len(got') /\ i \in 1 .. Len(got) + k
        BY <1>1, <1>3, <1>6, <2>2
      <3>2. Coming'[i] = got'[i]
        BY <1>2, <3>1
      <3>3. got'[i] = stream[i - Len(got)]
        BY <1>6, <2>2, <3>1
      <3>. QED
        BY <1>3, <2>2, <3>2, <3>3
    <2>3. CASE i > Len(got) + k
      <3>1. /\ i > Len(got') /\ i > Len(got) /\ i \in 1 .. Len(Coming')
            /\ i - Len(got') \in 1 .. Len(stream) - k
            /\ k + (i - Len(got')) = i - Len(got)
        BY <1>1, <1>3, <1>6, <1>7, <2>3
      <3>2. Coming'[i] = stream'[i - Len(got')]
        BY <1>2, <3>1
      <3>3. stream'[i - Len(got')] = stream[k + (i - Len(got'))]
        BY <1>5, <3>1
      <3>. QED
        BY <1>3, <3>1, <3>2, <3>3
    <2>. QED
      BY <1>1, <1>3, <2>1, <2>2, <2>3
  <1>. QED
    BY <1>3, <1>7, <1>8 DEF Part

LEMMA SendGrows ==
  ASSUME TypeOK, TypeOK', NEW w \in Writers, next[w] <= MaxPackets[w],
         NEW k \in Nat \ {0}, stream' = stream \o Piece(w, k), got' = got
  PROVE  /\ Len(Coming') = Len(Coming) + k
         /\ \A i \in 1 .. Len(Coming) : Coming'[i] = Coming[i]
         /\ \A i \in 1 .. Len(Coming) + k : i > Len(Coming) =>
              Coming'[i] = [p |-> Current(w), at |-> written[w] + (i - Len(Coming))]
  <1>1. /\ Len(Coming') = Len(got') + Len(stream')
        /\ \A i \in 1 .. Len(got') : Coming'[i] = got'[i]
        /\ \A i \in 1 .. Len(Coming') :
             i > Len(got') => Coming'[i] = stream'[i - Len(got')]
    BY ComingTypeNext
  <1>2. /\ Len(Coming) = Len(got) + Len(stream)
        /\ Len(got) \in Nat /\ Len(stream) \in Nat
        /\ \A i \in 1 .. Len(got) : Coming[i] = got[i]
        /\ \A i \in 1 .. Len(Coming) :
             i > Len(got) => Coming[i] = stream[i - Len(got)]
    BY ComingType
  <1>3. /\ Piece(w, k) \in Seq(Bytes) /\ Len(Piece(w, k)) = k
        /\ \A i \in 1 .. k :
             Piece(w, k)[i] = [p |-> Current(w), at |-> written[w] + i]
    BY PieceType
  <1>4. stream \in Seq(Bytes)
    BY DEF TypeOK
  <1>5. /\ Len(stream') = Len(stream) + k
        /\ \A i \in 1 .. Len(stream) : stream'[i] = stream[i]
        /\ \A i \in 1 .. Len(stream) + k :
             i > Len(stream) => stream'[i] = Piece(w, k)[i - Len(stream)]
    <2>1. /\ Len(stream \o Piece(w, k)) = Len(stream) + Len(Piece(w, k))
          /\ \A i \in 1 .. Len(stream) : (stream \o Piece(w, k))[i] = stream[i]
          /\ \A i \in 1 .. Len(stream) + Len(Piece(w, k)) : i > Len(stream) =>
               (stream \o Piece(w, k))[i] = Piece(w, k)[i - Len(stream)]
      BY <1>3, <1>4, ComingIs
    <2>2. Len(Piece(w, k)) = k
      BY <1>3
    <2>. QED
      BY <2>1, <2>2
  <1>6. Len(Coming') = Len(Coming) + k
    BY <1>1, <1>2, <1>5
  <1>7. \A i \in 1 .. Len(Coming) : Coming'[i] = Coming[i]
    <2>. SUFFICES ASSUME NEW i \in 1 .. Len(Coming) PROVE Coming'[i] = Coming[i]
      OBVIOUS
    <2>1. CASE i <= Len(got)
      <3>1. i \in 1 .. Len(got)
        BY <1>2, <2>1
      <3>. QED
        BY <1>1, <1>2, <3>1
    <2>2. CASE i > Len(got)
      <3>1. i \in 1 .. Len(Coming') /\ i - Len(got) \in 1 .. Len(stream)
        BY <1>2, <1>6, <2>2
      <3>. QED
        BY <1>1, <1>2, <1>5, <2>2, <3>1
    <2>. QED
      BY <1>2, <2>1, <2>2
  <1>8. ASSUME NEW i \in 1 .. Len(Coming) + k, i > Len(Coming)
        PROVE  Coming'[i] = [p |-> Current(w), at |-> written[w] + (i - Len(Coming))]
    <2>1. /\ i \in 1 .. Len(Coming') /\ i > Len(got)
          /\ i - Len(got) \in 1 .. Len(stream) + k /\ i - Len(got) > Len(stream)
          /\ (i - Len(got)) - Len(stream) = i - Len(Coming)
          /\ i - Len(Coming) \in 1 .. k
      BY <1>2, <1>6, <1>8
    <2>2. Coming'[i] = stream'[i - Len(got)]
      BY <1>1, <2>1
    <2>3. stream'[i - Len(got)] = Piece(w, k)[(i - Len(got)) - Len(stream)]
      BY <1>5, <2>1
    <2>4. stream'[i - Len(got)] = Piece(w, k)[i - Len(Coming)]
      BY <2>1, <2>3
    <2>. QED
      BY <1>3, <2>1, <2>2, <2>4
  <1>. QED
    BY <1>6, <1>7, <1>8

-----------------------------------------------------------------------------
(* What has passed stays passed.                                           *)

LEMMA PacketFields ==
  ASSUME NEW q \in Packets
  PROVE  q.w \in Writers /\ q.n \in Nat /\ q = [w |-> q.w, n |-> q.n]
  <1>1. PICK v \in Writers : \E k \in 1 .. MaxPackets[v] : q = [w |-> v, n |-> k]
    BY PacketsAre
  <1>2. PICK k \in 1 .. MaxPackets[v] : q = [w |-> v, n |-> k]
    BY <1>1
  <1>3. MaxPackets[v] \in Nat
    BY ConstantTypes
  <1>. QED
    BY <1>2, <1>3

LEMMA ByteFields ==
  ASSUME NEW b \in Bytes
  PROVE  /\ b.p \in Packets /\ b.at \in Nat
         /\ b.p.w \in Writers /\ b.p.n \in Nat
         /\ Length(b.p) \in Nat
  <1>1. b.p \in Packets /\ b.at \in Nat
    BY DEF Bytes
  <1>. QED
    BY <1>1, PacketFields, ConstantTypes

LEMMA WriterNumbers ==
  ASSUME TypeOK, NEW w \in Writers
  PROVE  next[w] \in Nat /\ written[w] \in Nat
  BY ConstantTypes DEF TypeOK

\* A writer never goes back, but for the beginning of a packet that it tries
\* again.
WritersGoOn ==
  \A w \in Writers :
    \/ next[w] < next'[w]
    \/ next[w] = next'[w] /\ (w \notin Retries => written[w] <= written'[w])

LEMMA PassedNext ==
  ASSUME TypeOK, TypeOK', WritersGoOn, NEW b \in Bytes, NEW w \in Writers,
         Before(b, NextByte(w))
  PROVE  Before(b, NextByte(w)')
  <1>1. /\ next[w] \in Nat /\ written[w] \in Nat
    BY WriterNumbers
  <1>2. next'[w] \in Nat /\ written'[w] \in Nat
    <2>1. MaxPackets[w] \in Nat
      BY ConstantTypes
    <2>. QED
      BY <2>1 DEF TypeOK
  <1>3. written[w] + 1 \in Nat /\ written'[w] + 1 \in Nat
    BY <1>1, <1>2
  <1>4. Before(b, [p |-> [w |-> w, n |-> next[w]], at |-> written[w] + 1])
    BY DEF NextByte, Current
  <1>5. \/ next[w] < next'[w]
        \/ /\ next[w] = next'[w]
           /\ w \notin Retries => written[w] + 1 <= written'[w] + 1
    BY <1>1, <1>2 DEF WritersGoOn
  <1>6. Before(b, [p |-> [w |-> w, n |-> next'[w]], at |-> written'[w] + 1])
    <2>1. b.at \in Nat /\ b.p.n \in Nat
      BY ByteFields
    <2>. QED
      BY <1>1, <1>2, <1>4, <1>5, <2>1 DEF Before, IsLast
  <1>. QED
    BY <1>6 DEF NextByte, Current

\* The writers go on or stay, and nothing new comes.
LEMMA PartPassed ==
  ASSUME TypeOK, TypeOK', WritersGoOn, NEW d, Part(d), NEW b \in Bytes, Passed(b)
  PROVE  Passed(b)'
  <1>1. \A i \in 1 .. Len(Coming') : Before(b, Coming'[i])
    <2>. SUFFICES ASSUME NEW i \in 1 .. Len(Coming') PROVE Before(b, Coming'[i])
      OBVIOUS
    <2>1. Len(Coming) \in Nat /\ Len(Coming') \in Nat
      BY ComingType, ComingTypeNext
    <2>2. d + i \in 1 .. Len(Coming) /\ Coming'[i] = Coming[d + i]
      BY <2>1 DEF Part
    <2>. QED
      BY <2>2 DEF Passed
  <1>2. \A w \in Writers : Before(b, NextByte(w)')
    BY PassedNext DEF Passed
  <1>. QED
    BY <1>1, <1>2 DEF Passed, Before, IsLast, Length

LEMMA PartOrdered ==
  ASSUME TypeOK, TypeOK', WritersGoOn, NEW d, Part(d), Ordered
  PROVE  Ordered'
  <1>1. Len(Coming) \in Nat /\ Len(Coming') \in Nat
    BY ComingType, ComingTypeNext
  <1>. SUFFICES ASSUME NEW i \in 1 .. Len(Coming')
                PROVE  /\ \A j \in 1 .. Len(Coming') :
                            i < j => Before(Coming'[i], Coming'[j])
                       /\ \A w \in Writers : Before(Coming'[i], NextByte(w)')
    BY DEF Ordered, Before, IsLast, Length
  <1>2. d + i \in 1 .. Len(Coming) /\ Coming'[i] = Coming[d + i]
    BY <1>1 DEF Part
  <1>3. \A j \in 1 .. Len(Coming') : i < j => Before(Coming'[i], Coming'[j])
    <2>. SUFFICES ASSUME NEW j \in 1 .. Len(Coming'), i < j
                  PROVE  Before(Coming'[i], Coming'[j])
      OBVIOUS
    <2>1. d + j \in 1 .. Len(Coming) /\ Coming'[j] = Coming[d + j] /\ d + i < d + j
      BY <1>1 DEF Part
    <2>. QED
      BY <1>2, <2>1 DEF Ordered
  <1>4. \A w \in Writers : Before(Coming'[i], NextByte(w)')
    <2>1. Coming[d + i] \in Bytes
      BY <1>2, ComingType
    <2>. QED
      BY <1>2, <2>1, PassedNext DEF Ordered
  <1>. QED
    BY <1>3, <1>4

LEMMA SendGoesOn ==
  ASSUME TypeOK, NEW w \in Writers, Send(w)
  PROVE  WritersGoOn
  <1>1. PICK k \in Nat \ {0} :
          /\ k <= Length(Current(w)) - written[w]
          /\ next[w] <= MaxPackets[w]
          /\ written' = [written EXCEPT ![w] =
               IF written[w] + k = Length(Current(w)) THEN 0 ELSE written[w] + k]
          /\ next' = [next EXCEPT ![w] =
               IF written[w] + k = Length(Current(w)) THEN next[w] + 1 ELSE next[w]]
    BY SendIs
  <1>. SUFFICES ASSUME NEW v \in Writers
                PROVE  \/ next[v] < next'[v]
                       \/ next[v] = next'[v] /\ written[v] <= written'[v]
    BY DEF WritersGoOn
  <1>2. next[v] \in Nat /\ written[v] \in Nat
    BY WriterNumbers
  <1>3. CASE v = w
    <2>1. /\ next'[w] = IF written[w] + k = Length(Current(w))
                          THEN next[w] + 1 ELSE next[w]
          /\ written'[w] = IF written[w] + k = Length(Current(w))
                             THEN 0 ELSE written[w] + k
      BY <1>1 DEF TypeOK
    <2>. QED
      BY <1>2, <1>3, <2>1
  <1>4. CASE v # w
    BY <1>1, <1>2, <1>4 DEF TypeOK
  <1>. QED
    BY <1>3, <1>4

LEMMA FailGoesOn ==
  ASSUME TypeOK, NEW w \in Writers, WriteFails(w)
  PROVE  WritersGoOn
  <1>. SUFFICES ASSUME NEW v \in Writers
                PROVE  \/ next[v] < next'[v]
                       \/ /\ next[v] = next'[v]
                          /\ v \notin Retries => written[v] <= written'[v]
    BY DEF WritersGoOn
  <1>1. next[v] \in Nat /\ written[v] \in Nat
    BY WriterNumbers
  <1>2. /\ next' = [next EXCEPT ![w] = IF w \in Retries THEN next[w] ELSE next[w] + 1]
        /\ written' = [written EXCEPT ![w] = 0]
    BY DEF WriteFails, GiveUp
  <1>3. CASE v = w
    BY <1>1, <1>2, <1>3 DEF TypeOK
  <1>4. CASE v # w
    BY <1>1, <1>2, <1>4 DEF TypeOK
  <1>. QED
    BY <1>3, <1>4

LEMMA StandingWriters ==
  ASSUME TypeOK, UNCHANGED writing
  PROVE  WritersGoOn
  <1>1. \A w \in Writers : next'[w] = next[w] /\ written'[w] = written[w]
    BY DEF writing
  <1>2. \A w \in Writers : written[w] \in Nat
    BY WriterNumbers
  <1>. QED
    BY <1>1, <1>2 DEF WritersGoOn

LEMMA SendKeeps ==
  ASSUME TypeOK, TypeOK', NEW w \in Writers, Send(w), Ordered
  PROVE  /\ Ordered'
         /\ \A b \in Bytes : Passed(b) => Passed(b)'
  <1>1. PICK k \in Nat \ {0} :
          /\ k <= Length(Current(w)) - written[w]
          /\ next[w] <= MaxPackets[w]
          /\ stream' = stream \o Piece(w, k)
          /\ written' = [written EXCEPT ![w] =
               IF written[w] + k = Length(Current(w)) THEN 0 ELSE written[w] + k]
          /\ next' = [next EXCEPT ![w] =
               IF written[w] + k = Length(Current(w)) THEN next[w] + 1 ELSE next[w]]
    BY SendIs
  <1>2. got' = got
    BY DEF Send, reading
  <1>3. /\ Len(Coming') = Len(Coming) + k
        /\ \A i \in 1 .. Len(Coming) : Coming'[i] = Coming[i]
        /\ \A i \in 1 .. Len(Coming) + k : i > Len(Coming) =>
             Coming'[i] = [p |-> Current(w), at |-> written[w] + (i - Len(Coming))]
    BY <1>1, <1>2, SendGrows
  <1>4. /\ WritersGoOn /\ Len(Coming) \in Nat
        /\ written[w] \in Nat /\ next[w] \in Nat
        /\ Current(w) \in Packets /\ Length(Current(w)) \in Nat
    BY <1>1, SendGoesOn, ComingType, WriterNumbers, CurrentIsPacket, ConstantTypes
  <1>5. Current(w).w = w /\ Current(w).n = next[w]
    BY DEF Current
  <1>6. ASSUME NEW b \in Bytes, Before(b, NextByte(w)), NEW m \in Nat \ {0}
        PROVE  Before(b, [p |-> Current(w), at |-> written[w] + m])
    <2>1. b.at \in Nat
      BY ByteFields
    <2>. QED
      BY <1>4, <1>6, <2>1 DEF Before, IsLast, NextByte
  <1>7. ASSUME NEW b \in Bytes, Passed(b) PROVE Passed(b)'
    <2>1. \A i \in 1 .. Len(Coming') : Before(b, Coming'[i])
      <3>. SUFFICES ASSUME NEW i \in 1 .. Len(Coming') PROVE Before(b, Coming'[i])
        OBVIOUS
      <3>1. CASE i <= Len(Coming)
        <4>1. i \in 1 .. Len(Coming)
          BY <1>4, <3>1
        <4>. QED
          BY <1>3, <1>7, <4>1 DEF Passed
      <3>2. CASE i > Len(Coming)
        <4>1. i - Len(Coming) \in Nat \ {0} /\ i \in 1 .. Len(Coming) + k
          BY <1>3, <1>4, <3>2
        <4>2. Before(b, NextByte(w))
          BY <1>7 DEF Passed
        <4>3. Before(b, [p |-> Current(w), at |-> written[w] + (i - Len(Coming))])
          BY <1>6, <4>1, <4>2
        <4>. QED
          BY <1>3, <3>2, <4>1, <4>3
      <3>. QED
        BY <1>3, <1>4, <3>1, <3>2
    <2>2. \A v \in Writers : Before(b, NextByte(v)')
      BY <1>4, <1>7, PassedNext DEF Passed
    <2>. QED
      BY <2>1, <2>2 DEF Passed, Before, IsLast, Length
  <1>8. Ordered'
    <2>. SUFFICES ASSUME NEW i \in 1 .. Len(Coming')
                  PROVE  /\ \A j \in 1 .. Len(Coming') :
                              i < j => Before(Coming'[i], Coming'[j])
                         /\ \A v \in Writers : Before(Coming'[i], NextByte(v)')
      BY DEF Ordered, Before, IsLast, Length
    <2>1. CASE i <= Len(Coming)
      <3>1. i \in 1 .. Len(Coming) /\ Coming'[i] = Coming[i] /\ Coming[i] \in Bytes
        BY <1>3, <1>4, <2>1, ComingType
      <3>2. ASSUME NEW j \in 1 .. Len(Coming'), i < j
            PROVE  Before(Coming[i], Coming'[j])
        <4>1. CASE j <= Len(Coming)
          <5>1. j \in 1 .. Len(Coming)
            BY <1>4, <4>1
          <5>. QED
            BY <1>3, <3>1, <3>2, <5>1 DEF Ordered
        <4>2. CASE j > Len(Coming)
          <5>1. j - Len(Coming) \in Nat \ {0} /\ j \in 1 .. Len(Coming) + k
            BY <1>3, <1>4, <4>2
          <5>2. Before(Coming[i], NextByte(w))
            BY <3>1 DEF Ordered
          <5>3. Before(Coming[i], [p |-> Current(w), at |-> written[w] + (j - Len(Coming))])
            BY <1>6, <3>1, <5>1, <5>2
          <5>. QED
            BY <1>3, <4>2, <5>1, <5>3
        <4>. QED
          BY <1>3, <1>4, <4>1, <4>2
      <3>3. \A v \in Writers : Before(Coming[i], NextByte(v)')
        BY <1>4, <3>1, PassedNext DEF Ordered
      <3>. QED
        BY <3>1, <3>2, <3>3
    <2>2. CASE i > Len(Coming)
      <3>. DEFINE x == i - Len(Coming)
      <3>1. /\ x \in 1 .. k /\ i \in 1 .. Len(Coming) + k
            /\ Coming'[i] = [p |-> Current(w), at |-> written[w] + x]
        BY <1>3, <1>4, <2>2
      <3>. HIDE DEF x
      <3>2. ASSUME NEW j \in 1 .. Len(Coming'), i < j
            PROVE  Before(Coming'[i], Coming'[j])
        <4>. DEFINE y == j - Len(Coming)
        <4>1. /\ y \in 1 .. k /\ x < y /\ j > Len(Coming) /\ j \in 1 .. Len(Coming) + k
          BY <1>3, <1>4, <2>2, <3>2 DEF x
        <4>2. Coming'[j] = [p |-> Current(w), at |-> written[w] + y]
          BY <1>3, <4>1
        <4>. HIDE DEF y
        <4>3. /\ written[w] + x < written[w] + y
              /\ written[w] + x # Length(Current(w))
          BY <1>1, <1>4, <3>1, <4>1
        <4>4. Coming'[i].p = Current(w) /\ Coming'[i].at = written[w] + x
          BY <3>1
        <4>5. Coming'[j].p = Current(w) /\ Coming'[j].at = written[w] + y
          BY <4>2
        <4>. QED
          BY <1>4, <1>5, <4>3, <4>4, <4>5 DEF Before, IsLast
      <3>3. ASSUME NEW v \in Writers
            PROVE  Before(Coming'[i], NextByte(v)')
        <4>1. CASE v # w
          BY <1>5, <3>1, <4>1 DEF Before, NextByte, Current
        <4>2. CASE v = w
          <5>1. /\ next'[w] = IF written[w] + k = Length(Current(w))
                                THEN next[w] + 1 ELSE next[w]
                /\ written'[w] = IF written[w] + k = Length(Current(w))
                                   THEN 0 ELSE written[w] + k
            BY <1>1 DEF TypeOK
          <5>2. /\ NextByte(w)'.p.w = w /\ NextByte(w)'.p.n = next'[w]
                /\ NextByte(w)'.at = written'[w] + 1
            BY DEF NextByte, Current
          <5>3. /\ Coming'[i].p = Current(w) /\ Coming'[i].at = written[w] + x
            BY <3>1
          <5>4. \/ next[w] < next'[w]
                \/ /\ next'[w] = next[w]
                   /\ written[w] + x < written'[w] + 1
                   /\ written[w] + x # Length(Current(w))
            BY <1>1, <1>4, <3>1, <5>1
          <5>5. next[w] <= next'[w]
            BY <1>4, <5>1
          <5>6. ASSUME next[w] = next'[w]
                PROVE  /\ written[w] + x < written'[w] + 1
                       /\ written[w] + x # Length(Current(w))
            BY <1>4, <5>4, <5>6
          <5>. QED
            BY <1>5, <4>2, <5>2, <5>3, <5>5, <5>6 DEF Before, IsLast
        <4>. QED
          BY <4>1, <4>2
      <3>. QED
        BY <3>2, <3>3
    <2>. QED
      BY <1>3, <1>4, <2>1, <2>2
  <1>. QED
    BY <1>7, <1>8

\* Every step but send() leaves a part of what came, and every step keeps
\* what has passed.
LEMMA StepKeeps ==
  ASSUME TypeOK, [Next]_vars, Ordered
  PROVE  /\ Ordered'
         /\ \A b \in Bytes : Passed(b) => Passed(b)'
  <1>1. TypeOK'
    BY StepType
  <1>2. CASE \E w \in Writers : Send(w)
    BY <1>1, <1>2, SendKeeps
  <1>3. CASE WritersGoOn /\ \E d : Part(d)
    BY <1>1, <1>3, PartPassed, PartOrdered
  <1>4. CASE \E w \in Writers : WriteFails(w)
    <2>1. WritersGoOn
      BY <1>4, FailGoesOn
    <2>2. Coming' = Coming
      BY <1>4 DEF WriteFails, reading, Coming
    <2>3. Part(0)
      BY <2>2, ComingType DEF Part
    <2>. QED
      BY <1>3, <2>1, <2>3
  <1>5. CASE Close
    <2>1. Part(0)
      BY <1>1, <1>5, ClosePart
    <2>2. WritersGoOn
      BY <1>5, StandingWriters DEF Close
    <2>. QED
      BY <1>3, <2>1, <2>2
  <1>6. CASE Receive
    <2>1. Part(0)
      BY <1>1, <1>6, ReceivePart
    <2>2. WritersGoOn
      BY <1>6, StandingWriters DEF Receive
    <2>. QED
      BY <1>3, <2>1, <2>2
  <1>7. CASE Header \/ Body \/ Turns
    <2>1. UNCHANGED writing /\ stream' = stream
      BY <1>7, TurnsAre DEF Header, Body, writing
    <2>2. \E what : LookFor(what)
      <3>1. Header => \E what : LookFor(what)
        BY DEF Header, Accept
      <3>2. Body => \E what : LookFor(what)
        BY DEF Body, Accept
      <3>. QED
        BY <1>7, <3>1, <3>2, TurnsAre
    <2>3. Part(Len(got))
      BY <1>1, <2>1, <2>2, LookForPart
    <2>4. WritersGoOn
      BY <2>1, StandingWriters
    <2>. QED
      BY <1>3, <2>3, <2>4
  <1>8. CASE UNCHANGED vars
    <2>1. Coming' = Coming /\ UNCHANGED writing
      BY <1>8 DEF vars, reading, Coming
    <2>2. Part(0) /\ WritersGoOn
      BY <2>1, ComingType, StandingWriters DEF Part
    <2>. QED
      BY <1>3, <2>2
  <1>. QED
    BY <1>2, <1>4, <1>5, <1>6, <1>7, <1>8, Steps

-----------------------------------------------------------------------------
(* A packet that is taken.                                                 *)

LEMMA MarkType ==
  ASSUME NEW q \in Packets
  PROVE  Mark(q) \in Bytes /\ HeaderEnd(q) \in Bytes
  BY ConstantTypes DEF Mark, HeaderEnd, Bytes

LEMMA AcceptedType ==
  ASSUME TypeOK, NEW a \in DOMAIN accepted
  PROVE  accepted[a].p \in Packets /\ accepted[a].whole \in BOOLEAN
  <1>. DEFINE Taken == [p : Packets, whole : BOOLEAN]
  <1>1. accepted \in Seq(Taken)
    BY DEF TypeOK
  <1>. HIDE DEF Taken
  <1>2. accepted[a] \in Taken
    BY <1>1
  <1>. QED
    BY <1>2 DEF Taken

\* The last byte the reader has got has passed when it is given up.
LEMMA GotPasses ==
  ASSUME TypeOK, TypeOK', Ordered, NEW what, LookFor(what), stream' = stream,
         UNCHANGED writing, Len(got) # 0, NEW b, b = got[Len(got)]
  PROVE  Passed(b)'
  <1>. DEFINE last == Len(got)
  <1>1. /\ last \in 1 .. Len(Coming) /\ Coming[last] = b /\ last \in Nat
        /\ Len(Coming) \in Nat /\ Len(Coming') \in Nat
    BY ComingType, ComingTypeNext
  <1>2. Part(last)
    BY LookForPart
  <1>. HIDE DEF last
  <1>3. \A i \in 1 .. Len(Coming') : Before(b, Coming'[i])
    <2>. SUFFICES ASSUME NEW i \in 1 .. Len(Coming') PROVE Before(b, Coming'[i])
      OBVIOUS
    <2>1. last + i \in 1 .. Len(Coming) /\ last < last + i
      BY <1>1, <1>2 DEF Part
    <2>2. Before(Coming[last], Coming[last + i])
      BY <1>1, <2>1 DEF Ordered
    <2>. QED
      BY <1>1, <1>2, <2>2 DEF Part
  <1>4. \A w \in Writers : Before(b, NextByte(w)')
    <2>1. \A w \in Writers : Before(b, NextByte(w))
      BY <1>1 DEF Ordered
    <2>2. \A w \in Writers : NextByte(w)' = NextByte(w)
      BY DEF writing, NextByte, Current
    <2>. QED
      BY <2>1, <2>2
  <1>. QED
    BY <1>3, <1>4 DEF Passed, Before, IsLast, Length

\* What was taken has still passed after a step.
LEMMA TakenStays ==
  ASSUME OrderInv, [Next]_vars, NEW a \in DOMAIN accepted,
         NEW q, q = accepted[a].p
  PROVE  Passed(Mark(q))'
  <1>1. q \in Packets
    BY AcceptedType DEF OrderInv
  <1>2. Mark(q) \in Bytes
    BY <1>1, MarkType
  <1>3. Passed(Mark(q))
    BY DEF OrderInv, Left
  <1>. DEFINE m == Mark(q)
  <1>4. m \in Bytes /\ Passed(m)
    BY <1>2, <1>3
  <1>5. TypeOK /\ Ordered
    BY DEF OrderInv
  <1>. HIDE DEF m
  <1>6. Passed(m)'
    BY <1>4, <1>5, StepKeeps
  <1>. QED
    BY <1>6 DEF m

\* To prove that everything that was taken has passed.
LEMMA LeftNext ==
  ASSUME \A a \in DOMAIN accepted' :
           \A q : q = accepted'[a].p => Passed(Mark(q))'
  PROVE  Left'
  <1>. SUFFICES ASSUME NEW a \in DOMAIN accepted'
                PROVE  Passed(Mark(accepted[a].p))'
    BY DEF Left
  <1>. QED
    BY DEF Passed, Mark, Length

LEMMA NothingTaken ==
  ASSUME OrderInv, [Next]_vars, accepted' = accepted,
         phase' # "payload" \/ (phase = "payload" /\ head' = head)
  PROVE  OrderInv'
  <1>1. TypeOK' /\ Ordered'
    BY StepType, StepKeeps DEF OrderInv
  <1>2. Left'
    BY TakenStays, LeftNext
  <1>3. TakenOnce'
    BY DEF OrderInv, TakenOnce
  <1>4. AtPayload'
    <2>. SUFFICES ASSUME phase = "payload", head' = head
                  PROVE  /\ Payload[head] # 0
                         /\ Passed(HeaderEnd(head))'
                         /\ \A a \in DOMAIN accepted :
                              accepted[a].p.w = head.w => accepted[a].p.n < head.n
      BY DEF AtPayload
    <2>1. PICK h \in Packets : h = head
      BY DEF OrderInv, TypeOK
    <2>. DEFINE m == HeaderEnd(h)
    <2>2. m \in Bytes /\ Passed(m) /\ TypeOK /\ Ordered
      BY <2>1, MarkType DEF OrderInv, AtPayload
    <2>. HIDE DEF m
    <2>3. Passed(m)'
      BY <2>2, StepKeeps
    <2>4. Passed(HeaderEnd(head))'
      BY <2>1, <2>3 DEF Passed, HeaderEnd, m
    <2>. QED
      BY <2>4 DEF OrderInv, AtPayload
  <1>. QED
    BY <1>1, <1>2, <1>3, <1>4 DEF OrderInv

LEMMA Taking ==
  ASSUME OrderInv, [Next]_vars, NEW q \in Packets, NEW whole \in BOOLEAN,
         Accept(q, whole), q.w \notin Unchecked => whole, Passed(Mark(q))',
         \A a \in DOMAIN accepted : accepted[a].p.w = q.w => accepted[a].p.n < q.n
  PROVE  OrderInv'
  <1>. DEFINE n == Len(accepted)
              new == [p |-> q, whole |-> whole]
              Taken == [p : Packets, whole : BOOLEAN]
  <1>1. TypeOK' /\ Ordered'
    BY StepType, StepKeeps DEF OrderInv
  <1>2. /\ accepted' = Append(accepted, new) /\ phase' = "idle"
    BY DEF Accept, LookFor
  <1>3. accepted \in Seq(Taken) /\ new \in Taken
    BY DEF OrderInv, TypeOK
  <1>4. new.p = q /\ new.whole = whole
    OBVIOUS
  <1>. HIDE DEF Taken, new
  <1>5. /\ n \in Nat /\ DOMAIN accepted = 1 .. n /\ DOMAIN accepted' = 1 .. n + 1
        /\ \A a \in 1 .. n : accepted'[a] = accepted[a]
        /\ accepted'[n + 1] = new
    BY <1>2, <1>3
  <1>. HIDE DEF n
  <1>6. Left'
    <2>. SUFFICES ASSUME NEW a \in DOMAIN accepted', NEW r, r = accepted'[a].p
                  PROVE  Passed(Mark(r))'
      BY LeftNext
    <2>1. CASE a \in 1 .. n
      BY <1>5, <2>1, TakenStays
    <2>2. CASE a = n + 1
      <3>1. r = q
        BY <1>4, <1>5, <2>2
      <3>. QED
        BY <3>1
    <2>. QED
      BY <1>5, <2>1, <2>2
  <1>7. TakenOnce'
    <2>. SUFFICES ASSUME NEW i \in 1 .. n + 1
                  PROVE  /\ accepted'[i].p.w \notin Unchecked => accepted'[i].whole
                         /\ \A j \in 1 .. i - 1 :
                              accepted'[j].p.w = accepted'[i].p.w
                                => accepted'[j].p.n < accepted'[i].p.n
      BY <1>5 DEF TakenOnce
    <2>1. CASE i \in 1 .. n
      <3>1. \A j \in 1 .. i - 1 : j \in 1 .. n
        BY <1>5, <2>1
      <3>. QED
        BY <1>5, <2>1, <3>1 DEF OrderInv, TakenOnce
    <2>2. CASE i = n + 1
      <3>1. \A j \in 1 .. i - 1 : j \in 1 .. n
        BY <1>5, <2>2
      <3>. QED
        BY <1>4, <1>5, <2>2, <3>1
    <2>. QED
      BY <1>5, <2>1, <2>2
  <1>8. AtPayload'
    BY <1>2 DEF AtPayload
  <1>. QED
    BY <1>1, <1>6, <1>7, <1>8 DEF OrderInv

\* A header that is read is that of a packet behind all those of its writer
\* that were taken.
LEMMA HeaderFacts ==
  ASSUME OrderInv, Header, NEW q, q = got[1].p
  PROVE  /\ q \in Packets
         /\ Passed(HeaderEnd(q))'
         /\ \A a \in DOMAIN accepted : accepted[a].p.w = q.w => accepted[a].p.n < q.n
  <1>1. /\ TypeOK /\ Ordered /\ Left
        /\ Complete /\ phase = "header" /\ Are(got[1].p, SyncLength)
        /\ UNCHANGED writing /\ stream' = stream
    BY DEF OrderInv, Header, HeaderIsGood, writing
  <1>2. /\ DOMAIN got = 1 .. HeaderLength - SyncLength
        /\ 1 \in DOMAIN got /\ got[1].p \in Packets
    BY <1>1, HeaderIsRead
  <1>3. TypeOK'
    BY <1>1, HeaderType
  <1>4. Len(got) = HeaderLength - SyncLength /\ Len(got) # 0
    BY <1>1, ConstantTypes DEF Complete, Wanted
  <1>5. got[Len(got)] = HeaderEnd(q)
    <2>1. HeaderLength - SyncLength \in DOMAIN got
      BY <1>2, ConstantTypes
    <2>2. got[HeaderLength - SyncLength]
            = [p |-> q, at |-> SyncLength + (HeaderLength - SyncLength)]
      BY <1>1, <2>1 DEF Are
    <2>3. SyncLength + (HeaderLength - SyncLength) = HeaderLength
      BY ConstantTypes
    <2>. QED
      BY <1>4, <2>2, <2>3 DEF HeaderEnd
  <1>6. \E what : LookFor(what)
    BY DEF Header, Accept
  <1>7. Passed(HeaderEnd(q))'
    <2>. DEFINE m == HeaderEnd(q)
    <2>1. m = got[Len(got)]
      BY <1>5
    <2>. HIDE DEF m
    <2>2. Passed(m)'
      BY <1>1, <1>3, <1>4, <1>6, <2>1, GotPasses
    <2>. QED
      BY <2>2 DEF m
  <1>8. ASSUME NEW a \in DOMAIN accepted, accepted[a].p.w = q.w
        PROVE  accepted[a].p.n < q.n
    <2>. DEFINE r == accepted[a].p
    <2>1. r \in Packets /\ r.n \in Nat /\ q.n \in Nat /\ Length(r) \in Nat
      BY <1>1, <1>2, AcceptedType, PacketFields, ConstantTypes
    <2>2. got[1] = [p |-> q, at |-> SyncLength + 1]
      BY <1>1, <1>2 DEF Are
    <2>3. 1 \in 1 .. Len(Coming) /\ Coming[1] = got[1]
      BY <1>1, <1>2, <1>4, ComingType
    <2>4. Before(Mark(r), [p |-> q, at |-> SyncLength + 1])
      BY <1>1, <2>2, <2>3 DEF Left, Passed
    <2>5. ~(HeaderLength < SyncLength + 1)
      BY ConstantTypes
    <2>6. r.n <= q.n /\ r.n # q.n
      BY <1>8, <2>4, <2>5 DEF Before, Mark, IsLast
    <2>. QED
      BY <2>1, <2>6
  <1>. QED
    BY <1>2, <1>7, <1>8

LEMMA HeaderOrder ==
  ASSUME OrderInv, [Next]_vars, Header
  PROVE  OrderInv'
  <1>1. PICK q : q = got[1].p
    OBVIOUS
  <1>2. /\ q \in Packets /\ Passed(HeaderEnd(q))'
        /\ \A a \in DOMAIN accepted : accepted[a].p.w = q.w => accepted[a].p.n < q.n
    BY <1>1, HeaderFacts
  <1>3. head' = q
    BY <1>1 DEF Header
  <1>4. CASE Payload[q] = 0
    <2>1. Accept(q, TRUE)
      BY <1>3, <1>4 DEF Header, Accept, LookFor
    <2>2. HeaderEnd(q) = Mark(q)
      <3>1. Length(q) = HeaderLength
        BY <1>4, ConstantTypes DEF Length
      <3>. QED
        BY <3>1 DEF HeaderEnd, Mark
    <2>3. Passed(Mark(q))'
      BY <1>2, <2>2 DEF Passed, HeaderEnd, Mark, Length
    <2>. QED
      BY <1>2, <2>1, <2>3, Taking
  <1>5. CASE Payload[q] # 0
    <2>1. phase' = "payload" /\ accepted' = accepted
      BY <1>3, <1>5 DEF Header, LookFor
    <2>2. TypeOK' /\ Ordered'
      BY StepType, StepKeeps DEF OrderInv
    <2>3. Left'
      BY <2>1, TakenStays, LeftNext
    <2>4. TakenOnce'
      BY <2>1 DEF OrderInv, TakenOnce
    <2>5. Passed(HeaderEnd(head))'
      BY <1>2, <1>3 DEF Passed, HeaderEnd
    <2>6. AtPayload'
      BY <1>2, <1>3, <1>5, <2>1, <2>5 DEF AtPayload
    <2>. QED
      BY <2>2, <2>3, <2>4, <2>6 DEF OrderInv
  <1>. QED
    BY <1>4, <1>5

\* A packet that is tried again has a checksum: when it is taken, its last
\* byte is behind the reader, so that it was sent whole.
LEMMA BodyOrder ==
  ASSUME OrderInv, [Next]_vars, Body
  PROVE  OrderInv'
  <1>1. PICK q \in Packets : q = head
    BY DEF OrderInv, TypeOK
  <1>2. /\ TypeOK /\ Ordered /\ AtPayload
        /\ Complete /\ phase = "payload"
        /\ q.w \in Unchecked \/ Are(q, HeaderLength)
        /\ UNCHANGED writing /\ stream' = stream
    BY <1>1 DEF OrderInv, Body, PayloadIsGood
  <1>3. /\ Payload[q] # 0 /\ Payload[q] \in Nat /\ HeaderLength \in Nat
        /\ \A a \in DOMAIN accepted : accepted[a].p.w = q.w => accepted[a].p.n < q.n
    BY <1>1, <1>2, ConstantTypes DEF AtPayload
  <1>4. PICK whole \in BOOLEAN : whole = Are(q, HeaderLength)
    BY DEF Are
  <1>5. Accept(q, whole)
    BY <1>1, <1>4 DEF Body, Accept, LookFor
  <1>6. Passed(Mark(q))'
    <2>1. CASE q.w \in Retries
      <3>1. Are(q, HeaderLength)
        BY <1>2, <2>1, SocketAssumption
      <3>2. Len(got) = Payload[q] /\ Len(got) \in DOMAIN got
        BY <1>1, <1>2, <1>3 DEF Complete, Wanted, TypeOK
      <3>3. got[Len(got)] = [p |-> q, at |-> HeaderLength + Payload[q]]
        BY <3>1, <3>2 DEF Are
      <3>. DEFINE m == Mark(q)
      <3>4. m = got[Len(got)]
        BY <2>1, <3>3 DEF Mark, Length
      <3>5. TypeOK' /\ LookFor("idle") /\ Len(got) # 0
        BY <1>2, <1>3, <1>5, <3>2, BodyType DEF Accept
      <3>. HIDE DEF m
      <3>6. Passed(m)'
        BY <1>2, <3>4, <3>5, GotPasses
      <3>. QED
        BY <3>6 DEF m
    <2>2. CASE q.w \notin Retries
      <3>. DEFINE m == HeaderEnd(q)
      <3>1. m \in Bytes /\ Passed(m)
        BY <1>1, <1>2, MarkType DEF AtPayload
      <3>2. m = Mark(q)
        BY <2>2 DEF Mark, HeaderEnd
      <3>. HIDE DEF m
      <3>3. Passed(m)'
        BY <1>2, <3>1, StepKeeps
      <3>. QED
        BY <3>2, <3>3
    <2>. QED
      BY <2>1, <2>2
  <1>7. q.w \notin Unchecked => whole
    BY <1>2, <1>4
  <1>. QED
    BY <1>3, <1>5, <1>6, <1>7, Taking

LEMMA InitOrder == Init => OrderInv
  <1>. SUFFICES ASSUME Init PROVE OrderInv
    OBVIOUS
  <1>1. TypeOK
    BY InitType
  <1>2. Len(Coming) = 0
    BY <1>1, ComingType DEF Init
  <1>3. Ordered /\ Left /\ AtPayload /\ TakenOnce
    BY <1>2 DEF Init, Ordered, Left, AtPayload, TakenOnce
  <1>. QED
    BY <1>1, <1>3 DEF OrderInv

LEMMA StepOrder == OrderInv /\ [Next]_vars => OrderInv'
  <1>. SUFFICES ASSUME OrderInv, [Next]_vars PROVE OrderInv'
    OBVIOUS
  <1>1. CASE Header
    BY <1>1, HeaderOrder
  <1>2. CASE Body
    BY <1>2, BodyOrder
  <1>3. CASE \E w \in Writers : Send(w) \/ WriteFails(w)
    BY <1>3, NothingTaken DEF Send, WriteFails, reading
  <1>4. CASE Close
    BY <1>4, NothingTaken DEF Close, reading
  <1>5. CASE Receive
    BY <1>5, NothingTaken DEF Receive
  <1>6. CASE Turns
    <2>1. phase' # "payload" /\ accepted' = accepted
      BY <1>6, TurnsAre DEF LookFor
    <2>. QED
      BY <2>1, NothingTaken
  <1>7. CASE UNCHANGED vars
    BY <1>7, NothingTaken DEF vars, reading
  <1>. QED
    BY <1>1, <1>2, <1>3, <1>4, <1>5, <1>6, <1>7, Steps

(* The reader takes no packet twice or behind a later one of its writer,   *)
(* and none with a checksum that is not whole, TakenOnce: however many     *)
(* writers mix their pieces on the connection (msgpacket.c:403-432), give  *)
(* up and, as xvdrclient.c:222-233, try a packet again of which a part was *)
(* sent.  It needs that a packet that is tried again has its checksum.     *)
THEOREM AlwaysTakenOnce == Spec => []TakenOnce
  <1>1. OrderInv => TakenOnce
    BY DEF OrderInv
  <1>. QED
    BY <1>1, InitOrder, StepOrder, PTL DEF Spec

-----------------------------------------------------------------------------
(* NothingLost.  As long as no time limit has passed and no packet was     *)
(* begun inside another one, what comes is one piece of the packets in the *)
(* order they were begun: it begins where the reader is and ends where the *)
(* writer is.                                                              *)

Quiet == ~timedOut /\ ~mixed

\* The bytes of its packet that the reader has already looked at.
Base == CASE phase = "header"  -> SyncLength
          [] phase = "payload" -> HeaderLength
          [] OTHER -> 0

\* No packet is begun twice, and none before its turn.
Unique == \A i, j \in 1 .. Len(begun) : begun[i] = begun[j] => i = j

Older ==
  \A i \in 1 .. Len(begun) :
    /\ begun[i].n <= next[begun[i].w]
    /\ begun[i].n = next[begun[i].w] => written[begun[i].w] # 0

\* Behind a byte come the others of its packet, and then the next packet.
Chain ==
  \A i, j \in 1 .. Len(Coming) : i < j =>
    /\ Coming[i].at + (j - i) <= Length(Coming[i].p) =>
         Coming[j] = [p |-> Coming[i].p, at |-> Coming[i].at + (j - i)]
    /\ Coming[i].at + (j - i) = Length(Coming[i].p) + 1 =>
         /\ Coming[j].at = 1
         /\ \E m \in 1 .. Len(begun) :
              /\ m + 1 \in 1 .. Len(begun)
              /\ begun[m] = Coming[i].p /\ begun[m + 1] = Coming[j].p

\* The reader is at the first packet it has not taken.
Front ==
  /\ conn = "open" /\ phase # "closed"
  /\ Len(Coming) # 0 =>
       /\ Len(accepted) < Len(begun)
       /\ Coming[1] = [p |-> begun[Len(accepted) + 1], at |-> Base + 1]
  /\ Base # 0 => Len(accepted) < Len(begun)
  /\ phase = "payload" => head = begun[Len(accepted) + 1]

\* The last byte is the last one the writer has sent, which is in the packet
\* begun last ...
Back ==
  \A w \in Writers : written[w] # 0 =>
    /\ Len(begun) # 0 /\ begun[Len(begun)] = Current(w)
    /\ \A v \in Writers : v # w => written[v] = 0
    /\ Len(Coming) # 0 =>
         Coming[Len(Coming)] = [p |-> Current(w), at |-> written[w]]
    /\ Len(Coming) = 0 =>
         Base = written[w] /\ Len(begun) = Len(accepted) + 1

\* ... or the last one of that packet, if none is being written.
Rest ==
  (\A w \in Writers : written[w] = 0) =>
    /\ Len(Coming) # 0 =>
         /\ Len(begun) # 0
         /\ Coming[Len(Coming)]
              = [p |-> begun[Len(begun)], at |-> Length(begun[Len(begun)])]
    /\ Len(Coming) = 0 => Base = 0 /\ Len(begun) = Len(accepted)

AllThere ==
  /\ Len(accepted) <= Len(begun)
  /\ \A i \in DOMAIN accepted : accepted[i] = [p |-> begun[i], whole |-> TRUE]
  /\ \A i \in Len(accepted) + 1 .. Len(begun) :
       OnItsWay(begun[i]) \/ (i = Len(accepted) + 1 /\ AtPacket(begun[i]))

Flow == Unique /\ Older /\ Chain /\ Front /\ Back /\ Rest /\ AllThere

FlowInv == OrderInv /\ (Quiet => Flow)

\* The reader is where it was, and nobody writes.
LEMMA StandsStill ==
  ASSUME Flow, Coming' = Coming, UNCHANGED <<begun, next, written, accepted, conn, head>>,
         Base' = Base, phase' # "closed",
         \/ phase' = phase
         \/ phase' # "payload" /\ phase \notin {"header", "payload"}
  PROVE  Flow'
  <1>1. Unique' /\ Older'
    BY DEF Flow, Unique, Older
  <1>2. Chain'
    <2>1. Chain
      BY DEF Flow
    <2>. QED
      BY <2>1 DEF Chain, Length
  <1>3. Front'
    BY DEF Flow, Front
  <1>4. Back' /\ Rest'
    BY DEF Flow, Back, Rest, Current, Length
  <1>5. AllThere'
    BY DEF Flow, AllThere, OnItsWay, AtPacket
  <1>. QED
    BY <1>1, <1>2, <1>3, <1>4, <1>5 DEF Flow

\* recv() moves bytes from the connection to the reader.
LEMMA ReceiveSame ==
  ASSUME TypeOK, TypeOK', Receive
  PROVE  Coming' = Coming
  <1>1. /\ Len(Coming') = Len(Coming)
        /\ \A i \in 1 .. Len(Coming') : Coming'[i] = Coming[0 + i]
    BY ReceivePart DEF Part
  <1>2. Coming \in Seq(Bytes) /\ Len(Coming) \in Nat
    BY ComingType
  <1>3. Coming' \in Seq(Bytes)
    <2>1. got' \in Seq(Bytes) /\ stream' \in Seq(Bytes)
      BY DEF TypeOK
    <2>. QED
      BY <2>1, ComingIs DEF Coming
  <1>4. \A i \in 1 .. Len(Coming') : Coming'[i] = Coming[i]
    BY <1>1, <1>2
  <1>. QED
    BY <1>1, <1>2, <1>3, <1>4, SeqEqual

LEMMA ReceiveFlow == TypeOK /\ TypeOK' /\ Flow /\ Receive => Flow'
  <1>. SUFFICES ASSUME TypeOK, TypeOK', Flow, Receive PROVE Flow'
    OBVIOUS
  <1>1. UNCHANGED <<writing, conn, phase, head, accepted, history>>
    BY DEF Receive
  <1>2. Base' = Base /\ phase # "closed"
    BY <1>1 DEF Base, Flow, Front
  <1>. QED
    BY <1>1, <1>2, ReceiveSame, StandsStill DEF writing, history

LEMMA BeginFlow == TypeOK /\ TypeOK' /\ Flow /\ Begin => Flow'
  <1>. SUFFICES ASSUME TypeOK, TypeOK', Flow, Begin PROVE Flow'
    OBVIOUS
  <1>1. /\ phase = "idle" /\ phase' = "sync" /\ got' = <<>>
        /\ UNCHANGED <<writing, stream, conn, head, accepted, history>>
    BY DEF Begin, LookFor
  <1>2. got = <<>>
    <2>1. Wanted = 0
      BY <1>1 DEF Wanted
    <2>2. got \in Seq(Bytes) /\ Len(got) <= 0
      BY <2>1 DEF TypeOK
    <2>. QED
      BY <2>2
  <1>3. Base' = Base /\ Coming' = Coming
    BY <1>1, <1>2 DEF Base, Coming
  <1>. QED
    BY <1>1, <1>3, StandsStill DEF writing, history

-----------------------------------------------------------------------------
(* A writer sends.  n bytes come before that, and k more after it.         *)

LEMMA BegunType ==
  ASSUME TypeOK
  PROVE  /\ begun \in Seq(Packets) /\ Len(begun) \in Nat
         /\ DOMAIN begun = 1 .. Len(begun)
         /\ \A i \in 1 .. Len(begun) : begun[i] \in Packets
         /\ Len(accepted) \in Nat /\ DOMAIN accepted = 1 .. Len(accepted)
  BY DEF TypeOK

\* What is begun by the step, and where the last byte before it is.
LEMMA SendBegins ==
  ASSUME OrderInv, Flow, NEW w \in Writers, Send(w), Quiet'
  PROVE  /\ \A v \in Writers : v # w => written[v] = 0
         /\ begun' \in Seq(Packets)
         /\ \A i \in 1 .. Len(begun) : begun'[i] = begun[i]
         /\ Len(begun') # 0 /\ begun'[Len(begun')] = Current(w)
         /\ written[w] = 0 =>
              /\ Len(begun') = Len(begun) + 1
              /\ Len(Coming) # 0 =>
                   /\ Len(begun) # 0
                   /\ Coming[Len(Coming)]
                        = [p |-> begun[Len(begun)], at |-> Length(begun[Len(begun)])]
              /\ Len(Coming) = 0 => Base = 0 /\ Len(begun) = Len(accepted)
         /\ written[w] # 0 =>
              /\ begun' = begun
              /\ Len(Coming) # 0 =>
                   Coming[Len(Coming)] = [p |-> Current(w), at |-> written[w]]
              /\ Len(Coming) = 0 =>
                   Base = written[w] /\ Len(begun) = Len(accepted) + 1
  <1>1. \A v \in Writers : v # w => written[v] = 0
    BY DEF Quiet, Send
  <1>2. begun' = IF written[w] = 0 THEN Append(begun, Current(w)) ELSE begun
    <2>1. ~mixed' /\ ~timedOut
      BY DEF Quiet, Send
    <2>. QED
      BY <2>1 DEF Send
  <1>3. Current(w) \in Packets
    BY CurrentIsPacket DEF Send, OrderInv
  <1>4. begun \in Seq(Packets) /\ Len(begun) \in Nat
    BY BegunType DEF OrderInv
  <1>5. CASE written[w] = 0
    <2>1. /\ begun' \in Seq(Packets) /\ Len(begun') = Len(begun) + 1
          /\ \A i \in 1 .. Len(begun) : begun'[i] = begun[i]
          /\ begun'[Len(begun) + 1] = Current(w)
      BY <1>2, <1>3, <1>4, <1>5
    <2>2. \A v \in Writers : written[v] = 0
      BY <1>1, <1>5
    <2>. QED
      BY <1>1, <1>4, <1>5, <2>1, <2>2 DEF Flow, Rest
  <1>6. CASE written[w] # 0
    <2>1. begun' = begun
      BY <1>2, <1>6
    <2>. QED
      BY <1>1, <1>4, <1>6, <2>1 DEF Flow, Back
  <1>. QED
    BY <1>5, <1>6

LEMMA SendChain ==
  ASSUME OrderInv, TypeOK', Flow, NEW w \in Writers, Send(w), Quiet'
  PROVE  Chain'
  <1>1. PICK k \in Nat \ {0} :
          /\ k <= Length(Current(w)) - written[w]
          /\ next[w] <= MaxPackets[w]
          /\ stream' = stream \o Piece(w, k)
    BY SendIs DEF OrderInv
  <1>. DEFINE n == Len(Coming)
              q == Current(w)
              t == written[w]
  <1>2. got' = got /\ TypeOK
    BY DEF Send, reading, OrderInv
  <1>3. /\ Len(Coming') = n + k
        /\ \A i \in 1 .. n : Coming'[i] = Coming[i]
        /\ \A i \in 1 .. n + k : i > n =>
             Coming'[i] = [p |-> q, at |-> t + (i - n)]
    BY <1>1, <1>2, SendGrows
  <1>4. /\ n \in Nat /\ t \in Nat /\ q \in Packets /\ Length(q) \in Nat
        /\ Len(begun) \in Nat
        /\ \A i \in 1 .. n : /\ Coming[i].at \in Nat /\ Coming[i].p \in Packets
                             /\ Length(Coming[i].p) \in Nat
    BY <1>1, <1>2, ComingType, WriterNumbers, CurrentIsPacket, ConstantTypes,
       ByteFields, BegunType
  <1>5. /\ \A i \in 1 .. Len(begun) : begun'[i] = begun[i]
        /\ Len(begun') # 0 /\ begun'[Len(begun')] = q
        /\ t = 0 =>
              /\ Len(begun') = Len(begun) + 1
              /\ n # 0 =>
                   /\ Len(begun) # 0
                   /\ Coming[n] = [p |-> begun[Len(begun)],
                                   at |-> Length(begun[Len(begun)])]
        /\ t # 0 =>
              /\ begun' = begun
              /\ n # 0 => Coming[n] = [p |-> q, at |-> t]
    BY SendBegins
  <1>6. \A i \in 1 .. n, j \in 1 .. n : i < j =>
          /\ Coming[i].at + (j - i) <= Length(Coming[i].p) =>
               Coming[j] = [p |-> Coming[i].p, at |-> Coming[i].at + (j - i)]
          /\ Coming[i].at + (j - i) = Length(Coming[i].p) + 1 =>
               /\ Coming[j].at = 1
               /\ \E m \in 1 .. Len(begun) :
                    /\ m + 1 \in 1 .. Len(begun)
                    /\ begun[m] = Coming[i].p /\ begun[m + 1] = Coming[j].p
    BY DEF Flow, Chain
  <1>. HIDE DEF n, q, t
  \* An old byte whose packet reaches the last old one.
  <1>7. ASSUME NEW i \in 1 .. n, Coming[i].at + (n - i) <= Length(Coming[i].p)
        PROVE  /\ n # 0
               /\ Coming[n].p = Coming[i].p /\ Coming[n].at = Coming[i].at + (n - i)
    <2>1. CASE i = n
      BY <1>4, <2>1
    <2>2. CASE i < n
      <3>1. n \in 1 .. n
        BY <1>4
      <3>2. Coming[n] = [p |-> Coming[i].p, at |-> Coming[i].at + (n - i)]
        BY <1>6, <1>7, <2>2, <3>1
      <3>. QED
        BY <1>4, <3>2
    <2>. QED
      BY <1>4, <2>1, <2>2
  <1>. SUFFICES ASSUME NEW i \in 1 .. n + k, NEW j \in 1 .. n + k, i < j
                PROVE  /\ Coming'[i].at + (j - i) <= Length(Coming'[i].p) =>
                            Coming'[j] = [p |-> Coming'[i].p,
                                          at |-> Coming'[i].at + (j - i)]
                       /\ Coming'[i].at + (j - i) = Length(Coming'[i].p) + 1 =>
                            /\ Coming'[j].at = 1
                            /\ \E m \in 1 .. Len(begun') :
                                 /\ m + 1 \in 1 .. Len(begun')
                                 /\ begun'[m] = Coming'[i].p
                                 /\ begun'[m + 1] = Coming'[j].p
    BY <1>3 DEF Chain, Length
  <1>8. CASE j <= n
    <2>1. /\ i \in 1 .. n /\ j \in 1 .. n
          /\ Coming'[i] = Coming[i] /\ Coming'[j] = Coming[j]
      BY <1>3, <1>4, <1>8
    <2>2. Len(begun') \in Nat /\ Len(begun) <= Len(begun')
      BY <1>4, <1>5
    <2>3. ASSUME Coming[i].at + (j - i) = Length(Coming[i].p) + 1
          PROVE  /\ Coming[j].at = 1
                 /\ \E m \in 1 .. Len(begun') :
                      /\ m + 1 \in 1 .. Len(begun')
                      /\ begun'[m] = Coming[i].p /\ begun'[m + 1] = Coming[j].p
      <3>1. Coming[j].at = 1
        BY <1>6, <2>1, <2>3
      <3>2. PICK m \in 1 .. Len(begun) :
              /\ m + 1 \in 1 .. Len(begun)
              /\ begun[m] = Coming[i].p /\ begun[m + 1] = Coming[j].p
        BY <1>6, <2>1, <2>3
      <3>3. begun'[m] = Coming[i].p /\ begun'[m + 1] = Coming[j].p
        BY <1>5, <3>2
      <3>4. m \in 1 .. Len(begun') /\ m + 1 \in 1 .. Len(begun')
        BY <1>4, <2>2, <3>2
      <3>. QED
        BY <3>1, <3>3, <3>4
    <2>4. Coming[i].at + (j - i) <= Length(Coming[i].p) =>
            Coming[j] = [p |-> Coming[i].p, at |-> Coming[i].at + (j - i)]
      BY <1>6, <2>1
    <2>. QED
      BY <2>1, <2>3, <2>4
  <1>9. CASE i <= n /\ j > n
    <2>1. /\ i \in 1 .. n /\ j - n \in 1 .. k
          /\ Coming'[i] = Coming[i]
          /\ Coming'[j].p = q /\ Coming'[j].at = t + (j - n)
      BY <1>3, <1>4, <1>9
    <2>2. ASSUME Coming[i].at + (j - i) <= Length(Coming[i].p)
          PROVE  Coming'[j] = [p |-> Coming[i].p, at |-> Coming[i].at + (j - i)]
      <3>1. /\ Coming[i].at + (n - i) <= Length(Coming[i].p)
            /\ Coming[i].at + (n - i) # Length(Coming[i].p)
        BY <1>4, <1>9, <2>1, <2>2
      <3>2. /\ n # 0 /\ Coming[n].p = Coming[i].p
            /\ Coming[n].at = Coming[i].at + (n - i)
        BY <1>7, <2>1, <3>1
      <3>3. t # 0
        BY <1>5, <3>1, <3>2
      <3>4. q = Coming[i].p /\ t = Coming[i].at + (n - i)
        BY <1>5, <3>2, <3>3
      <3>5. t + (j - n) = Coming[i].at + (j - i)
        <4>. DEFINE a == Coming[i].at
        <4>1. a \in Nat /\ t = a + (n - i)
          BY <1>4, <2>1, <3>4
        <4>. HIDE DEF a
        <4>2. t + (j - n) = a + (j - i)
          BY <1>4, <4>1
        <4>. QED
          BY <4>2 DEF a
      <3>6. Coming'[j] = [p |-> q, at |-> t + (j - n)]
        BY <1>3, <1>9
      <3>. QED
        BY <3>4, <3>5, <3>6
    <2>3. ASSUME Coming[i].at + (j - i) = Length(Coming[i].p) + 1
          PROVE  /\ Coming'[j].at = 1
                 /\ \E m \in 1 .. Len(begun') :
                      /\ m + 1 \in 1 .. Len(begun')
                      /\ begun'[m] = Coming[i].p
                      /\ begun'[m + 1] = Coming'[j].p
      <3>1. Coming[i].at + (n - i) <= Length(Coming[i].p)
        BY <1>4, <1>9, <2>1, <2>3
      <3>2. /\ n # 0 /\ Coming[n].p = Coming[i].p
            /\ Coming[n].at = Coming[i].at + (n - i)
        BY <1>7, <2>1, <3>1
      <3>3. t = 0
        <4>. SUFFICES ASSUME t # 0 PROVE FALSE
          OBVIOUS
        <4>1. q = Coming[i].p /\ t = Coming[i].at + (n - i)
          BY <1>5, <3>2
        <4>2. t + (j - n) = Length(q) + 1
          <5>1. Coming[i].at \in Nat /\ Length(Coming[i].p) \in Nat
            BY <1>4, <2>1
          <5>2. /\ Length(q) = Length(Coming[i].p)
                /\ t = Coming[i].at + (n - i)
                /\ Coming[i].at + (j - i) = Length(Coming[i].p) + 1
            BY <2>3, <4>1
          <5>3. i \in Nat /\ j \in Nat /\ n \in Nat
            BY <1>4, <2>1
          <5>. QED
            BY ONLY <5>1, <5>2, <5>3
        <4>3. k <= Length(q) - t
          BY <1>1 DEF q, t
        <4>. QED
          BY <1>4, <2>1, <4>2, <4>3
      <3>4. /\ Len(begun') = Len(begun) + 1 /\ Len(begun) # 0
            /\ begun[Len(begun)] = Coming[i].p
            /\ Coming[i].at + (n - i) = Length(Coming[i].p)
        BY <1>5, <3>2, <3>3
      <3>5. j - n = 1
        <4>. DEFINE a == Coming[i].at
                    l == Length(Coming[i].p)
        <4>1. /\ a \in Nat /\ l \in Nat
              /\ a + (n - i) = l /\ a + (j - i) = l + 1
          BY <1>4, <2>1, <2>3, <3>4
        <4>. HIDE DEF a, l
        <4>. QED
          BY <1>4, <4>1
      <3>6. begun'[Len(begun)] = Coming[i].p /\ begun'[Len(begun) + 1] = q
        <4>1. Len(begun) \in 1 .. Len(begun)
          BY <1>4, <3>4
        <4>2. begun'[Len(begun)] = begun[Len(begun)]
          BY <1>5, <4>1
        <4>. QED
          BY <1>5, <3>4, <4>2
      <3>7. Len(begun) \in 1 .. Len(begun') /\ Len(begun) + 1 \in 1 .. Len(begun')
        BY <1>4, <3>4
      <3>. QED
        BY <2>1, <3>3, <3>5, <3>6, <3>7
    <2>. QED
      BY <2>1, <2>2, <2>3
  <1>10. CASE i > n
    <2>1. /\ Coming'[i].p = q /\ Coming'[i].at = t + (i - n)
          /\ Coming'[j] = [p |-> q, at |-> t + (j - n)]
      BY <1>3, <1>4, <1>10
    <2>2. /\ Coming'[i].at + (j - i) = t + (j - n)
          /\ t + (j - n) <= t + k
      BY <1>4, <1>10, <2>1
    <2>3. k <= Length(q) - t
      BY <1>1 DEF q, t
    <2>4. t + (j - n) <= Length(q)
      BY <1>4, <1>10, <2>2, <2>3
    <2>. QED
      BY <1>4, <1>10, <2>1, <2>2, <2>4
  <1>. QED
    BY <1>4, <1>8, <1>9, <1>10

\* The begun packets after the step.
LEMMA SendUnique ==
  ASSUME OrderInv, TypeOK', Flow, NEW w \in Writers, Send(w), Quiet'
  PROVE  Unique' /\ Older'
  <1>1. PICK k \in Nat \ {0} :
          /\ written' = [written EXCEPT ![w] =
               IF written[w] + k = Length(Current(w)) THEN 0 ELSE written[w] + k]
          /\ next' = [next EXCEPT ![w] =
               IF written[w] + k = Length(Current(w)) THEN next[w] + 1 ELSE next[w]]
    BY SendIs DEF OrderInv
  <1>. DEFINE m == Len(begun)
              q == Current(w)
  <1>2. /\ TypeOK /\ next[w] \in Nat /\ written[w] \in Nat
        /\ m \in Nat
        /\ \A i \in 1 .. m : begun[i] \in Packets
        /\ q.w = w /\ q.n = next[w]
    BY WriterNumbers, BegunType DEF OrderInv, Current
  <1>3. /\ \A i \in 1 .. m : begun'[i] = begun[i]
        /\ Len(begun') # 0 /\ begun'[Len(begun')] = q
        /\ written[w] = 0 => Len(begun') = m + 1
        /\ written[w] # 0 => begun' = begun
    BY SendBegins
  <1>4. /\ \A i \in 1 .. m : /\ begun[i].n <= next[begun[i].w]
                             /\ begun[i].n = next[begun[i].w]
                                  => written[begun[i].w] # 0
        /\ \A i, j \in 1 .. m : begun[i] = begun[j] => i = j
    BY DEF Flow, Older, Unique
  <1>5. \A i \in 1 .. m : written[w] = 0 => begun[i] # q
    BY <1>2, <1>4
  <1>6. \A i \in 1 .. Len(begun') : i \in 1 .. m \/ (i = m + 1 /\ written[w] = 0)
    BY <1>2, <1>3
  <1>. HIDE DEF m, q
  <1>7. Unique'
    <2>. SUFFICES ASSUME NEW i \in 1 .. Len(begun'), NEW j \in 1 .. Len(begun'),
                         begun'[i] = begun'[j]
                  PROVE  i = j
      BY DEF Unique
    <2>1. i \in 1 .. m \/ (i = m + 1 /\ written[w] = 0 /\ begun'[i] = q)
      BY <1>3, <1>6
    <2>2. j \in 1 .. m \/ (j = m + 1 /\ written[w] = 0 /\ begun'[j] = q)
      BY <1>3, <1>6
    <2>. QED
      BY <1>3, <1>4, <1>5, <2>1, <2>2
  <1>8. /\ next'[w] \in Nat /\ next[w] <= next'[w]
        /\ next'[w] = next[w] => written'[w] # 0
        /\ \A v \in Writers : v # w => next'[v] = next[v] /\ written'[v] = written[v]
    <2>1. /\ next'[w] = IF written[w] + k = Length(Current(w))
                          THEN next[w] + 1 ELSE next[w]
          /\ written'[w] = IF written[w] + k = Length(Current(w))
                             THEN 0 ELSE written[w] + k
      BY <1>1, <1>2 DEF TypeOK
    <2>2. \A v \in Writers : v # w => next'[v] = next[v] /\ written'[v] = written[v]
      BY <1>1, <1>2 DEF TypeOK
    <2>. QED
      BY <1>2, <2>1, <2>2
  <1>9. Older'
    <2>. SUFFICES ASSUME NEW i \in 1 .. Len(begun')
                  PROVE  /\ begun'[i].n <= next'[begun'[i].w]
                         /\ begun'[i].n = next'[begun'[i].w]
                              => written'[begun'[i].w] # 0
      BY DEF Older
    <2>1. CASE i = m + 1 /\ written[w] = 0
      <3>1. begun'[i] = q
        BY <1>3, <2>1
      <3>. QED
        BY <1>2, <1>8, <3>1
    <2>2. CASE i \in 1 .. m
      <3>1. begun'[i] = begun[i] /\ begun[i].w \in Writers /\ begun[i].n \in Nat
        BY <1>2, <1>3, <2>2, PacketFields
      <3>2. CASE begun[i].w = w
        BY <1>2, <1>4, <1>8, <2>2, <3>1, <3>2
      <3>3. CASE begun[i].w # w
        BY <1>4, <1>8, <2>2, <3>1, <3>3
      <3>. QED
        BY <3>2, <3>3
    <2>. QED
      BY <1>6, <2>1, <2>2
  <1>. QED
    BY <1>7, <1>9

LEMMA SendEnds ==
  ASSUME OrderInv, TypeOK', Flow, NEW w \in Writers, Send(w), Quiet'
  PROVE  Front' /\ Back' /\ Rest' /\ AllThere'
  <1>1. PICK k \in Nat \ {0} :
          /\ next[w] <= MaxPackets[w]
          /\ stream' = stream \o Piece(w, k)
          /\ written' = [written EXCEPT ![w] =
               IF written[w] + k = Length(Current(w)) THEN 0 ELSE written[w] + k]
          /\ next' = [next EXCEPT ![w] =
               IF written[w] + k = Length(Current(w)) THEN next[w] + 1 ELSE next[w]]
    BY SendIs DEF OrderInv
  <1>. DEFINE n == Len(Coming)
              m == Len(begun)
              q == Current(w)
              t == written[w]
              a == Len(accepted)
  <1>2. /\ UNCHANGED <<conn, phase, got, head, accepted>> /\ TypeOK
        /\ conn = "open" /\ Base' = Base
    BY DEF Send, reading, OrderInv, Base
  <1>3. /\ Len(Coming') = n + k
        /\ \A i \in 1 .. n : Coming'[i] = Coming[i]
        /\ \A i \in 1 .. n + k : i > n =>
             Coming'[i] = [p |-> q, at |-> t + (i - n)]
    BY <1>1, <1>2, SendGrows
  <1>4. /\ n \in Nat /\ t \in Nat /\ m \in Nat /\ a \in Nat
        /\ next[w] \in Nat /\ DOMAIN accepted = 1 .. a
        /\ q \in Packets /\ Length(q) \in Nat
    BY <1>1, <1>2, ComingType, WriterNumbers, BegunType, CurrentIsPacket,
       ConstantTypes
  <1>5. /\ \A v \in Writers : v # w => written[v] = 0
        /\ \A i \in 1 .. m : begun'[i] = begun[i]
        /\ Len(begun') # 0 /\ begun'[Len(begun')] = q
        /\ t = 0 => Len(begun') = m + 1 /\ (n = 0 => Base = 0 /\ m = a)
        /\ t # 0 => /\ begun' = begun /\ Len(begun') = m
                    /\ n = 0 => Base = t /\ m = a + 1
    BY SendBegins
  <1>6. /\ phase # "closed"
        /\ n # 0 => a < m /\ Coming[1] = [p |-> begun[a + 1], at |-> Base + 1]
        /\ Base # 0 => a < m
        /\ phase = "payload" => head = begun[a + 1]
    BY DEF Flow, Front
  <1>7. /\ a <= m
        /\ \A i \in 1 .. a : accepted[i] = [p |-> begun[i], whole |-> TRUE]
        /\ \A i \in a + 1 .. m : OnItsWay(begun[i]) \/ (i = a + 1 /\ AtPacket(begun[i]))
    BY <1>4 DEF Flow, AllThere
  <1>8. /\ written'[w] = IF t + k = Length(q) THEN 0 ELSE t + k
        /\ next'[w] = IF t + k = Length(q) THEN next[w] + 1 ELSE next[w]
        /\ \A v \in Writers : v # w => written'[v] = written[v]
    BY <1>1, <1>2 DEF TypeOK
  <1>9. Coming'[n + k] = [p |-> q, at |-> t + k]
    <2>1. n + k \in 1 .. n + k /\ n + k > n /\ t + ((n + k) - n) = t + k
      BY <1>4
    <2>2. Coming'[n + k] = [p |-> q, at |-> t + ((n + k) - n)]
      BY <1>3, <2>1
    <2>. QED
      BY <2>1, <2>2
  <1>a. phase = "payload" => Base # 0
    BY ConstantTypes DEF Base
  <1>b. Len(begun') \in Nat /\ m <= Len(begun')
    BY <1>4, <1>5
  <1>c. Current(w) = q /\ Base \in Nat
    BY ConstantTypes DEF Base
  <1>. HIDE DEF n, m, q, t, a
  <1>10. Front'
    <2>1. a < Len(begun')
           /\ Coming'[1] = [p |-> begun'[a + 1], at |-> Base + 1]
      <3>1. CASE n # 0
        <4>1. 1 \in 1 .. n /\ a + 1 \in 1 .. m
          BY <1>4, <1>6, <3>1
        <4>. QED
          BY <1>3, <1>4, <1>5, <1>6, <1>b, <3>1, <4>1
      <3>2. CASE n = 0
        <4>1. Coming'[1] = [p |-> q, at |-> t + 1]
          BY <1>3, <1>4, <3>2
        <4>2. Base = t /\ Len(begun') = a + 1
          <5>1. CASE t = 0
            BY <1>4, <1>5, <3>2, <5>1
          <5>2. CASE t # 0
            BY <1>4, <1>5, <3>2, <5>2
          <5>. QED
            BY <5>1, <5>2
        <4>. QED
          BY <1>4, <1>5, <4>1, <4>2
      <3>. QED
        BY <3>1, <3>2
    <2>2. phase = "payload" => head = begun'[a + 1]
      <3>1. phase = "payload" => a + 1 \in 1 .. m
        BY <1>4, <1>6, <1>a
      <3>. QED
        BY <1>5, <1>6, <3>1
    <2>. QED
      BY <1>2, <1>6, <2>1, <2>2 DEF Front, a
  <1>11. Back'
    <2>. SUFFICES ASSUME NEW v \in Writers, written'[v] # 0
                  PROVE  /\ begun'[Len(begun')] = [w |-> v, n |-> next'[v]]
                         /\ \A u \in Writers : u # v => written'[u] = 0
                         /\ Coming'[n + k] = [p |-> [w |-> v, n |-> next'[v]],
                                              at |-> written'[v]]
      <3>1. n + k # 0
        BY <1>4
      <3>. QED
        BY <1>3, <1>5, <3>1 DEF Back, Current
    <2>1. v = w
      BY <1>5, <1>8
    <2>2. t + k # Length(q) /\ written'[w] = t + k /\ next'[w] = next[w]
      BY <1>8, <2>1
    <2>3. q = [w |-> w, n |-> next'[w]]
      BY <1>c, <2>2 DEF Current
    <2>. QED
      BY <1>5, <1>8, <1>9, <2>1, <2>2, <2>3
  <1>12. Rest'
    <2>. SUFFICES ASSUME \A v \in Writers : written'[v] = 0
                  PROVE  Coming'[n + k] = [p |-> begun'[Len(begun')],
                                           at |-> Length(begun'[Len(begun')])]
      <3>1. n + k # 0
        BY <1>4
      <3>. QED
        BY <1>3, <1>5, <3>1 DEF Rest, Length
    <2>1. t + k = Length(q)
      BY <1>4, <1>8
    <2>. QED
      BY <1>5, <1>9, <2>1
  <1>13. AllThere'
    <2>1. a <= Len(begun')
      BY <1>4, <1>7, <1>b
    <2>2. \A i \in 1 .. a : accepted[i] = [p |-> begun'[i], whole |-> TRUE]
      <3>1. \A i \in 1 .. a : i \in 1 .. m
        BY <1>4, <1>7
      <3>. QED
        BY <1>5, <1>7, <3>1
    <2>3. ASSUME NEW i \in a + 1 .. Len(begun')
          PROVE  \/ \E j \in 1 .. n + k : Coming'[j] = [p |-> begun'[i], at |-> 1]
                 \/ i = a + 1 /\ AtPacket(begun'[i])
      <3>1. CASE i \in 1 .. m
        <4>1. i \in a + 1 .. m /\ begun'[i] = begun[i]
          BY <1>4, <1>5, <2>3, <3>1
        <4>2. CASE OnItsWay(begun[i])
          <5>1. PICK j \in 1 .. n : Coming[j] = [p |-> begun[i], at |-> 1]
            BY <4>2 DEF OnItsWay, n
          <5>2. j \in 1 .. n + k /\ Coming'[j] = [p |-> begun'[i], at |-> 1]
            BY <1>3, <1>4, <4>1, <5>1
          <5>. QED
            BY <5>2
        <4>3. CASE i = a + 1 /\ AtPacket(begun[i])
          BY <4>1, <4>3
        <4>. QED
          BY <1>7, <4>1, <4>2, <4>3
      <3>2. CASE i \notin 1 .. m
        <4>0. t = 0
          BY <1>4, <1>5, <2>3, <3>2
        <4>1. i = m + 1 /\ t = 0 /\ begun'[i] = q
          BY <1>4, <1>5, <2>3, <3>2, <4>0
        <4>2. /\ n + 1 \in 1 .. n + k /\ n + 1 > n /\ t + ((n + 1) - n) = 1
          BY <1>4, <4>1
        <4>3. Coming'[n + 1] = [p |-> q, at |-> 1]
          BY <1>3, <4>2
        <4>. QED
          BY <4>1, <4>2, <4>3
      <3>. QED
        BY <3>1, <3>2
    <2>4. \A p : AtPacket(p)' <=> (phase' = "header" \/ (phase' = "payload" /\ head' = p))
      BY DEF AtPacket
    <2>. QED
      BY <1>2, <1>3, <1>4, <2>1, <2>2, <2>3 DEF AllThere, OnItsWay, AtPacket, a
  <1>. QED
    BY <1>10, <1>11, <1>12, <1>13

LEMMA SendFlow ==
  ASSUME OrderInv, TypeOK', Flow, NEW w \in Writers, Send(w), Quiet'
  PROVE  Flow'
  BY SendChain, SendUnique, SendEnds DEF Flow

-----------------------------------------------------------------------------
(* The reader has read what it looked for.                                 *)

\* These are the next bytes of the first packet it has not taken.
LEMMA GotIs ==
  ASSUME OrderInv, Flow, Complete, NEW q, q = begun[Len(accepted) + 1]
  PROVE  /\ q \in Packets /\ Len(accepted) + 1 \in 1 .. Len(begun)
         /\ Len(got) = Wanted /\ Len(got) \in Nat \ {0}
         /\ Len(got) \in 1 .. Len(Coming)
         /\ \A i \in 1 .. Len(got) : /\ got[i] = [p |-> q, at |-> Base + i]
                                     /\ Coming[i] = got[i]
         /\ Base + Len(got) <= Length(q)
  <1>1. /\ TypeOK /\ AtPayload /\ Len(got) = Wanted
        /\ phase \in {"sync", "header", "payload"}
    BY DEF OrderInv, Complete, Reading
  <1>2. Wanted \in Nat \ {0}
    <2>1. phase = "payload" => Payload[head] \in Nat \ {0}
      BY <1>1, ConstantTypes DEF AtPayload, TypeOK
    <2>. QED
      BY <1>1, <2>1, ConstantTypes DEF Wanted
  <1>3. /\ Len(got) \in 1 .. Len(Coming) /\ Len(Coming) # 0
        /\ \A i \in 1 .. Len(got) : Coming[i] = got[i]
    BY <1>1, <1>2, ComingType
  <1>4. /\ Len(accepted) < Len(begun)
        /\ Coming[1] = [p |-> q, at |-> Base + 1]
        /\ phase = "payload" => head = q
    BY <1>3 DEF Flow, Front
  <1>5. Len(accepted) + 1 \in 1 .. Len(begun) /\ q \in Packets
    BY <1>1, <1>4, BegunType
  <1>6. Base \in Nat /\ Length(q) \in Nat /\ Payload[q] \in Nat
    BY <1>5, ConstantTypes DEF Base
  <1>7. Base + Len(got) <= Length(q)
    BY <1>1, <1>4, <1>5, ConstantTypes DEF Base, Wanted, Length
  <1>8. \A i \in 1 .. Len(got) : got[i] = [p |-> q, at |-> Base + i]
    <2>. SUFFICES ASSUME NEW i \in 1 .. Len(got)
                  PROVE  Coming[i] = [p |-> q, at |-> Base + i]
      BY <1>3
    <2>1. CASE i = 1
      BY <1>4, <2>1
    <2>2. CASE i # 1
      <3>1. /\ 1 \in 1 .. Len(Coming) /\ i \in 1 .. Len(Coming) /\ 1 < i
            /\ (Base + 1) + (i - 1) = Base + i /\ Base + i <= Length(q)
        BY <1>1, <1>2, <1>3, <1>6, <1>7, <2>2
      <3>2. Coming[1].p = q /\ Coming[1].at = Base + 1
        BY <1>4
      <3>3. Coming[1].at + (i - 1) <= Length(Coming[1].p) =>
              Coming[i] = [p |-> Coming[1].p, at |-> Coming[1].at + (i - 1)]
        BY <3>1 DEF Flow, Chain
      <3>. QED
        BY <3>1, <3>2, <3>3
    <2>. QED
      BY <2>1, <2>2
  <1>. QED
    BY <1>1, <1>2, <1>3, <1>5, <1>7, <1>8

\* The bytes that come are the same but for those that were got.
LEMMA GotIsGone ==
  ASSUME TypeOK, TypeOK', NEW what, LookFor(what), stream' = stream,
         NEW c, c = Len(got)
  PROVE  /\ c \in Nat /\ Len(Coming) \in Nat
         /\ Len(Coming') = Len(Coming) - c /\ Len(Coming') \in Nat
         /\ \A i \in 1 .. Len(Coming') :
              c + i \in 1 .. Len(Coming) /\ Coming'[i] = Coming[c + i]
  <1>1. Part(c)
    BY LookForPart
  <1>2. got' = <<>>
    BY DEF LookFor
  <1>3. /\ Len(Coming') = Len(got') + Len(stream') /\ Len(got') = 0
        /\ Len(Coming) = Len(got) + Len(stream)
        /\ Len(got) \in Nat /\ Len(stream) \in Nat
    BY <1>2, ComingType, ComingTypeNext
  <1>4. /\ Len(Coming') = Len(Coming) - c /\ Len(Coming') \in Nat
        /\ c \in Nat /\ Len(Coming) \in Nat
    BY <1>3
  <1>. QED
    BY <1>1, <1>4 DEF Part

LEMMA GoneChain ==
  ASSUME TypeOK, TypeOK', NEW what, LookFor(what), stream' = stream,
         begun' = begun, Chain
  PROVE  Chain'
  <1>1. PICK c : c = Len(got)
    OBVIOUS
  <1>2. /\ c \in Nat /\ Len(Coming) \in Nat /\ Len(Coming') \in Nat
        /\ \A i \in 1 .. Len(Coming') :
             c + i \in 1 .. Len(Coming) /\ Coming'[i] = Coming[c + i]
    BY <1>1, GotIsGone
  <1>. SUFFICES ASSUME NEW i \in 1 .. Len(Coming'), NEW j \in 1 .. Len(Coming'), i < j
                PROVE  /\ Coming'[i].at + (j - i) <= Length(Coming'[i].p) =>
                            Coming'[j] = [p |-> Coming'[i].p,
                                          at |-> Coming'[i].at + (j - i)]
                       /\ Coming'[i].at + (j - i) = Length(Coming'[i].p) + 1 =>
                            /\ Coming'[j].at = 1
                            /\ \E m \in 1 .. Len(begun) :
                                 /\ m + 1 \in 1 .. Len(begun)
                                 /\ begun[m] = Coming'[i].p
                                 /\ begun[m + 1] = Coming'[j].p
    BY DEF Chain, Length
  <1>3. /\ c + i \in 1 .. Len(Coming) /\ Coming'[i] = Coming[c + i]
        /\ c + j \in 1 .. Len(Coming) /\ Coming'[j] = Coming[c + j]
        /\ c + i < c + j /\ (c + j) - (c + i) = j - i
    BY <1>2
  <1>4. /\ Coming[c + i].at + ((c + j) - (c + i)) <= Length(Coming[c + i].p) =>
             Coming[c + j] = [p |-> Coming[c + i].p,
                              at |-> Coming[c + i].at + ((c + j) - (c + i))]
        /\ Coming[c + i].at + ((c + j) - (c + i)) = Length(Coming[c + i].p) + 1 =>
             /\ Coming[c + j].at = 1
             /\ \E m \in 1 .. Len(begun) :
                  /\ m + 1 \in 1 .. Len(begun)
                  /\ begun[m] = Coming[c + i].p /\ begun[m + 1] = Coming[c + j].p
    BY <1>3 DEF Chain
  <1>. QED
    BY <1>3, <1>4

\* What is true of both ways to go on below.
LEMMA Advance ==
  ASSUME OrderInv, TypeOK', Flow, Complete, NEW what, LookFor(what),
         UNCHANGED <<writing, stream, conn, begun>>,
         NEW q, q = begun[Len(accepted) + 1], NEW c, c = Len(got)
  PROVE  /\ Unique' /\ Older' /\ Chain'
         /\ Len(Coming') # 0 =>
              /\ Len(Coming) # 0
              /\ Coming'[Len(Coming')] = Coming[Len(Coming)]
              /\ Base + c < Length(q) =>
                   Coming'[1] = [p |-> q, at |-> (Base + c) + 1]
              /\ Base + c = Length(q) =>
                   /\ Len(accepted) + 2 \in 1 .. Len(begun)
                   /\ Coming'[1] = [p |-> begun[Len(accepted) + 2], at |-> 1]
         /\ Len(Coming') = 0 =>
              /\ Len(Coming) # 0
              /\ Coming[Len(Coming)] = [p |-> q, at |-> Base + c]
         /\ \A r : r # q /\ OnItsWay(r) => OnItsWay(r)'
  <1>1. /\ q \in Packets /\ Len(accepted) + 1 \in 1 .. Len(begun)
        /\ c \in Nat \ {0} /\ c \in 1 .. Len(Coming)
        /\ \A i \in 1 .. c : /\ got[i] = [p |-> q, at |-> Base + i]
                             /\ Coming[i] = got[i]
        /\ Base + c <= Length(q)
    BY GotIs
  <1>2. /\ TypeOK /\ Base \in Nat /\ Length(q) \in Nat
        /\ Len(accepted) \in Nat /\ Len(begun) \in Nat
    BY <1>1, ConstantTypes, BegunType DEF OrderInv, Base
  <1>3. /\ Len(Coming) \in Nat
        /\ Len(Coming') = Len(Coming) - c /\ Len(Coming') \in Nat
        /\ \A i \in 1 .. Len(Coming') :
             c + i \in 1 .. Len(Coming) /\ Coming'[i] = Coming[c + i]
    BY <1>2, GotIsGone
  <1>4. Unique' /\ Older'
    BY DEF Flow, Unique, Older, writing
  <1>5. Chain'
    BY <1>2, GoneChain DEF Flow
  <1>6. ASSUME Len(Coming') # 0
        PROVE  /\ Len(Coming) # 0
               /\ Coming'[Len(Coming')] = Coming[Len(Coming)]
               /\ Base + c < Length(q) =>
                    Coming'[1] = [p |-> q, at |-> (Base + c) + 1]
               /\ Base + c = Length(q) =>
                    /\ Len(accepted) + 2 \in 1 .. Len(begun)
                    /\ Coming'[1] = [p |-> begun[Len(accepted) + 2], at |-> 1]
    <2>1. /\ Len(Coming') \in 1 .. Len(Coming') /\ c + Len(Coming') = Len(Coming)
          /\ 1 \in 1 .. Len(Coming') /\ c + 1 \in 1 .. Len(Coming)
          /\ Len(Coming) # 0 /\ 1 \in 1 .. Len(Coming) /\ 1 < c + 1
      BY <1>1, <1>3, <1>6
    <2>2. /\ Coming'[Len(Coming')] = Coming[Len(Coming)]
          /\ Coming'[1] = Coming[c + 1]
      BY <1>3, <2>1
    <2>3. Coming[1] = [p |-> q, at |-> Base + 1]
      BY <1>1
    <2>4. Coming[1].p = q /\ Coming[1].at = Base + 1
      BY <2>3
    <2>5. /\ Coming[1].at + ((c + 1) - 1) <= Length(Coming[1].p) =>
               Coming[c + 1] = [p |-> Coming[1].p, at |-> Coming[1].at + ((c + 1) - 1)]
          /\ Coming[1].at + ((c + 1) - 1) = Length(Coming[1].p) + 1 =>
               /\ Coming[c + 1].at = 1
               /\ \E m \in 1 .. Len(begun) :
                    /\ m + 1 \in 1 .. Len(begun)
                    /\ begun[m] = Coming[1].p /\ begun[m + 1] = Coming[c + 1].p
      BY <2>1 DEF Flow, Chain
    <2>6. (Base + 1) + ((c + 1) - 1) = (Base + c) + 1
      BY <1>1, <1>2
    <2>7. /\ (Base + c) + 1 <= Length(q) =>
               Coming[c + 1] = [p |-> q, at |-> (Base + c) + 1]
          /\ (Base + c) + 1 = Length(q) + 1 =>
               /\ Coming[c + 1].at = 1
               /\ \E m \in 1 .. Len(begun) :
                    /\ m + 1 \in 1 .. Len(begun)
                    /\ begun[m] = q /\ begun[m + 1] = Coming[c + 1].p
      BY <2>4, <2>5, <2>6
    <2>8. Base + c < Length(q) => Coming'[1] = [p |-> q, at |-> (Base + c) + 1]
      BY <1>1, <1>2, <2>2, <2>7
    <2>9. ASSUME Base + c = Length(q)
          PROVE  /\ Len(accepted) + 2 \in 1 .. Len(begun)
                 /\ Coming'[1] = [p |-> begun[Len(accepted) + 2], at |-> 1]
      <3>1. PICK m \in 1 .. Len(begun) :
              /\ m + 1 \in 1 .. Len(begun)
              /\ begun[m] = q /\ begun[m + 1] = Coming[c + 1].p
        BY <2>7, <2>9
      <3>2. m = Len(accepted) + 1
        BY <1>1, <3>1 DEF Flow, Unique
      <3>3. m + 1 = Len(accepted) + 2
        BY <1>2, <3>2
      <3>4. Coming[c + 1].at = 1 /\ Coming[c + 1] \in Bytes
        BY <1>2, <2>1, <2>7, <2>9, ComingType
      <3>5. Coming[c + 1] = [p |-> Coming[c + 1].p, at |-> 1]
        BY <3>4 DEF Bytes
      <3>. QED
        BY <2>2, <3>1, <3>3, <3>5
    <2>. QED
      BY <2>1, <2>2, <2>8, <2>9
  <1>7. ASSUME Len(Coming') = 0
        PROVE  Len(Coming) # 0 /\ Coming[Len(Coming)] = [p |-> q, at |-> Base + c]
    <2>1. Len(Coming) = c /\ c \in 1 .. c
      BY <1>1, <1>3, <1>7
    <2>. QED
      BY <1>1, <2>1
  <1>8. ASSUME NEW r, r # q, OnItsWay(r)
        PROVE  \E i \in 1 .. Len(Coming') : Coming'[i] = [p |-> r, at |-> 1]
    <2>1. PICK z \in 1 .. Len(Coming) : Coming[z] = [p |-> r, at |-> 1]
      BY <1>8 DEF OnItsWay
    <2>2. z \notin 1 .. c
      <3>. SUFFICES ASSUME z \in 1 .. c PROVE FALSE
        OBVIOUS
      <3>1. Coming[z].p = r
        BY <2>1
      <3>2. Coming[z] = [p |-> q, at |-> Base + z]
        BY <1>1
      <3>3. Coming[z].p = q
        BY <3>2
      <3>. QED
        BY <1>8, <3>1, <3>3
    <2>3. z - c \in 1 .. Len(Coming') /\ c + (z - c) = z
      BY <1>1, <1>3, <2>2
    <2>. QED
      BY <1>3, <2>1, <2>3
  <1>. QED
    BY <1>4, <1>5, <1>6, <1>7, <1>8 DEF OnItsWay

\* The writers' end of what comes, where the reader has got everything.
LEMMA GotAll ==
  ASSUME OrderInv, Flow, Len(Coming) # 0, NEW q, q = begun[Len(accepted) + 1],
         Len(accepted) + 1 \in 1 .. Len(begun),
         NEW x \in Nat, Coming[Len(Coming)] = [p |-> q, at |-> x]
  PROVE  /\ Len(begun) = Len(accepted) + 1
         /\ \A w \in Writers : written[w] # 0 =>
              Current(w) = q /\ written[w] = x /\ x # Length(q)
         /\ (\A w \in Writers : written[w] = 0) => x = Length(q)
  <1>1. /\ TypeOK /\ Len(begun) \in Nat /\ Len(accepted) \in Nat
        /\ Len(begun) \in 1 .. Len(begun)
    BY BegunType DEF OrderInv
  <1>2. ASSUME NEW w \in Writers, written[w] # 0
        PROVE  Current(w) = q /\ written[w] = x /\ x # Length(q) /\ begun[Len(begun)] = q
    <2>1. /\ begun[Len(begun)] = Current(w)
          /\ Coming[Len(Coming)] = [p |-> Current(w), at |-> written[w]]
      BY <1>2 DEF Flow, Back
    <2>2. Current(w) = q /\ written[w] = x
      BY <2>1
    <2>3. written[w] < Length(Current(w))
      BY <1>1, <1>2 DEF TypeOK
    <2>4. q \in Packets /\ Length(q) \in Nat
      BY <1>1, BegunType, ConstantTypes
    <2>5. x # Length(q)
      BY <2>2, <2>3, <2>4
    <2>. QED
      BY <2>1, <2>2, <2>5
  <1>3. ASSUME \A w \in Writers : written[w] = 0
        PROVE  x = Length(q) /\ begun[Len(begun)] = q
    <2>1. Coming[Len(Coming)]
            = [p |-> begun[Len(begun)], at |-> Length(begun[Len(begun)])]
      BY <1>3 DEF Flow, Rest
    <2>. QED
      BY <2>1
  <1>4. begun[Len(begun)] = q
    BY <1>2, <1>3
  <1>5. Len(begun) = Len(accepted) + 1
    BY <1>1, <1>4 DEF Flow, Unique
  <1>. QED
    BY <1>2, <1>3, <1>5

\* The reader goes on in the same packet.
LEMMA AdvanceInside ==
  ASSUME OrderInv, TypeOK', Flow, Complete,
         NEW what \in {"header", "payload"}, LookFor(what),
         UNCHANGED <<writing, stream, conn, begun, accepted>>,
         NEW q, q = begun[Len(accepted) + 1], what = "payload" => head' = q,
         Base' = Base + Len(got), Base + Len(got) < Length(q)
  PROVE  Flow'
  <1>1. PICK c : c = Len(got)
    OBVIOUS
  <1>. DEFINE a == Len(accepted)
              m == Len(begun)
  <1>2. /\ Unique' /\ Older' /\ Chain'
        /\ Len(Coming') # 0 =>
             /\ Len(Coming) # 0
             /\ Coming'[Len(Coming')] = Coming[Len(Coming)]
             /\ Coming'[1] = [p |-> q, at |-> (Base + c) + 1]
        /\ Len(Coming') = 0 =>
             /\ Len(Coming) # 0
             /\ Coming[Len(Coming)] = [p |-> q, at |-> Base + c]
        /\ \A r : r # q /\ OnItsWay(r) => OnItsWay(r)'
    BY <1>1, Advance
  <1>3. /\ a + 1 \in 1 .. m /\ a \in Nat /\ m \in Nat /\ DOMAIN accepted = 1 .. a
        /\ c \in Nat /\ Base \in Nat /\ Base + c \in Nat
    BY <1>1, GotIs, BegunType, ConstantTypes DEF OrderInv, Base
  <1>4. phase' = what /\ got' = <<>> /\ Base' = Base + c
    BY <1>1 DEF LookFor
  <1>5. Len(Coming') = 0 =>
          /\ m = a + 1
          /\ \A w \in Writers : written[w] # 0 => written[w] = Base + c
          /\ ~\A w \in Writers : written[w] = 0
    <2>. SUFFICES ASSUME Len(Coming') = 0
                  PROVE  /\ m = a + 1
                         /\ \A w \in Writers : written[w] # 0 => written[w] = Base + c
                         /\ ~\A w \in Writers : written[w] = 0
      OBVIOUS
    <2>1. Base + c # Length(q)
      BY <1>1, <1>3
    <2>. QED
      BY <1>2, <1>3, <2>1, GotAll
  <1>6. Front'
    <2>1. conn = "open"
      BY DEF Flow, Front
    <2>2. Len(Coming') # 0 => Coming'[1] = [p |-> begun[a + 1], at |-> Base' + 1]
      BY <1>2, <1>4
    <2>3. a < m
      BY <1>3
    <2>. QED
      BY <1>4, <2>1, <2>2, <2>3 DEF Front
  <1>7. Back'
    <2>. SUFFICES ASSUME NEW w \in Writers, written[w] # 0
                  PROVE  /\ m # 0 /\ begun[m] = Current(w)
                         /\ \A v \in Writers : v # w => written[v] = 0
                         /\ Len(Coming') # 0 =>
                              Coming'[Len(Coming')]
                                = [p |-> Current(w), at |-> written[w]]
                         /\ Len(Coming') = 0 => Base' = written[w] /\ m = a + 1
      BY DEF Back, Current, writing
    <2>. QED
      BY <1>2, <1>4, <1>5 DEF Flow, Back
  <1>8. Rest'
    <2>. SUFFICES ASSUME \A w \in Writers : written[w] = 0
                  PROVE  /\ Len(Coming') # 0 =>
                              /\ m # 0
                              /\ Coming'[Len(Coming')]
                                   = [p |-> begun[m], at |-> Length(begun[m])]
                         /\ Len(Coming') = 0 => FALSE
      BY DEF Rest, Length, writing
    <2>. QED
      BY <1>2, <1>5 DEF Flow, Rest
  <1>9. AllThere'
    <2>1. /\ a <= m
          /\ \A i \in 1 .. a : accepted[i] = [p |-> begun[i], whole |-> TRUE]
          /\ \A i \in a + 1 .. m :
               OnItsWay(begun[i]) \/ (i = a + 1 /\ AtPacket(begun[i]))
      BY <1>3 DEF Flow, AllThere
    <2>2. ASSUME NEW i \in a + 1 .. m
          PROVE  \/ \E j \in 1 .. Len(Coming') :
                      Coming'[j] = [p |-> begun[i], at |-> 1]
                 \/ /\ i = a + 1
                    /\ phase' = "header" \/ (phase' = "payload" /\ head' = begun[i])
      <3>1. CASE i = a + 1
        BY <1>4, <3>1
      <3>2. CASE i # a + 1
        <4>1. PICK r : r = begun[i]
          OBVIOUS
        <4>2. r # q
          <5>1. i \in 1 .. m
            BY <1>3
          <5>. QED
            BY <1>3, <3>2, <4>1, <5>1 DEF Flow, Unique
        <4>3. OnItsWay(r)'
          BY <1>2, <2>1, <3>2, <4>1, <4>2
        <4>. QED
          BY <4>1, <4>3 DEF OnItsWay
      <3>. QED
        BY <3>1, <3>2
    <2>. QED
      BY <1>3, <2>1, <2>2 DEF AllThere, OnItsWay, AtPacket
  <1>. QED
    BY <1>2, <1>6, <1>7, <1>8, <1>9 DEF Flow

\* The reader takes the packet.
LEMMA AdvanceBehind ==
  ASSUME OrderInv, TypeOK', Flow, Complete, NEW q, q = begun[Len(accepted) + 1],
         Accept(q, TRUE), UNCHANGED <<writing, stream, conn, begun>>,
         Base + Len(got) = Length(q)
  PROVE  Flow'
  <1>1. PICK c : c = Len(got)
    OBVIOUS
  <1>. DEFINE a == Len(accepted)
              m == Len(begun)
              new == [p |-> q, whole |-> TRUE]
  <1>0. LookFor("idle") /\ accepted' = Append(accepted, new)
    BY DEF Accept
  <1>2. /\ Unique' /\ Older' /\ Chain'
        /\ Len(Coming') # 0 =>
             /\ Len(Coming) # 0
             /\ Coming'[Len(Coming')] = Coming[Len(Coming)]
             /\ a + 2 \in 1 .. m
             /\ Coming'[1] = [p |-> begun[a + 2], at |-> 1]
        /\ Len(Coming') = 0 =>
             /\ Len(Coming) # 0
             /\ Coming[Len(Coming)] = [p |-> q, at |-> Base + c]
        /\ \A r : r # q /\ OnItsWay(r) => OnItsWay(r)'
    BY <1>0, <1>1, Advance
  <1>3. /\ a + 1 \in 1 .. m /\ a \in Nat /\ m \in Nat /\ DOMAIN accepted = 1 .. a
        /\ c \in Nat /\ Base \in Nat /\ Base + c \in Nat
        /\ q \in Packets
    BY <1>1, GotIs, BegunType, ConstantTypes DEF OrderInv, Base
  <1>4. phase' = "idle" /\ Base' = 0
    BY <1>0 DEF LookFor, Base
  <1>5. Len(Coming') = 0 =>
          /\ m = a + 1
          /\ \A w \in Writers : written[w] = 0
    <2>. SUFFICES ASSUME Len(Coming') = 0
                  PROVE  m = a + 1 /\ \A w \in Writers : written[w] = 0
      OBVIOUS
    <2>1. Base + c = Length(q)
      BY <1>1
    <2>. QED
      BY <1>2, <1>3, <2>1, GotAll
  <1>6. /\ Len(accepted') = a + 1 /\ DOMAIN accepted' = 1 .. a + 1
        /\ \A i \in 1 .. a : accepted'[i] = accepted[i]
        /\ accepted'[a + 1] = new
    <2>. DEFINE Taken == [p : Packets, whole : BOOLEAN]
    <2>1. accepted \in Seq(Taken) /\ new \in Taken
      BY <1>3 DEF OrderInv, TypeOK
    <2>. HIDE DEF Taken, new
    <2>. QED
      BY <1>0, <2>1
  <1>7. Front'
    <2>1. conn = "open"
      BY DEF Flow, Front
    <2>2. Len(Coming') # 0 =>
            /\ a + 1 < m
            /\ Coming'[1] = [p |-> begun[(a + 1) + 1], at |-> 0 + 1]
      <3>1. (a + 1) + 1 = a + 2 /\ 0 + 1 = 1
        BY <1>3
      <3>. QED
        BY <1>2, <1>3, <3>1
    <2>. QED
      BY <1>4, <1>6, <2>1, <2>2 DEF Front
  <1>8. Back'
    <2>. SUFFICES ASSUME NEW w \in Writers, written[w] # 0
                  PROVE  /\ m # 0 /\ begun[m] = Current(w)
                         /\ \A v \in Writers : v # w => written[v] = 0
                         /\ Len(Coming') # 0 =>
                              Coming'[Len(Coming')]
                                = [p |-> Current(w), at |-> written[w]]
                         /\ Len(Coming') = 0 => FALSE
      BY DEF Back, Current, writing
    <2>. QED
      BY <1>2, <1>5 DEF Flow, Back
  <1>9. Rest'
    <2>. SUFFICES ASSUME \A w \in Writers : written[w] = 0
                  PROVE  /\ Len(Coming') # 0 =>
                              /\ m # 0
                              /\ Coming'[Len(Coming')]
                                   = [p |-> begun[m], at |-> Length(begun[m])]
                         /\ Len(Coming') = 0 => m = a + 1
      BY <1>4, <1>6 DEF Rest, Length, writing
    <2>. QED
      BY <1>2, <1>5 DEF Flow, Rest
  <1>10. AllThere'
    <2>1. /\ \A i \in 1 .. a : accepted[i] = [p |-> begun[i], whole |-> TRUE]
          /\ \A i \in a + 1 .. m :
               OnItsWay(begun[i]) \/ (i = a + 1 /\ AtPacket(begun[i]))
      BY <1>3 DEF Flow, AllThere
    <2>2. \A i \in 1 .. a + 1 : accepted'[i] = [p |-> begun[i], whole |-> TRUE]
      <3>. SUFFICES ASSUME NEW i \in 1 .. a + 1
                    PROVE  accepted'[i] = [p |-> begun[i], whole |-> TRUE]
        OBVIOUS
      <3>1. CASE i = a + 1
        BY <1>6, <3>1
      <3>2. CASE i # a + 1
        <4>1. i \in 1 .. a
          BY <1>3, <3>2
        <4>. QED
          BY <1>6, <2>1, <4>1
      <3>. QED
        BY <3>1, <3>2
    <2>3. ASSUME NEW i \in (a + 1) + 1 .. m
          PROVE  \E j \in 1 .. Len(Coming') : Coming'[j] = [p |-> begun[i], at |-> 1]
      <3>1. PICK r : r = begun[i]
        OBVIOUS
      <3>2. i \in 1 .. m /\ i \in a + 1 .. m /\ i # a + 1
        BY <1>3
      <3>3. r # q
        BY <1>3, <3>1, <3>2 DEF Flow, Unique
      <3>4. OnItsWay(r)'
        BY <1>2, <2>1, <3>1, <3>2, <3>3
      <3>. QED
        BY <3>1, <3>4 DEF OnItsWay
    <2>4. a + 1 <= m
      BY <1>3
    <2>. QED
      BY <1>6, <2>2, <2>3, <2>4 DEF AllThere, OnItsWay
  <1>. QED
    BY <1>2, <1>7, <1>8, <1>9, <1>10 DEF Flow

-----------------------------------------------------------------------------
(* What was got is never refused, and so every step keeps the order.       *)

LEMMA SyncFlow ==
  ASSUME OrderInv, TypeOK', Flow, Sync
  PROVE  Flow'
  <1>1. PICK q : q = begun[Len(accepted) + 1]
    OBVIOUS
  <1>2. /\ Complete /\ phase = "sync" /\ Base = 0
        /\ UNCHANGED <<writing, stream, conn, head, accepted, begun>>
    BY DEF Sync, Base, history
  <1>3. /\ q \in Packets /\ Len(got) = SyncLength
        /\ \A i \in 1 .. Len(got) : got[i] = [p |-> q, at |-> 0 + i]
    BY <1>1, <1>2, GotIs DEF Wanted
  <1>4. IsSync
    <2>1. DOMAIN got = 1 .. Len(got) /\ Len(got) \in Nat
      BY DEF OrderInv, TypeOK
    <2>2. \A i \in 1 .. Len(got) : 0 + i = i
      BY <2>1
    <2>. QED
      BY <1>3, <2>1, <2>2 DEF IsSync
  <1>5. LookFor("header")
    BY <1>4 DEF Sync
  <1>6. Base' = Base + Len(got) /\ Base + Len(got) < Length(q)
    <2>1. Base' = SyncLength
      BY <1>5 DEF LookFor, Base
    <2>2. SyncLength < Length(q)
      <3>1. Payload[q] \in Nat
        BY <1>3, ConstantTypes
      <3>. QED
        BY <3>1, SocketAssumption DEF Length
    <2>. QED
      BY <1>2, <1>3, <2>1, <2>2, ConstantTypes
  <1>. QED
    BY <1>1, <1>2, <1>5, <1>6, AdvanceInside

LEMMA HeaderFlow ==
  ASSUME OrderInv, TypeOK', Flow, Header
  PROVE  Flow'
  <1>1. PICK q : q = begun[Len(accepted) + 1]
    OBVIOUS
  <1>2. /\ Complete /\ phase = "header" /\ Base = SyncLength
        /\ UNCHANGED <<writing, stream, conn, begun>> /\ head' = got[1].p
    BY DEF Header, Base, history
  <1>3. /\ q \in Packets /\ Len(got) = HeaderLength - SyncLength
        /\ Len(got) \in Nat \ {0}
        /\ \A i \in 1 .. Len(got) : got[i] = [p |-> q, at |-> Base + i]
    BY <1>1, <1>2, GotIs DEF Wanted
  <1>4. head' = q
    <2>1. 1 \in 1 .. Len(got)
      BY <1>3
    <2>2. got[1] = [p |-> q, at |-> Base + 1]
      BY <1>3, <2>1
    <2>. QED
      BY <1>2, <2>2
  <1>5. Base + Len(got) = HeaderLength /\ Payload[q] \in Nat /\ HeaderLength \in Nat
    BY <1>2, <1>3, ConstantTypes
  <1>6. CASE Payload[q] = 0
    <2>1. Accept(q, TRUE)
      BY <1>4, <1>6 DEF Header, Accept, LookFor
    <2>2. Base + Len(got) = Length(q)
      BY <1>5, <1>6 DEF Length
    <2>. QED
      BY <1>1, <1>2, <2>1, <2>2, AdvanceBehind
  <1>7. CASE Payload[q] # 0
    <2>1. LookFor("payload") /\ accepted' = accepted
      BY <1>4, <1>7 DEF Header
    <2>2. Base' = Base + Len(got)
      BY <1>5, <2>1 DEF LookFor, Base
    <2>3. Base + Len(got) < Length(q)
      BY <1>5, <1>7 DEF Length
    <2>. QED
      BY <1>1, <1>2, <1>4, <2>1, <2>2, <2>3, AdvanceInside
  <1>. QED
    BY <1>6, <1>7

LEMMA BodyFlow ==
  ASSUME OrderInv, TypeOK', Flow, Body
  PROVE  Flow'
  <1>1. PICK q : q = begun[Len(accepted) + 1]
    OBVIOUS
  <1>2. /\ Complete /\ phase = "payload" /\ Base = HeaderLength /\ head = q
        /\ UNCHANGED <<writing, stream, conn, begun>>
    BY <1>1 DEF Body, Base, history, Flow, Front
  <1>3. /\ q \in Packets /\ Len(got) = Payload[q]
        /\ \A i \in 1 .. Len(got) : got[i] = [p |-> q, at |-> HeaderLength + i]
    BY <1>1, <1>2, GotIs DEF Wanted
  <1>4. Are(q, HeaderLength) = TRUE
    <2>1. DOMAIN got = 1 .. Len(got)
      BY DEF OrderInv, TypeOK
    <2>. QED
      BY <1>3, <2>1 DEF Are
  <1>5. Accept(q, TRUE)
    BY <1>2, <1>4 DEF Body, Accept, LookFor
  <1>6. Base + Len(got) = Length(q)
    BY <1>2, <1>3 DEF Length
  <1>. QED
    BY <1>1, <1>2, <1>5, <1>6, AdvanceBehind

LEMMA NeverRefused ==
  ASSUME OrderInv, Flow, Reject
  PROVE  FALSE
  <1>1. PICK q : q = begun[Len(accepted) + 1]
    OBVIOUS
  <1>2. Complete /\ DOMAIN got = 1 .. Len(got)
    BY DEF Reject, OrderInv, TypeOK
  <1>3. /\ Len(got) \in Nat \ {0}
        /\ \A i \in 1 .. Len(got) : got[i] = [p |-> q, at |-> Base + i]
    BY <1>1, <1>2, GotIs
  <1>4. CASE phase = "header" /\ ~HeaderIsGood
    <2>1. Base = SyncLength
      BY <1>4 DEF Base
    <2>2. 1 \in 1 .. Len(got)
      BY <1>3
    <2>3. got[1] = [p |-> q, at |-> Base + 1]
      BY <1>3, <2>2
    <2>4. got[1].p = q
      BY <2>3
    <2>5. HeaderIsGood
      BY <1>2, <1>3, <2>1, <2>4 DEF HeaderIsGood, Are
    <2>. QED
      BY <1>4, <2>5
  <1>5. CASE phase = "payload" /\ ~PayloadIsGood
    <2>1. Base = HeaderLength /\ head = q
      BY <1>1, <1>5 DEF Base, Flow, Front
    <2>2. PayloadIsGood
      BY <1>2, <1>3, <2>1 DEF PayloadIsGood, Are
    <2>. QED
      BY <1>5, <2>2
  <1>. QED
    BY <1>4, <1>5 DEF Reject

LEMMA InitFlow == Init => FlowInv
  <1>. SUFFICES ASSUME Init PROVE FlowInv
    OBVIOUS
  <1>1. OrderInv /\ TypeOK
    BY InitOrder DEF OrderInv
  <1>2. Len(Coming) = 0
    BY <1>1, ComingType DEF Init
  <1>3. Unique /\ Older /\ Chain
    BY <1>2 DEF Init, Unique, Older, Chain
  <1>4. Front /\ Back /\ Rest /\ AllThere
    BY <1>2 DEF Init, Front, Back, Rest, AllThere, Base
  <1>. QED
    BY <1>1, <1>3, <1>4 DEF FlowInv, Flow

LEMMA StepFlow == FlowInv /\ [Next]_vars => FlowInv'
  <1>. SUFFICES ASSUME FlowInv, [Next]_vars, Quiet' PROVE Flow'
    BY StepOrder DEF FlowInv
  <1>1. OrderInv /\ TypeOK /\ TypeOK'
    BY StepOrder DEF FlowInv, OrderInv
  <1>2. CASE \E w \in Writers : Send(w)
    <2>1. PICK w \in Writers : Send(w)
      BY <1>2
    <2>2. timedOut' = timedOut /\ mixed' = (mixed \/ \E v \in Writers \ {w} : written[v] # 0)
      BY <2>1 DEF Send
    <2>3. ~mixed
      <3>. SUFFICES ASSUME mixed PROVE mixed'
        BY DEF Quiet
      <3>. QED
        BY <2>2, Zenon
    <2>4. Quiet
      BY <2>2, <2>3 DEF Quiet
    <2>. QED
      BY <1>1, <1>2, <2>4, SendFlow DEF FlowInv
  <1>3. CASE \E w \in Writers : WriteFails(w)
    BY <1>3 DEF WriteFails, Quiet
  <1>4. CASE Close
    BY <1>4 DEF Close, Quiet
  <1>5. CASE Receive
    <2>1. Flow
      BY <1>5 DEF Receive, history, Quiet, FlowInv
    <2>. QED
      BY <1>1, <1>5, <2>1, ReceiveFlow
  <1>6. CASE Header
    <2>1. Flow
      BY <1>6 DEF Header, history, Quiet, FlowInv
    <2>. QED
      BY <1>1, <1>6, <2>1, HeaderFlow
  <1>7. CASE Body
    <2>1. Flow
      BY <1>7 DEF Body, history, Quiet, FlowInv
    <2>. QED
      BY <1>1, <1>7, <2>1, BodyFlow
  <1>8. CASE Begin
    <2>1. Flow
      BY <1>8 DEF Begin, history, Quiet, FlowInv
    <2>. QED
      BY <1>1, <1>8, <2>1, BeginFlow
  <1>9. CASE ReadTimeout
    BY <1>9 DEF ReadTimeout, Quiet
  <1>10. CASE ReadEnd
    BY <1>10 DEF ReadEnd, history, Quiet, FlowInv, Flow, Front
  <1>11. CASE ReadError
    BY <1>11 DEF ReadError, history, Quiet, FlowInv, Flow, Front
  <1>12. CASE Sync
    <2>1. Flow
      BY <1>12 DEF Sync, history, Quiet, FlowInv
    <2>. QED
      BY <1>1, <1>12, <2>1, SyncFlow
  <1>13. CASE Reject
    <2>1. Flow
      BY <1>13 DEF Reject, history, Quiet, FlowInv
    <2>. QED
      BY <1>1, <1>13, <2>1, NeverRefused
  <1>14. CASE UNCHANGED vars
    <2>1. Flow /\ Coming' = Coming /\ Base' = Base /\ phase # "closed"
      BY <1>14 DEF vars, reading, history, Quiet, FlowInv, Flow, Front, Coming, Base
    <2>. QED
      BY <1>14, <2>1, StandsStill DEF vars, writing, reading, history
  <1>. QED
    BY <1>2, <1>3, <1>4, <1>5, <1>6, <1>7, <1>8, <1>9, <1>10, <1>11, <1>12,
       <1>13, <1>14, Steps DEF Turns

(* A reader that keeps up gets every packet, whole and in the order in     *)
(* which it was begun, NothingLost, in whatever pieces send and recv take  *)
(* it (msgpacket.c:403-432, os-config.c:78-107), as long as no time limit  *)
(* has passed and no packet was begun inside another one.                  *)
THEOREM AlwaysNothingLost == Spec => []NothingLost
  <1>1. FlowInv => NothingLost
    BY DEF FlowInv, Flow, Quiet, AllThere, NothingLost
  <1>. QED
    BY <1>1, InitFlow, StepFlow, PTL DEF Spec
=============================================================================
