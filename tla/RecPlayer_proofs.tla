--------------------------- MODULE RecPlayer_proofs ---------------------------
(***************************************************************************)
(* RightBytes and FullBlock for recordings and requests of every length.   *)
(* The inductive invariants say how files, segments and the request in     *)
(* progress fit, and that the segments leave no position out.              *)
(***************************************************************************)
EXTENDS RecPlayer, SequenceTheorems, TLAPS

PlayerInv ==
  /\ TypeOK
  /\ Contiguous
  /\ SegmentsTile
  /\ ~torn => SegmentsFit
  /\ ReadOn
  /\ RightBytes

\* An element of a sequence of files or segments.
LEMMA RangeOf ==
  ASSUME NEW s \in Seq(FileRanges), NEW i \in 1 .. Len(s)
  PROVE  s[i] \in FileRanges /\ s[i].start \in Nat /\ s[i].end \in Nat
  <1>1. s[i] \in FileRanges
    OBVIOUS
  <1>. QED
    BY <1>1 DEF FileRanges

LEMMA ToIntType == \A n \in Int : ToInt(n) \in Int
  <1>. SUFFICES ASSUME NEW n \in Int PROVE ToInt(n) \in Int
    OBVIOUS
  <1>1. 2 * IntLimit \in Nat \ {0}
    BY RecPlayerAssumption
  <1>. DEFINE width == 2 * IntLimit
  <1>. HIDE DEF width
  <1>2. n % width \in Int
    BY <1>1 DEF width
  <1>. QED
    BY <1>1, <1>2 DEF ToInt, width

\* An amount below IntLimit stays as it is.
LEMMA ToIntSame == \A n \in Nat : n < IntLimit => ToInt(n) = n
  <1>. SUFFICES ASSUME NEW n \in Nat, n < IntLimit PROVE ToInt(n) = n
    OBVIOUS
  <1>. DEFINE width == 2 * IntLimit
  <1>1. width \in Nat \ {0} /\ n < width
    BY RecPlayerAssumption
  <1>. HIDE DEF width
  <1>2. n % width = n
    BY <1>1
  <1>. QED
    BY <1>2 DEF ToInt, width

LEMMA KnownType ==
  ASSUME TypeOK, NEW a \in Int
  PROVE  Known(a) \in Int
  <1>1. total \in Int /\ MaxBlock \in Int
    BY RecPlayerAssumption DEF TypeOK
  <1>. QED
    BY <1>1, ToIntType DEF Known, Lesser

LEMMA ClampType ==
  ASSUME TypeOK, NEW p \in Nat, NEW a \in Int
  PROVE  Clamp(p, a) \in Int
  <1>1. total - p \in Int
    BY DEF TypeOK
  <1>. QED
    BY <1>1, KnownType, ToIntType DEF Clamp

LEMMA NoBlockType == NoBlock \in BlockRanges
  BY DEF NoBlock, Bytes, BlockRanges

LEMMA InitInv == Init => PlayerInv
  <1>. SUFFICES ASSUME Init PROVE PlayerInv
    OBVIOUS
  <1>0. Len(files) = 0 /\ total = 0 /\ scanned = 0
    BY EmptySeq DEF Init
  <1>a. scanned <= Len(files) /\ total <= IF scanned = 0 THEN 0 ELSE files[scanned].end
    BY <1>0
  <1>b. wanted \in BlockRanges /\ asked \in BlockRanges
    BY NoBlockType DEF Init
  <1>1. TypeOK
    BY <1>a, <1>b, EmptySeq DEF Init, TypeOK
  <1>2. Contiguous /\ SegmentsTile /\ SegmentsFit /\ ReadOn /\ RightBytes
    BY DEF Init, Contiguous, SegmentsTile, SegmentsFit, ReadOn, RightBytes
  <1>. QED
    BY <1>1, <1>2 DEF PlayerInv

-----------------------------------------------------------------------------
(* Steps of VDR: the files change, the player does not.                    *)

LEMMA RecordKeeps == PlayerInv /\ Record => PlayerInv'
  <1>. SUFFICES ASSUME PlayerInv, Record PROVE PlayerInv'
    OBVIOUS
  <1>. DEFINE last == Len(files)
  <1>1. /\ files \in Seq(FileRanges) /\ last \in Nat \ {0}
        /\ DOMAIN files = 1 .. last
    BY DEF PlayerInv, TypeOK, Record
  <1>2. files[last] \in [start : Nat, end : Nat]
    BY <1>1, RangeOf DEF FileRanges
  <1>. DEFINE longer == [files[last] EXCEPT !.end = @ + 1]
  <1>3. files' = [files EXCEPT ![last] = longer]
    BY DEF Record
  <1>. HIDE DEF last
  <1>0. longer \in FileRanges
    BY <1>2 DEF FileRanges
  <1>a. longer.start = files[last].start /\ longer.end = files[last].end + 1
    BY <1>2
  <1>b. files'[last] = longer
    BY <1>1, <1>3
  <1>. HIDE DEF longer
  <1>4. /\ files' \in Seq(FileRanges) /\ Len(files') = last
        /\ DOMAIN files' = 1 .. last
    BY <1>0, <1>1, <1>3 DEF last
  <1>5. \A i \in 1 .. last : i # last => files'[i] = files[i]
    BY <1>1, <1>3
  <1>6. files'[last].start = files[last].start
    BY <1>a, <1>b
  <1>7. files'[last].end = files[last].end + 1
    BY <1>a, <1>b
  <1>8. UNCHANGED <<deleted, pc, player, wanted, block, asked, torn, told,
                      failed>>
    BY DEF Record
  <1>10. \A i \in 1 .. last : files[i].start \in Nat /\ files[i].end \in Nat
    BY <1>1, RangeOf DEF last
  <1>c. /\ scanned <= last /\ scanned \in Nat /\ total \in Nat
        /\ total <= IF scanned = 0 THEN 0 ELSE files[scanned].end
    BY DEF PlayerInv, TypeOK, last
  <1>d. total <= IF scanned = 0 THEN 0 ELSE files'[scanned].end
    <2>1. CASE scanned = 0
      BY <1>c, <2>1
    <2>2. CASE scanned # 0
      <3>1. scanned \in 1 .. last
        BY <1>1, <1>c, <2>2
      <3>2. files'[scanned].end = files[scanned].end
              \/ files'[scanned].end = files[scanned].end + 1
        BY <1>5, <1>7, <3>1
      <3>. QED
        BY <1>10, <1>c, <2>2, <3>1, <3>2
    <2>. QED
      BY <2>1, <2>2
  <1>9. TypeOK'
    BY <1>4, <1>8, <1>c, <1>d DEF PlayerInv, TypeOK, player
  <1>11. Contiguous'
    <2>1. /\ \A i \in 1 .. last : files[i].start <= files[i].end
          /\ \A i \in 1 .. last : i > 1 => files[i].start = files[i - 1].end
          /\ files[1].start = 0
      BY <1>1 DEF PlayerInv, Contiguous, last
    <2>2. \A i \in 1 .. last : files'[i].start = files[i].start
      BY <1>5, <1>6
    <2>3. \A i \in 1 .. last : files'[i].start <= files'[i].end
      BY <1>5, <1>7, <1>10, <2>1, <2>2
    <2>4. \A i \in 1 .. last : i > 1 => i - 1 \in 1 .. last /\ i - 1 # last
      BY <1>1 DEF last
    <2>5. \A i \in 1 .. last : i > 1 => files'[i].start = files'[i - 1].end
      BY <1>5, <2>1, <2>2, <2>4
    <2>6. files'[1].start = 0
      BY <1>1, <2>1, <2>2 DEF last
    <2>. QED
      BY <1>4, <2>3, <2>5, <2>6 DEF Contiguous
  <1>12. SegmentsTile'
    BY <1>4, <1>8 DEF PlayerInv, SegmentsTile, player, last
  <1>13. ~torn' => SegmentsFit'
    <2>. SUFFICES ASSUME ~torn, NEW i \in DOMAIN segments
                  PROVE  /\ segments[i].start = files'[i].start
                         /\ pc = "scan" /\ i < last => segments[i].end = files'[i].end
      BY <1>4, <1>8 DEF SegmentsFit, player
    <2>1. i \in 1 .. last /\ last = Len(files)
      BY <1>1 DEF PlayerInv, TypeOK, SegmentsTile, last
    <2>2. /\ segments[i].start = files[i].start
          /\ pc = "scan" /\ i < last => segments[i].end = files[i].end
      BY <2>1 DEF PlayerInv, SegmentsFit
    <2>. QED
      BY <1>5, <1>6, <2>1, <2>2
  <1>14. ReadOn' /\ RightBytes'
    BY <1>8 DEF PlayerInv, ReadOn, RightBytes
  <1>. QED
    BY <1>9, <1>11, <1>12, <1>13, <1>14 DEF PlayerInv

LEMMA NextFileKeeps == PlayerInv /\ NextFile => PlayerInv'
  <1>. SUFFICES ASSUME PlayerInv, NextFile PROVE PlayerInv'
    OBVIOUS
  <1>. DEFINE end == IF files = <<>> THEN 0 ELSE files[Len(files)].end
  <1>1. /\ files \in Seq(FileRanges) /\ Len(files) \in Nat
        /\ DOMAIN files = 1 .. Len(files)
    BY DEF PlayerInv, TypeOK
  <1>2. end \in Nat
    <2>1. CASE files = <<>>
      BY <2>1
    <2>2. CASE files # <<>>
      <3>1. Len(files) \in 1 .. Len(files)
        BY <1>1, <2>2
      <3>. QED
        BY <1>1, <2>2, <3>1, RangeOf
    <2>. QED
      BY <2>1, <2>2
  <1>3. files' = Append(files, [start |-> end, end |-> end])
    BY DEF NextFile
  <1>4. /\ files' \in Seq(FileRanges) /\ Len(files') = Len(files) + 1
        /\ DOMAIN files' = 1 .. Len(files) + 1
        /\ \A i \in 1 .. Len(files) : files'[i] = files[i]
        /\ files'[Len(files) + 1] = [start |-> end, end |-> end]
    BY <1>1, <1>2, <1>3 DEF FileRanges
  <1>5. /\ UNCHANGED <<deleted, pc, player, wanted, block, asked, told, failed>>
        /\ torn' = (torn \/ pc = "scan")
    BY DEF NextFile
  <1>a. /\ scanned <= Len(files) /\ scanned \in Nat
        /\ total <= IF scanned = 0 THEN 0 ELSE files[scanned].end
    BY DEF PlayerInv, TypeOK
  <1>b. total <= IF scanned = 0 THEN 0 ELSE files'[scanned].end
    BY <1>1, <1>4, <1>a
  <1>6. TypeOK'
    BY <1>1, <1>4, <1>5, <1>a, <1>b DEF PlayerInv, TypeOK, player
  <1>7. Contiguous'
    BY <1>1, <1>2, <1>4 DEF PlayerInv, Contiguous
  <1>8. SegmentsTile'
    BY <1>1, <1>4, <1>5 DEF PlayerInv, SegmentsTile, player
  <1>9. ~torn' => SegmentsFit'
    <2>. SUFFICES ASSUME ~torn', NEW i \in DOMAIN segments
                  PROVE  segments[i].start = files'[i].start /\ pc' # "scan"
      BY <1>5 DEF SegmentsFit, player
    <2>1. pc # "scan" /\ ~torn
      BY <1>5
    <2>2. i \in 1 .. Len(files)
      BY <1>1 DEF PlayerInv, TypeOK, SegmentsTile
    <2>. QED
      BY <1>4, <1>5, <2>1, <2>2 DEF PlayerInv, SegmentsFit
  <1>10. ReadOn' /\ RightBytes'
    BY <1>5 DEF PlayerInv, ReadOn, RightBytes
  <1>. QED
    BY <1>6, <1>7, <1>8, <1>9, <1>10 DEF PlayerInv

-----------------------------------------------------------------------------
(* Steps of the player: the files stay.                                    *)

\* Only pc, told, failed, deleted or fileOpen changes, and no scan or read begins.
LEMMA Rests ==
  ASSUME PlayerInv, UNCHANGED <<files, segments, total, scanned, wanted, block,
                                asked, torn>>,
         pc' \in {"closed", "open", "scan", "read"}, pc' # pc => pc' = "open",
         deleted' \in BOOLEAN, fileOpen' \in Nat, told' \in Nat,
         failed' \in BOOLEAN
  PROVE  PlayerInv'
  BY DEF PlayerInv, TypeOK, Contiguous, SegmentsTile, SegmentsFit, ReadOn,
         RightBytes

\* A scan begins or the player is closed.
LEMMA Forgets ==
  ASSUME PlayerInv, files' = files, deleted' = deleted,
         pc' \in {"closed", "scan"},
         segments' = <<>>, total' = 0, scanned' = 0,
         torn' = FALSE, wanted' = NoBlock, block' = <<>>, asked' = NoBlock,
         fileOpen' \in Nat, told' \in Nat, failed' \in BOOLEAN
  PROVE  PlayerInv'
  <1>0. Len(files') \in Nat
    BY DEF PlayerInv, TypeOK
  <1>a. scanned' <= Len(files') /\ total' <= IF scanned' = 0 THEN 0 ELSE files'[scanned'].end
    BY <1>0
  <1>b. wanted' \in BlockRanges /\ asked' \in BlockRanges
    BY NoBlockType
  <1>1. TypeOK'
    BY <1>a, <1>b, EmptySeq DEF PlayerInv, TypeOK
  <1>2. Contiguous' /\ SegmentsTile' /\ SegmentsFit' /\ ReadOn' /\ RightBytes'
    BY DEF PlayerInv, TypeOK, Contiguous, SegmentsTile, SegmentsFit, ReadOn,
           RightBytes
  <1>. QED
    BY <1>1, <1>2 DEF PlayerInv

LEMMA ScanFileKeeps == PlayerInv /\ ScanFile => PlayerInv'
  <1>. SUFFICES ASSUME PlayerInv, ScanFile PROVE PlayerInv'
    OBVIOUS
  <1>. DEFINE n == scanned + 1
              seg == [start |-> total, end |-> total + Length(files[n])]
  <1>1. /\ files \in Seq(FileRanges) /\ segments \in Seq(FileRanges)
        /\ scanned \in Nat /\ total \in Nat
        /\ Len(segments) = scanned /\ n \in 1 .. Len(files)
    BY DEF PlayerInv, TypeOK, SegmentsTile, ScanFile
  <1>2. /\ files[n] \in [start : Nat, end : Nat]
        /\ files[n].start <= files[n].end
    BY <1>1, RangeOf DEF FileRanges, PlayerInv, Contiguous
  <1>3. Length(files[n]) \in Nat
    BY <1>2 DEF Length
  <1>4. /\ segments' = Append(segments, seg) /\ total' = total + Length(files[n])
        /\ scanned' = n /\ pc = "scan" /\ pc' = "scan"
        /\ UNCHANGED <<files, deleted, fileOpen, wanted, block, asked, torn, told,
                      failed>>
    BY DEF ScanFile, disk
  <1>5. seg \in FileRanges
    BY <1>1, <1>3 DEF FileRanges
  <1>6. /\ segments' \in Seq(FileRanges) /\ Len(segments') = n
        /\ \A i \in 1 .. scanned : segments'[i] = segments[i]
        /\ segments'[n] = seg
    BY <1>1, <1>4, <1>5
  <1>a. total' <= files[n].end
    <2>1. CASE scanned = 0
      <3>1. total = 0 /\ files[n].start = 0
        BY <1>1, <2>1 DEF PlayerInv, TypeOK, Contiguous
      <3>. QED
        BY <1>2, <1>4, <3>1 DEF Length
    <2>2. CASE scanned # 0
      <3>1. total <= files[scanned].end /\ scanned \in 1 .. Len(files)
        BY <1>1, <2>2 DEF PlayerInv, TypeOK
      <3>2. files[n].start = files[scanned].end
        BY <1>1, <2>2 DEF PlayerInv, Contiguous
      <3>. QED
        BY <1>1, <1>2, <1>4, <3>1, <3>2 DEF Length
    <2>. QED
      BY <2>1, <2>2
  <1>7. TypeOK'
    BY <1>1, <1>3, <1>4, <1>6, <1>a DEF PlayerInv, TypeOK
  <1>8. SegmentsTile'
    BY <1>1, <1>4, <1>6 DEF SegmentsTile
  <1>9. ~torn => files[n].start = total
    <2>1. CASE scanned = 0
      BY <1>1, <2>1 DEF PlayerInv, Contiguous, SegmentsTile
    <2>2. CASE scanned # 0
      <3>1. total = segments[scanned].end
        BY <2>2 DEF PlayerInv, SegmentsTile
      <3>2. ~torn => segments[scanned].end = files[scanned].end
        BY <1>1, <1>4, <2>2 DEF PlayerInv, SegmentsFit
      <3>3. files[n].start = files[scanned].end
        BY <1>1, <2>2 DEF PlayerInv, Contiguous
      <3>. QED
        BY <3>1, <3>2, <3>3
    <2>. QED
      BY <2>1, <2>2
  <1>10. ~torn => seg.start = files[n].start /\ seg.end = files[n].end
    BY <1>1, <1>2, <1>9 DEF Length
  <1>11. ~torn' => SegmentsFit'
    BY <1>1, <1>4, <1>6, <1>10 DEF PlayerInv, SegmentsFit
  <1>12. Contiguous' /\ ReadOn' /\ RightBytes'
    BY <1>4 DEF PlayerInv, Contiguous, ReadOn, RightBytes
  <1>. QED
    BY <1>7, <1>8, <1>11, <1>12 DEF PlayerInv

LEMMA GetBlockKeeps ==
  ASSUME PlayerInv, NEW p \in Nat, NEW a \in Nat, GetBlock(p, a)
  PROVE  PlayerInv'
  <1>1. Clamp(p, ToInt(a)) \in Int
    BY ClampType, ToIntType DEF PlayerInv
  <1>2. /\ pc' = "read" /\ pc = "open" /\ block' = <<>>
        /\ asked' = [position |-> p, amount |-> a] /\ failed' = FALSE
        /\ wanted' = [position |-> p, amount |-> Clamp(p, ToInt(a))]
        /\ UNCHANGED <<files, deleted, segments, total, fileOpen, scanned, torn, told>>
    BY DEF GetBlock, disk, player, Bytes
  <1>a. asked' \in BlockRanges /\ wanted' \in BlockRanges
    BY <1>1, <1>2 DEF BlockRanges
  <1>b. block' \in Seq(Nat) /\ failed' \in BOOLEAN
    BY <1>2, EmptySeq
  <1>3. TypeOK'
    BY <1>2, <1>a, <1>b DEF PlayerInv, TypeOK
  <1>. QED
    BY <1>2, <1>3 DEF PlayerInv, Contiguous, SegmentsTile, SegmentsFit, ReadOn,
                      RightBytes

LEMMA ReadBytesKeeps == PlayerInv /\ ReadBytes => PlayerInv'
  <1>. SUFFICES ASSUME PlayerInv, ReadBytes PROVE PlayerInv'
    OBVIOUS
  <1>1. PICK i \in Segment(wanted.position) :
          /\ fileOpen' = i
          /\ \E n \in 1 .. wanted.amount :
               /\ wanted.position - segments[i].start + n <= Length(files[i])
               /\ block' = block \o
                    [k \in 1 .. n |-> files[i].start
                       + (wanted.position - segments[i].start) + k - 1]
               /\ wanted' = Bytes(wanted.position + n,
                                  Clamp(wanted.position + n, wanted.amount - n))
    BY DEF ReadBytes
  <1>. DEFINE offset == wanted.position - segments[i].start
  <1>2. PICK n \in 1 .. wanted.amount :
          /\ block' = block \o
               [k \in 1 .. n |-> files[i].start + offset + k - 1]
          /\ wanted' = Bytes(wanted.position + n,
                             Clamp(wanted.position + n, wanted.amount - n))
    BY <1>1
  <1>. DEFINE read == [k \in 1 .. n |-> files[i].start + offset + k - 1]
  <1>3. /\ pc = "read" /\ pc' = "read"
        /\ UNCHANGED <<files, deleted, segments, total, scanned, asked, torn, told,
                      failed>>
    BY DEF ReadBytes, disk
  <1>4. /\ wanted \in [position : Nat, amount : Int]
        /\ asked \in [position : Nat, amount : Int]
        /\ block \in Seq(Nat) /\ n \in Nat
        /\ files \in Seq(FileRanges) /\ segments \in Seq(FileRanges)
    BY DEF PlayerInv, TypeOK, BlockRanges
  <1>5. /\ i \in 1 .. Len(segments) /\ i \in 1 .. Len(files)
        /\ wanted.position >= segments[i].start
    BY <1>4 DEF Segment, PlayerInv, TypeOK, SegmentsTile
  <1>6. files[i].start \in Nat /\ segments[i].start \in Nat
    BY <1>4, <1>5, RangeOf
  <1>0. /\ wanted.position \in Nat /\ wanted.amount \in Int
        /\ asked.position \in Nat
    BY <1>4
  <1>7. offset \in Nat
    BY <1>0, <1>5, <1>6
  <1>. HIDE DEF offset
  <1>8. /\ read \in Seq(Nat) /\ Len(read) = n
        /\ \A k \in 1 .. n : read[k] = files[i].start + offset + k - 1
    <2>1. \A k \in 1 .. n : files[i].start + offset + k - 1 \in Nat
      BY <1>0, <1>6, <1>7
    <2>. QED
      BY <1>4, <2>1
  <1>a. block' = block \o read
    BY <1>2
  <1>. HIDE DEF read
  <1>9. /\ block' \in Seq(Nat) /\ Len(block') = Len(block) + n
        /\ \A j \in 1 .. Len(block) : block'[j] = block[j]
        /\ \A j \in Len(block) + 1 .. Len(block) + n :
             block'[j] = read[j - Len(block)]
    <2>1. /\ block \o read \in Seq(Nat)
          /\ Len(block \o read) = Len(block) + Len(read)
          /\ \A j \in 1 .. Len(block) + Len(read) : (block \o read)[j] =
                IF j <= Len(block) THEN block[j] ELSE read[j - Len(block)]
      BY <1>4, <1>8, ConcatProperties
    <2>2. Len(block) \in Nat /\ Len(read) = n
      BY <1>4, <1>8
    <2>. QED
      BY <1>4, <1>a, <2>1, <2>2
  <1>10. Clamp(wanted.position + n, wanted.amount - n) \in Int
    <2>1. wanted.position + n \in Nat /\ wanted.amount - n \in Int
      BY <1>0
    <2>. QED
      BY <2>1, ClampType DEF PlayerInv
  <1>11. /\ wanted' \in BlockRanges
         /\ wanted'.position = wanted.position + n
    BY <1>2, <1>4, <1>10 DEF Bytes, BlockRanges
  <1>12. fileOpen' \in Nat
    BY <1>1, <1>5
  <1>13. TypeOK'
    BY <1>3, <1>9, <1>11, <1>12 DEF PlayerInv, TypeOK
  <1>14. wanted.position = asked.position + Len(block)
    BY <1>3 DEF PlayerInv, ReadOn
  <1>15. ReadOn'
    BY <1>3, <1>4, <1>9, <1>11, <1>14 DEF ReadOn
  <1>16. ~torn => files[i].start + offset = wanted.position
    BY <1>4, <1>5, <1>6 DEF PlayerInv, SegmentsFit, offset
  <1>17. RightBytes'
    <2>. SUFFICES ASSUME ~torn, NEW j \in 1 .. Len(block) + n
                  PROVE  block'[j] = asked.position + j - 1
      BY <1>3, <1>4, <1>9 DEF RightBytes
    <2>1. CASE j \in 1 .. Len(block)
      <3>1. block[j] = asked.position + j - 1
        BY <1>4, <2>1 DEF PlayerInv, RightBytes
      <3>. QED
        BY <1>9, <2>1, <3>1
    <2>2. CASE j \in Len(block) + 1 .. Len(block) + n
      <3>1. j - Len(block) \in 1 .. n
        BY <1>4, <2>2
      <3>2. block'[j] = wanted.position + (j - Len(block)) - 1
        BY <1>0, <1>4, <1>6, <1>7, <1>8, <1>9, <1>16, <2>2, <3>1
      <3>. QED
        BY <1>0, <1>4, <1>14, <2>2, <3>2
    <2>. QED
      BY <1>4, <2>1, <2>2
  <1>18. Contiguous' /\ SegmentsTile' /\ (~torn' => SegmentsFit')
    BY <1>3 DEF PlayerInv, Contiguous, SegmentsTile, SegmentsFit
  <1>. QED
    BY <1>13, <1>15, <1>17, <1>18 DEF PlayerInv

-----------------------------------------------------------------------------
LEMMA StepInv == PlayerInv /\ [Next]_vars => PlayerInv'
  <1>. SUFFICES ASSUME PlayerInv, [Next]_vars PROVE PlayerInv'
    OBVIOUS
  <1>0. /\ fileOpen \in Nat /\ told \in Nat /\ total \in Nat /\ deleted \in BOOLEAN
        /\ failed \in BOOLEAN
        /\ pc \in {"closed", "open", "scan", "read"}
        /\ segments \in Seq(FileRanges)
    BY DEF PlayerInv, TypeOK
  <1>1. CASE UNCHANGED vars
    BY <1>0, <1>1, Rests DEF vars, disk, player
  <1>2. CASE Record
    BY <1>2, RecordKeeps
  <1>3. CASE NextFile
    BY <1>3, NextFileKeeps
  <1>4. CASE Delete
    BY <1>0, <1>4, Rests DEF Delete, player
  <1>5. CASE Open
    BY <1>5, Forgets DEF Open, StartScan, disk
  <1>6. CASE Update
    BY <1>0, <1>6, Forgets DEF Update, StartScan, disk
  <1>7. CASE ScanFile
    BY <1>7, ScanFileKeeps
  <1>8. CASE ScanEnd
    BY <1>0, <1>8, Rests DEF ScanEnd, disk, player
  <1>9. CASE Close
    BY <1>9, Forgets DEF Close, disk
  <1>10. CASE \E p \in 0 .. MaxLength, a \in 1 .. MaxAmount : GetBlock(p, a)
    BY <1>10, GetBlockKeeps, RecPlayerAssumption
  <1>11. CASE ReadBytes
    BY <1>11, ReadBytesKeeps
  <1>12. CASE BlockDone
    BY <1>0, <1>12, Rests DEF BlockDone, disk, player
  <1>13. CASE BlockCut
    <2>1. fileOpen' \in Nat
      BY <1>0, <1>13 DEF BlockCut, Segment
    <2>. QED
      BY <1>0, <1>13, <2>1, Rests DEF BlockCut, disk
  <1>14. CASE ReadFails
    <2>1. fileOpen' \in Nat
      BY <1>0, <1>14 DEF ReadFails, Segment
    <2>. QED
      BY <1>0, <1>14, <2>1, Rests DEF ReadFails, disk
  <1>. QED
    BY <1>1, <1>2, <1>3, <1>4, <1>5, <1>6, <1>7, <1>8, <1>9, <1>10, <1>11,
       <1>12, <1>13, <1>14 DEF Next, Player, VDR

LEMMA AlwaysPlayerInv == Spec => []PlayerInv
  BY InitInv, StepInv, PTL DEF Spec

(* The variables of the player keep their types, and scan                  *)
(* (recplayer.c:77-104) finds no byte that VDR has not written, TypeOK.    *)
THEOREM TypeCorrect == Spec => []TypeOK
  <1>1. PlayerInv => TypeOK
    BY DEF PlayerInv
  <1>. QED
    BY <1>1, AlwaysPlayerInv, PTL

(* A client gets the bytes it asked for, RightBytes, whatever the sizes of *)
(* the files, the block and the request, also when its amount does not fit *)
(* into an int, and whatever VDR records between two stats or two reads    *)
(* (recplayer.c:77-104 and 159-231), unless it starts a file while the     *)
(* scan runs.                                                              *)
THEOREM AlwaysRightBytes == Spec => []RightBytes
  <1>1. PlayerInv => RightBytes
    BY DEF PlayerInv
  <1>. QED
    BY <1>1, AlwaysPlayerInv, PTL

-----------------------------------------------------------------------------
(* Full blocks.  A file never gets shorter, so a scan, a disturbed one     *)
(* too, tells of no byte that is not there: the segments leave no position *)
(* out and none is longer than its file.  With that getBlock can only stop *)
(* short of the clamped amount if a call fails.                            *)

Covered ==
  /\ \A p \in 0 .. total : p < total => Segment(p) # {}
  /\ \A i \in DOMAIN segments :
       segments[i].end <= segments[i].start + Length(files[i])

\* What was read and what is still wanted are what is due.
Progress ==
  /\ pc = "scan" => asked = NoBlock /\ block = <<>>
  /\ asked.amount >= 0
  /\ (pc = "read" /\ asked.amount < IntLimit) =>
       /\ wanted.amount >= 0
       /\ Len(block) + wanted.amount = Due(asked.position, asked.amount)
       /\ wanted.amount > 0 =>
            wanted.amount <= MaxBlock /\ wanted.position + wanted.amount <= total

FullInv == PlayerInv /\ Covered /\ Progress /\ FullBlock

\* An amount that an int can hold is cut to what is due.
LEMMA ClampDue ==
  ASSUME TypeOK, NEW p \in Nat, NEW a \in Nat, a < IntLimit
  PROVE  /\ Clamp(p, a) = Due(p, a) /\ Due(p, a) \in Nat
         /\ Due(p, a) > 0 => Due(p, a) <= MaxBlock /\ p + Due(p, a) <= total
  <1>1. /\ total \in Nat /\ MaxBlock \in Nat /\ MaxBlock < IntLimit
        /\ IntLimit \in Nat
    BY RecPlayerAssumption DEF TypeOK
  <1>2. CASE p >= total
    BY <1>1, <1>2 DEF Clamp, Due
  <1>3. CASE p < total
    <2>1. /\ Lesser(a, MaxBlock) \in Nat /\ Lesser(a, MaxBlock) < IntLimit
          /\ Lesser(a, MaxBlock) <= MaxBlock
      BY <1>1 DEF Lesser
    <2>. DEFINE limited == Lesser(a, MaxBlock)
    <2>. HIDE DEF limited
    <2>2. Known(a) = IF limited <= total THEN limited ELSE ToInt(total)
      BY <1>1, <2>1 DEF Known, limited
    <2>3. total < limited => ToInt(total) = total
      BY <1>1, <2>1, ToIntSame DEF limited
    <2>4. Known(a) = IF limited <= total THEN limited ELSE total
      BY <1>1, <2>1, <2>2, <2>3 DEF limited
    <2>5. total - p < limited => ToInt(total - p) = total - p
      BY <1>1, <1>3, <2>1, ToIntSame DEF limited
    <2>6. Clamp(p, a) = IF limited <= total - p THEN limited ELSE total - p
      BY <1>1, <1>3, <2>1, <2>4, <2>5 DEF Clamp, limited
    <2>7. Due(p, a) = IF limited < total - p THEN limited ELSE total - p
      BY <1>1, <1>3, <2>1 DEF Due, Lesser, limited
    <2>. QED
      BY <1>1, <1>3, <2>1, <2>6, <2>7 DEF limited
  <1>. QED
    BY <1>1, <1>2, <1>3

\* When getBlock calls itself for the rest it is not cut again.
LEMMA ClampRest ==
  ASSUME TypeOK, NEW p \in Nat, NEW a \in Nat, NEW n \in 1 .. a,
         a <= MaxBlock, p + a <= total
  PROVE  Clamp(p + n, a - n) = a - n
  <1>1. /\ total \in Nat /\ MaxBlock \in Nat /\ MaxBlock < IntLimit
        /\ IntLimit \in Nat /\ a - n \in Nat /\ p + n \in Nat
        /\ a - n < IntLimit
    BY RecPlayerAssumption DEF TypeOK
  <1>2. Clamp(p + n, a - n) = Due(p + n, a - n)
    BY <1>1, ClampDue
  <1>. QED
    BY <1>1, <1>2 DEF Due, Lesser

LEMMA NothingDue == TypeOK => Due(0, 0) = 0
  BY RecPlayerAssumption DEF Due, Lesser, TypeOK

\* The segments stay as they are, and no file gets shorter.
LEMMA StaysCovered ==
  ASSUME PlayerInv, Covered, UNCHANGED <<segments, total>>,
         \A i \in DOMAIN segments : Length(files[i]) <= Length(files'[i]),
         \A i \in DOMAIN segments : Length(files[i]) \in Nat,
         \A i \in DOMAIN segments : Length(files'[i]) \in Nat
  PROVE  Covered'
  <1>1. \A p \in 0 .. total' : p < total' => Segment(p)' # {}
    BY DEF Covered, Segment
  <1>2. \A i \in DOMAIN segments' :
          segments'[i].end <= segments'[i].start + Length(files'[i])
    <2>. SUFFICES ASSUME NEW i \in DOMAIN segments
                  PROVE  segments[i].end <= segments[i].start + Length(files'[i])
      OBVIOUS
    <2>1. i \in 1 .. Len(segments) /\ segments \in Seq(FileRanges)
      BY DEF PlayerInv, TypeOK
    <2>2. segments[i].start \in Nat /\ segments[i].end \in Nat
      BY <2>1, RangeOf
    <2>3. segments[i].end <= segments[i].start + Length(files[i])
      BY DEF Covered
    <2>. QED
      BY <2>2, <2>3
  <1>. QED
    BY <1>1, <1>2 DEF Covered, Length

\* A file's length is a natural number.
LEMMA LengthType ==
  ASSUME PlayerInv, NEW i \in 1 .. Len(files)
  PROVE  Length(files[i]) \in Nat
  <1>1. files \in Seq(FileRanges) /\ files[i].start <= files[i].end
    BY DEF PlayerInv, TypeOK, Contiguous
  <1>2. files[i].start \in Nat /\ files[i].end \in Nat
    BY <1>1, RangeOf
  <1>. QED
    BY <1>1, <1>2 DEF Length

\* Nothing the invariant is about changes, and no file gets shorter.
LEMMA StaysFull ==
  ASSUME FullInv,
         UNCHANGED <<segments, total, pc, wanted, block, asked>>,
         deleted => deleted', failed' = failed,
         \A i \in DOMAIN segments : Length(files[i]) <= Length(files'[i]),
         \A i \in DOMAIN segments : Length(files'[i]) \in Nat
  PROVE  Covered' /\ Progress' /\ FullBlock'
  <1>1. \A i \in DOMAIN segments : Length(files[i]) \in Nat
    <2>. SUFFICES ASSUME NEW i \in DOMAIN segments PROVE Length(files[i]) \in Nat
      OBVIOUS
    <2>1. i \in 1 .. Len(files)
      BY DEF FullInv, PlayerInv, TypeOK, SegmentsTile
    <2>. QED
      BY <2>1, LengthType DEF FullInv
  <1>2. Covered'
    BY <1>1, StaysCovered DEF FullInv
  <1>3. \A p, a : Due(p, a)' = Due(p, a)
    BY DEF Due, Lesser
  <1>4. Progress'
    BY <1>3 DEF FullInv, Progress
  <1>5. FullBlock'
    BY <1>3 DEF FullInv, FullBlock
  <1>. QED
    BY <1>2, <1>4, <1>5

\* The files and the segments stay.
LEMMA KeepsCovered ==
  ASSUME FullInv, UNCHANGED <<files, segments, total>>
  PROVE  Covered' /\ \A p, a : Due(p, a)' = Due(p, a)
  BY DEF FullInv, Covered, Segment, Length, Due, Lesser

\* A scan begins or the player is closed.
LEMMA ForgetsFull ==
  ASSUME pc' \in {"closed", "scan"}, segments' = <<>>, total' = 0,
         block' = <<>>, asked' = NoBlock
  PROVE  Covered' /\ Progress' /\ FullBlock'
  BY DEF Covered, Progress, FullBlock, NoBlock, Bytes

LEMMA InitFull == Init => FullInv
  <1>. SUFFICES ASSUME Init PROVE FullInv
    OBVIOUS
  <1>1. PlayerInv
    BY InitInv
  <1>2. Covered /\ Progress /\ FullBlock
    BY DEF Init, Covered, Progress, FullBlock, NoBlock, Bytes
  <1>. QED
    BY <1>1, <1>2 DEF FullInv

LEMMA RecordFull ==
  ASSUME FullInv, Record PROVE Covered' /\ Progress' /\ FullBlock'
  <1>. DEFINE last == Len(files)
  <1>1. /\ files \in Seq(FileRanges) /\ last \in 1 .. last /\ PlayerInv
        /\ last \in Nat
    BY DEF FullInv, PlayerInv, TypeOK, Record
  <1>2. \A i \in DOMAIN segments : i \in 1 .. last
    BY DEF FullInv, PlayerInv, TypeOK, SegmentsTile
  <1>3. \A i \in 1 .. last :
          /\ files[i] \in [start : Nat, end : Nat]
          /\ Length(files[i]) \in Nat
    BY <1>1, RangeOf, LengthType DEF FileRanges
  <1>4. files' = [files EXCEPT ![last].end = @ + 1]
    BY DEF Record
  <1>5. \A i \in 1 .. last :
          files'[i] = IF i = last THEN [files[i] EXCEPT !.end = @ + 1]
                                  ELSE files[i]
    BY <1>1, <1>4
  <1>. HIDE DEF last
  <1>6. \A i \in 1 .. last :
          Length(files'[i]) = IF i = last THEN Length(files[i]) + 1
                                          ELSE Length(files[i])
    <2>. SUFFICES ASSUME NEW i \in 1 .. last
                  PROVE  Length(files'[i]) = IF i = last THEN Length(files[i]) + 1
                                                         ELSE Length(files[i])
      OBVIOUS
    <2>1. files[i] \in [start : Nat, end : Nat]
      BY <1>3
    <2>2. CASE i = last
      <3>1. /\ files'[i].start = files[i].start
            /\ files'[i].end = files[i].end + 1
        BY <1>5, <2>1, <2>2
      <3>. QED
        BY <2>1, <2>2, <3>1 DEF Length
    <2>3. CASE i # last
      BY <1>5, <2>3
    <2>. QED
      BY <2>2, <2>3
  <1>7. \A i \in DOMAIN segments :
          Length(files[i]) <= Length(files'[i]) /\ Length(files'[i]) \in Nat
    BY <1>2, <1>3, <1>6
  <1>8. /\ UNCHANGED <<segments, total, pc, wanted, block, asked>>
        /\ failed' = failed /\ (deleted => deleted')
    BY DEF Record, player
  <1>. QED
    BY <1>7, <1>8, StaysFull

LEMMA NextFileFull ==
  ASSUME FullInv, NextFile PROVE Covered' /\ Progress' /\ FullBlock'
  <1>1. /\ files \in Seq(FileRanges) /\ PlayerInv
        /\ \A i \in DOMAIN segments : i \in 1 .. Len(files)
    BY DEF FullInv, PlayerInv, TypeOK, SegmentsTile
  <1>2. PICK f : files' = Append(files, f)
    BY DEF NextFile
  <1>3. \A i \in 1 .. Len(files) : files'[i] = files[i]
    BY <1>1, <1>2
  <1>4. \A i \in DOMAIN segments : Length(files[i]) \in Nat
    BY <1>1, LengthType
  <1>5. \A i \in DOMAIN segments :
          Length(files[i]) <= Length(files'[i]) /\ Length(files'[i]) \in Nat
    BY <1>1, <1>3, <1>4
  <1>6. /\ UNCHANGED <<segments, total, pc, wanted, block, asked>>
        /\ failed' = failed /\ (deleted => deleted')
    BY DEF NextFile, player
  <1>. QED
    BY <1>5, <1>6, StaysFull

LEMMA ScanFileFull ==
  ASSUME FullInv, ScanFile PROVE Covered' /\ Progress' /\ FullBlock'
  <1>. DEFINE n == scanned + 1
              seg == [start |-> total, end |-> total + Length(files[n])]
  <1>1. /\ PlayerInv /\ segments \in Seq(FileRanges) /\ total \in Nat
        /\ scanned \in Nat /\ Len(segments) = scanned /\ n \in 1 .. Len(files)
    BY DEF FullInv, PlayerInv, TypeOK, SegmentsTile, ScanFile
  <1>2. Length(files[n]) \in Nat
    BY <1>1, LengthType
  <1>3. /\ segments' = Append(segments, seg) /\ total' = total + Length(files[n])
        /\ pc = "scan" /\ pc' = "scan"
        /\ UNCHANGED <<files, block, asked>>
    BY DEF ScanFile, disk
  <1>4. /\ DOMAIN segments = 1 .. scanned /\ DOMAIN segments' = 1 .. n
        /\ \A i \in 1 .. scanned : segments'[i] = segments[i]
        /\ segments'[n] = seg
    BY <1>1, <1>3
  <1>5. \A p \in 0 .. total' : p < total' => Segment(p)' # {}
    <2>. SUFFICES ASSUME NEW p \in 0 .. total', p < total'
                  PROVE  \E i \in 1 .. n : /\ p >= segments'[i].start
                                           /\ p < segments'[i].end
      BY <1>4 DEF Segment
    <2>1. CASE p < total
      <3>1. PICK i \in Segment(p) : TRUE
        BY <1>1, <1>2, <1>3, <2>1 DEF FullInv, Covered
      <3>2. i \in 1 .. scanned /\ p >= segments[i].start /\ p < segments[i].end
        BY <1>4, <3>1 DEF Segment
      <3>. QED
        BY <1>1, <1>4, <3>2
    <2>2. CASE ~(p < total)
      <3>1. seg.start = total /\ seg.end = total'
        BY <1>3
      <3>2. p >= total /\ p < total'
        BY <1>1, <1>2, <1>3, <2>2
      <3>. QED
        BY <1>1, <1>4, <3>1, <3>2
    <2>. QED
      BY <2>1, <2>2
  <1>6. \A i \in DOMAIN segments' :
          segments'[i].end <= segments'[i].start + Length(files[i])
    <2>. SUFFICES ASSUME NEW i \in 1 .. n
                  PROVE  segments'[i].end <= segments'[i].start + Length(files[i])
      BY <1>4
    <2>1. CASE i = n
      BY <1>1, <1>2, <1>4, <2>1
    <2>2. CASE i # n
      <3>1. i \in 1 .. scanned
        BY <1>1, <2>2
      <3>. QED
        BY <1>4, <3>1 DEF FullInv, Covered
    <2>. QED
      BY <2>1, <2>2
  <1>7. Covered'
    BY <1>3, <1>5, <1>6 DEF Covered, Length
  <1>8. Progress' /\ FullBlock'
    BY <1>3 DEF FullInv, Progress, FullBlock
  <1>. QED
    BY <1>7, <1>8

LEMMA ScanEndFull ==
  ASSUME FullInv, ScanEnd PROVE Covered' /\ Progress' /\ FullBlock'
  <1>1. /\ UNCHANGED <<files, segments, total, block, asked>>
        /\ pc = "scan" /\ pc' = "open"
    BY DEF ScanEnd, disk, player
  <1>2. Covered' /\ \A p, a : Due(p, a)' = Due(p, a)
    BY <1>1, KeepsCovered
  <1>3. block = <<>> /\ asked.position = 0 /\ asked.amount = 0
    BY <1>1 DEF FullInv, Progress, NoBlock, Bytes
  <1>4. Due(0, 0) = 0
    BY NothingDue DEF FullInv, PlayerInv
  <1>5. FullBlock'
    BY <1>1, <1>2, <1>3, <1>4 DEF FullBlock
  <1>6. Progress'
    BY <1>1, <1>3 DEF Progress
  <1>. QED
    BY <1>2, <1>5, <1>6

LEMMA GetBlockFull ==
  ASSUME FullInv, NEW p \in Nat, NEW a \in Nat, GetBlock(p, a)
  PROVE  Covered' /\ Progress' /\ FullBlock'
  <1>1. /\ UNCHANGED <<files, segments, total>> /\ pc' = "read" /\ block' = <<>>
        /\ asked' = [position |-> p, amount |-> a]
        /\ wanted' = [position |-> p, amount |-> Clamp(p, ToInt(a))]
    BY DEF GetBlock, disk, player, Bytes
  <1>2. Covered' /\ \A q, b : Due(q, b)' = Due(q, b)
    BY <1>1, KeepsCovered
  <1>3. a < IntLimit =>
          /\ Clamp(p, ToInt(a)) = Due(p, a) /\ Due(p, a) \in Nat
          /\ Due(p, a) > 0 => Due(p, a) <= MaxBlock /\ p + Due(p, a) <= total
    BY ClampDue, ToIntSame DEF FullInv, PlayerInv
  <1>4. Progress'
    BY <1>1, <1>2, <1>3 DEF Progress
  <1>5. FullBlock'
    BY <1>1 DEF FullBlock
  <1>. QED
    BY <1>2, <1>4, <1>5

LEMMA ReadBytesFull ==
  ASSUME FullInv, ReadBytes PROVE Covered' /\ Progress' /\ FullBlock'
  <1>1. PICK i \in Segment(wanted.position), n \in 1 .. wanted.amount :
          /\ block' = block \o
               [k \in 1 .. n |-> files[i].start
                  + (wanted.position - segments[i].start) + k - 1]
          /\ wanted' = Bytes(wanted.position + n,
                             Clamp(wanted.position + n, wanted.amount - n))
    BY DEF ReadBytes
  <1>. DEFINE read == [k \in 1 .. n |-> files[i].start
                         + (wanted.position - segments[i].start) + k - 1]
  <1>2. /\ UNCHANGED <<files, segments, total, asked>>
        /\ pc = "read" /\ pc' = "read" /\ wanted.amount > 0
    BY DEF ReadBytes, disk
  <1>3. /\ wanted.position \in Nat /\ wanted.amount \in Nat /\ n \in Nat
        /\ block \in Seq(Nat) /\ TypeOK
    BY DEF FullInv, PlayerInv, TypeOK, BlockRanges
  <1>4. block' \in Seq(Nat)
    BY ReadBytesKeeps DEF FullInv, PlayerInv, TypeOK
  <1>5. Len(block') = Len(block) + n
    <2>. DEFINE values == Nat \cup {read[k] : k \in 1 .. n}
    <2>1. block' = block \o read
      BY <1>1
    <2>2. \A k \in 1 .. n : read[k] \in values
      OBVIOUS
    <2>3. read = [k \in 1 .. n |-> read[k]]
      OBVIOUS
    <2>4. Nat \subseteq values
      OBVIOUS
    <2>. HIDE DEF read, values
    <2>5. read \in Seq(values) /\ Len(read) = n
      BY <1>3, <2>2, <2>3
    <2>6. block \in Seq(values)
      BY <1>3, <2>4
    <2>7. Len(block \o read) = Len(block) + Len(read)
      BY <2>5, <2>6, ConcatProperties
    <2>. QED
      BY <2>1, <2>5, <2>7
  <1>6. Covered' /\ \A p, a : Due(p, a)' = Due(p, a)
    BY <1>2, KeepsCovered
  <1>9. asked.amount \in Int
    BY DEF FullInv, PlayerInv, TypeOK, BlockRanges
  <1>7. CASE asked.amount >= IntLimit
    <2>1. asked.amount >= 0 /\ asked' = asked
      BY <1>2 DEF FullInv, Progress
    <2>2. ~(asked.amount < IntLimit)
      BY <1>7, <1>9, RecPlayerAssumption
    <2>. QED
      BY <1>2, <1>6, <2>1, <2>2 DEF Progress, FullBlock
  <1>8. CASE asked.amount < IntLimit
    <2>0. /\ Len(block) + wanted.amount = Due(asked.position, asked.amount)
          /\ wanted.amount <= MaxBlock
          /\ wanted.position + wanted.amount <= total
          /\ asked.amount >= 0
      BY <1>2, <1>8 DEF FullInv, Progress
    <2>1. Clamp(wanted.position + n, wanted.amount - n) = wanted.amount - n
      <3>1. wanted.amount \in Nat
        BY <1>2, <1>3
      <3>. QED
        BY <1>3, <2>0, <3>1, ClampRest
    <2>2. /\ wanted'.position = wanted.position + n
          /\ wanted'.amount = wanted.amount - n
      BY <1>1, <2>1 DEF Bytes
    <2>3. total \in Nat /\ MaxBlock \in Nat
      BY RecPlayerAssumption, <1>3 DEF TypeOK
    <2>4. Due(asked.position, asked.amount)' = Due(asked.position, asked.amount)
      BY <1>2, <1>6
    <2>5. Len(block') + wanted'.amount = Len(block) + wanted.amount
      BY <1>3, <1>5, <2>2
    <2>6. /\ wanted'.amount >= 0 /\ wanted'.amount <= MaxBlock
          /\ wanted'.position + wanted'.amount <= total
      BY <1>3, <2>0, <2>2, <2>3
    <2>7. Progress'
      BY <1>2, <2>0, <2>4, <2>5, <2>6 DEF Progress
    <2>. QED
      BY <1>2, <1>6, <2>7 DEF FullBlock
  <1>. QED
    BY <1>7, <1>8, <1>9, RecPlayerAssumption

LEMMA BlockDoneFull ==
  ASSUME FullInv, BlockDone PROVE Covered' /\ Progress' /\ FullBlock'
  <1>1. /\ UNCHANGED <<files, segments, total, block, asked>>
        /\ pc = "read" /\ pc' = "open" /\ wanted.amount = 0
    BY DEF BlockDone, disk, player
  <1>2. Covered' /\ \A p, a : Due(p, a)' = Due(p, a)
    BY <1>1, KeepsCovered
  <1>3. /\ asked.amount >= 0
        /\ asked.amount < IntLimit =>
             Len(block) + wanted.amount = Due(asked.position, asked.amount)
    BY <1>1 DEF FullInv, Progress
  <1>4. asked.amount < IntLimit => Len(block) = Due(asked.position, asked.amount)
    BY <1>1, <1>3 DEF FullInv, PlayerInv, TypeOK
  <1>5. Due(asked.position, asked.amount)' = Due(asked.position, asked.amount)
    BY <1>1, <1>2
  <1>. QED
    BY <1>1, <1>2, <1>3, <1>4, <1>5 DEF Progress, FullBlock

\* A position that is still wanted lies in a segment, its file is there and
\* is long enough: getBlock is only cut short after a deletion.
LEMMA BlockCutFull ==
  ASSUME FullInv, BlockCut PROVE Covered' /\ Progress' /\ FullBlock'
  <1>1. /\ UNCHANGED <<files, deleted, segments, total, block, asked, failed>>
        /\ pc = "read" /\ pc' = "open" /\ wanted.amount # 0
        /\ asked.amount >= 0
    BY DEF BlockCut, disk, FullInv, Progress
  <1>2. Covered' /\ \A p, a : Due(p, a)' = Due(p, a)
    BY <1>1, KeepsCovered
  <1>3. deleted \/ ~(asked.amount < IntLimit)
    <2>. SUFFICES ASSUME ~deleted, asked.amount < IntLimit PROVE FALSE
      OBVIOUS
    <2>a. wanted.amount >= 0
      BY <1>1 DEF FullInv, Progress
    <2>b. wanted.amount \in Int /\ wanted.position \in Nat /\ total \in Nat
      BY DEF FullInv, PlayerInv, TypeOK, BlockRanges
    <2>c. wanted.amount \in Nat /\ wanted.amount > 0
      BY <1>1, <2>a, <2>b
    <2>1. /\ wanted.position + wanted.amount <= total
          /\ files \in Seq(FileRanges) /\ segments \in Seq(FileRanges)
          /\ Len(segments) <= Len(files)
      BY <1>1, <2>c DEF FullInv, Progress, PlayerInv, TypeOK, SegmentsTile
    <2>2. wanted.position \in 0 .. total /\ wanted.position < total
      BY <2>1, <2>b, <2>c
    <2>3. Segment(wanted.position) # {}
      BY <2>2 DEF FullInv, Covered
    <2>4. PICK i \in Segment(wanted.position) :
            ~Opens(i)
            \/ wanted.position - segments[i].start >= Length(files[i])
      BY <2>3, <2>a, <2>b DEF BlockCut
    <2>5. /\ i \in 1 .. Len(segments) /\ i \in 1 .. Len(files)
          /\ wanted.position >= segments[i].start
          /\ wanted.position < segments[i].end
      BY <2>1, <2>4, <2>b DEF Segment
    <2>6. Opens(i)
      BY <2>5 DEF Opens
    <2>7. segments[i].start \in Nat /\ segments[i].end \in Nat
      BY <2>1, <2>5, RangeOf
    <2>8. Length(files[i]) \in Nat
      BY <2>5, LengthType DEF FullInv
    <2>9. segments[i].end <= segments[i].start + Length(files[i])
      BY <2>1, <2>5 DEF FullInv, Covered
    <2>. QED
      BY <2>4, <2>5, <2>6, <2>7, <2>8, <2>9, <2>b
  <1>. QED
    BY <1>1, <1>2, <1>3 DEF Progress, FullBlock

LEMMA ReadFailsFull ==
  ASSUME FullInv, ReadFails PROVE Covered' /\ Progress' /\ FullBlock'
  <1>1. /\ UNCHANGED <<files, segments, total>>
        /\ pc' = "open" /\ failed' = TRUE
        /\ asked' = asked /\ asked.amount >= 0
    BY DEF ReadFails, disk, FullInv, Progress
  <1>. QED
    BY <1>1, KeepsCovered DEF Progress, FullBlock

LEMMA StepFull == FullInv /\ [Next]_vars => FullInv'
  <1>. SUFFICES ASSUME FullInv, [Next]_vars
                PROVE  Covered' /\ Progress' /\ FullBlock'
    BY StepInv DEF FullInv
  <1>0. /\ \A i \in DOMAIN segments : Length(files[i]) \in Nat
        /\ deleted \in BOOLEAN
    <2>1. \A i \in DOMAIN segments : i \in 1 .. Len(files)
      BY DEF FullInv, PlayerInv, TypeOK, SegmentsTile
    <2>. QED
      BY <2>1, LengthType DEF FullInv, PlayerInv, TypeOK
  <1>1. CASE UNCHANGED vars
    BY <1>0, <1>1, StaysFull DEF vars, disk, player
  <1>2. CASE Record
    BY <1>2, RecordFull
  <1>3. CASE NextFile
    BY <1>3, NextFileFull
  <1>4. CASE Delete
    BY <1>0, <1>4, StaysFull DEF Delete, player
  <1>5. CASE Open
    BY <1>5, ForgetsFull DEF Open, StartScan
  <1>6. CASE Update
    BY <1>6, ForgetsFull DEF Update, StartScan
  <1>7. CASE ScanFile
    BY <1>7, ScanFileFull
  <1>8. CASE ScanEnd
    BY <1>8, ScanEndFull
  <1>9. CASE Close
    BY <1>9, ForgetsFull DEF Close
  <1>10. CASE \E p \in 0 .. MaxLength, a \in 1 .. MaxAmount : GetBlock(p, a)
    BY <1>10, GetBlockFull, RecPlayerAssumption
  <1>11. CASE ReadBytes
    BY <1>11, ReadBytesFull
  <1>12. CASE BlockDone
    BY <1>12, BlockDoneFull
  <1>13. CASE BlockCut
    BY <1>13, BlockCutFull
  <1>14. CASE ReadFails
    BY <1>14, ReadFailsFull
  <1>. QED
    BY <1>1, <1>2, <1>3, <1>4, <1>5, <1>6, <1>7, <1>8, <1>9, <1>10, <1>11,
       <1>12, <1>13, <1>14 DEF Next, Player, VDR

(* A client whose request has an amount that an int can hold gets exactly  *)
(* what is due, FullBlock: the bytes that the last scan and the longest    *)
(* block allow, however short the reads are and however the recording      *)
(* grew, disturbed the scan or moved on to another file in between, unless *)
(* a call fails or the recording is deleted (recplayer.c:77-104, 172-231). *)
THEOREM AlwaysFullBlock == Spec => []FullBlock
  <1>1. FullInv => FullBlock
    BY DEF FullInv
  <1>. QED
    BY <1>1, InitFull, StepFull, PTL DEF Spec
=============================================================================
