---------------------------- MODULE Demuxers_proofs ----------------------------
(***************************************************************************)
(* Theorems about the demuxers of a channel.                               *)
(*                                                                         *)
(* Which there are (Streams), for all tables that may be broadcast: what   *)
(* is kept of a table anywhere has one stream for each PID, each PID that  *)
(* is received has its demuxer, and the file of the cache is whole.        *)
(*                                                                         *)
(* What each of them sends (Parser), for all broadcasts, however long they *)
(* are and however PES packets and TS packets divide them: frames and      *)
(* assembled packets are sent whole, once and in order, with the time      *)
(* stamps they are due at, and after a loss the parser finds its way again.*)
(***************************************************************************)
EXTENDS Streams, Parser, Integers, SequenceTheorems, FiniteSetTheorems, TLAPS

(***************************************************************************)
(* The file.  Between the write and the rename the .bak file is whole.     *)
(***************************************************************************)
FileInv ==
  /\ disk.file.state = "part" => writeFailed
  /\ saving = "written" /\ disk.bak.state = "part" => writeFailed
  /\ DOMAIN disk = {"file", "bak"} /\ writeFailed \in BOOLEAN

LEMMA FileStep == FileInv /\ [Next]_vars => FileInv'
<1> SUFFICES ASSUME FileInv, [Next]_vars PROVE FileInv'
  OBVIOUS
<1>1. ASSUME UNCHANGED files PROVE FileInv'
  BY <1>1 DEF FileInv, files
<1>2. CASE UNCHANGED vars
  BY <1>1, <1>2 DEF vars
<1>3. CASE AirChanges \/ VdrFollows \/ TryChannelSwitch \/ ChannelChange \/ Lose
           \/ Reopen \/ DetachDuringProcess \/ StandsStill
  BY <1>1, <1>3 DEF AirChanges, VdrFollows, TryChannelSwitch, ChannelChange, Lose,
                    Reopen, DetachDuringProcess, StandsStill, SwitchChannel, vars
<1>4. ASSUME NEW p \in Pids, Packet(p) PROVE FileInv'
  BY <1>1, <1>4 DEF Packet
<1>5. CASE PatSection \/ NewVersion \/ PmtSection \/ ChangeStreams
  BY <1>1, <1>5 DEF PatSection, NewVersion, PmtSection, ChangeStreams
<1>6. CASE SaveOpen
  BY <1>6 DEF SaveOpen, FileInv
<1>7. CASE SaveWrite
  <2>1. CASE writeFailed' = TRUE
    BY <1>7, <2>1 DEF SaveWrite, FileInv
  <2>2. CASE /\ disk' = [disk EXCEPT !.bak = [state |-> "whole", item |-> cache]]
             /\ UNCHANGED writeFailed
    <3>1. /\ disk'.bak.state = "whole" /\ disk'.file = disk.file
          /\ DOMAIN disk' = {"file", "bak"}
      BY <2>2 DEF FileInv
    <3> QED
      BY <2>2, <3>1 DEF FileInv
  <2> QED
    BY <1>7, <2>1, <2>2 DEF SaveWrite
<1>8. CASE SaveRename
  BY <1>8 DEF SaveRename, FileInv, NoFile
<1>9. CASE Restart
  BY <1>9 DEF Restart, FileInv
<1> QED
  BY <1>2, <1>3, <1>4, <1>5, <1>6, <1>7, <1>8, <1>9 DEF Next

(* Whenever the process stops, the file of the channel cache is one that   *)
(* was written to its end, or a write had failed: it is written under      *)
(* another name and renamed then (channelcache.c:234).                     *)
THEOREM FileStaysWhole == Spec => []FileIsWhole
<1>1. Init => FileInv
  <2> SUFFICES ASSUME Init PROVE FileInv
    OBVIOUS
  <2>1. disk = [file |-> NoFile, bak |-> NoFile] /\ writeFailed = FALSE
    BY DEF Init
  <2>2. NoFile.state = "none"
    BY DEF NoFile
  <2> QED
    BY <2>1, <2>2 DEF FileInv
<1>2. FileInv /\ [Next]_vars => FileInv'
  BY FileStep
<1>3. FileInv => FileIsWhole
  BY DEF FileInv, FileIsWhole
<1> QED
  BY <1>1, <1>2, <1>3, PTL DEF Spec

-----------------------------------------------------------------------------
(***************************************************************************)
(* A cache of streams as it must be: finite, one stream for a PID, at most *)
(* one picture.                                                            *)
(***************************************************************************)
IsVideo(s) == Content(s.type) = "video"

Good(item) ==
  /\ IsFiniteSet(item)
  /\ \A s \in item : DOMAIN s = Fields /\ s.pid \in Pids /\ s.type \in Types \ {"none"}
  /\ \A s, t \in item : s.pid = t.pid => s = t
  /\ \A s, t \in item : IsVideo(s) /\ IsVideo(t) => s = t

LEMMA GoodNone == Good(NoStreams)
BY FS_EmptySet DEF Good, NoStreams

\* A finite set of things, each with one image, has a finite set of images.
LEMMA FiniteImage ==
  ASSUME NEW A, IsFiniteSet(A), NEW f, DOMAIN f = A, f = [a \in A |-> f[a]]
  PROVE  /\ IsFiniteSet({f[a] : a \in A})
         /\ (\A a, b \in A : f[a] = f[b] => a = b)
              => Cardinality({f[a] : a \in A}) = Cardinality(A)
<1> DEFINE T == {f[a] : a \in A}
<1>1. f \in [A -> T]
  OBVIOUS
<1>2. f \in Surjection(A, T)
  BY <1>1 DEF Surjection
<1>3. /\ IsFiniteSet(T)
      /\ Cardinality(T) = Cardinality(A) <=> f \in Injection(A, T)
  BY <1>2, FS_Surjection
<1>4. (\A a, b \in A : f[a] = f[b] => a = b) => f \in Injection(A, T)
  BY <1>1 DEF Injection, IsInjective
<1> QED
  BY <1>3, <1>4

LEMMA GoodIsItem == ASSUME NEW item, Good(item) PROVE IsItem(item)
<1>1. Cardinality(PidsOf(item)) = Cardinality(item)
  <2> DEFINE f == [s \in item |-> s.pid]
  <2>1. IsFiniteSet(item) /\ (\A a, b \in item : f[a] = f[b] => a = b)
    BY DEF Good
  <2>2. PidsOf(item) = {f[a] : a \in item}
    BY DEF PidsOf
  <2>3. DOMAIN f = item /\ f = [a \in item |-> f[a]]
    OBVIOUS
  <2> HIDE DEF f
  <2>4. Cardinality({f[a] : a \in item}) = Cardinality(item)
    BY <2>1, <2>3, FiniteImage
  <2> QED
    BY <2>2, <2>4
<1>2. Cardinality({s \in item : Content(s.type) = "video"}) <= 1
  <2> DEFINE v == {s \in item : Content(s.type) = "video"}
  <2>1. \A s, t \in v : s = t
    BY DEF Good, IsVideo
  <2>2. CASE v = {}
    BY <2>2, FS_EmptySet
  <2>3. ASSUME NEW s \in v PROVE Cardinality(v) <= 1
    <3>1. v = {s}
      BY <2>1
    <3> HIDE DEF v
    <3> QED
      BY <3>1, FS_Singleton
  <2> QED
    BY <2>2, <2>3
<1> QED
  BY <1>1, <1>2 DEF Good, IsItem

\* What each stream becomes keeps its PID and its kind of content.
LEMMA ImageGood ==
  ASSUME NEW item, Good(item), NEW f, DOMAIN f = item, f = [s \in item |-> f[s]],
         \A s \in item : /\ DOMAIN f[s] = Fields /\ f[s].pid = s.pid
                         /\ f[s].type \in Types \ {"none"}
                         /\ IsVideo(f[s]) <=> IsVideo(s)
  PROVE  Good({f[s] : s \in item}) /\ PidsOf({f[s] : s \in item}) = PidsOf(item)
<1>1. IsFiniteSet({f[s] : s \in item})
  BY FiniteImage DEF Good
<1> QED
  BY <1>1 DEF Good, PidsOf

\* A stream with another type or other information is a stream still.
LEMMA Changed ==
  ASSUME NEW s, DOMAIN s = Fields, NEW x
  PROVE  /\ DOMAIN [s EXCEPT !.info = x] = Fields
         /\ [s EXCEPT !.info = x].pid = s.pid /\ [s EXCEPT !.info = x].type = s.type
         /\ DOMAIN [s EXCEPT !.type = x] = Fields
         /\ [s EXCEPT !.type = x].pid = s.pid /\ [s EXCEPT !.type = x].type = x
BY DEF Fields

\* A table, with the types of the filter or of VDR's channel.
IsTable(l) ==
  /\ \E n \in Nat : DOMAIN l = 1 .. n
  /\ \A i \in DOMAIN l : DOMAIN l[i] = Fields /\ l[i].pid \in 1 .. MaxPid
                          /\ l[i].type \in Types
  /\ \A i, j \in DOMAIN l : l[i].pid = l[j].pid => i = j

LEMMA Tables ==
  ASSUME NEW l \in Lineups PROVE IsTable(AsSeen(l)) /\ IsTable(AsFiled(l))
<1>1. /\ DOMAIN l = 1 .. Len(l) /\ Len(l) \in Nat
      /\ \A i \in DOMAIN l : DOMAIN l[i] = Fields /\ l[i].pid \in 1 .. MaxPid
                              /\ l[i].type \in AirTypes
      /\ \A i, j \in DOMAIN l : l[i].pid = l[j].pid => i = j
  BY StreamsAssumption
<1>2. \A t \in AirTypes : TypeInPmt(t) \in Types /\ TypeInChannel(t) \in Types
  BY DEF AirTypes, Types, TypeInPmt, TypeInChannel
<1>3. ASSUME NEW m, DOMAIN m = DOMAIN l,
             \A i \in DOMAIN l : \E t \in Types : m[i] = [l[i] EXCEPT !.type = t]
      PROVE  IsTable(m)
  <2>1. \A i \in DOMAIN l : /\ DOMAIN m[i] = Fields /\ m[i].pid = l[i].pid
                            /\ m[i].type \in Types
    <3> SUFFICES ASSUME NEW i \in DOMAIN l
                 PROVE  /\ DOMAIN m[i] = Fields /\ m[i].pid = l[i].pid
                        /\ m[i].type \in Types
      OBVIOUS
    <3>1. PICK t \in Types : m[i] = [l[i] EXCEPT !.type = t]
      BY <1>3
    <3>2. DOMAIN l[i] = Fields
      BY <1>1
    <3>3. /\ DOMAIN [l[i] EXCEPT !.type = t] = Fields
          /\ [l[i] EXCEPT !.type = t].pid = l[i].pid
          /\ [l[i] EXCEPT !.type = t].type = t
      BY <3>2, Changed
    <3> QED
      BY <3>1, <3>3
  <2> QED
    BY <1>1, <1>3, <2>1 DEF IsTable
<1>4. /\ DOMAIN AsSeen(l) = DOMAIN l
      /\ \A i \in DOMAIN l : AsSeen(l)[i] = [l[i] EXCEPT !.type = TypeInPmt(l[i].type)]
      /\ DOMAIN AsFiled(l) = DOMAIN l
      /\ \A i \in DOMAIN l : AsFiled(l)[i] = [l[i] EXCEPT !.type = TypeInChannel(l[i].type)]
  BY DEF AsSeen, AsFiled
<1> QED
  BY <1>1, <1>2, <1>3, <1>4

\* The streams of a table that are accepted, each described.
LEMMA TableGood ==
  ASSUME NEW l, IsTable(l), NEW A \in SUBSET Addable(l)
  PROVE  Good({Described(l[i]) : i \in A})
<1> DEFINE f == [i \in A |-> Described(l[i])]
<1>1. PICK n \in Nat : DOMAIN l = 1 .. n
  BY DEF IsTable
<1>2. A \subseteq 1 .. n
  BY <1>1 DEF Addable
<1>3. IsFiniteSet(A)
  <2>1. IsFiniteSet(1 .. n)
    BY <1>1, FS_Interval
  <2> QED
    BY <1>2, <2>1, FS_Subset
<1>4. \A i \in A : /\ DOMAIN f[i] = Fields /\ f[i].pid = l[i].pid
                    /\ f[i].type = l[i].type
  <2> SUFFICES ASSUME NEW i \in A
               PROVE  /\ DOMAIN f[i] = Fields /\ f[i].pid = l[i].pid
                      /\ f[i].type = l[i].type
    OBVIOUS
  <2>1. DOMAIN l[i] = Fields
    BY <1>1, <1>2 DEF IsTable
  <2>2. /\ Described(l[i]).pid = l[i].pid /\ Described(l[i]).type = l[i].type
        /\ DOMAIN Described(l[i]) = Fields
    BY <2>1, Changed DEF Described
  <2>3. f[i] = Described(l[i])
    OBVIOUS
  <2> HIDE DEF f
  <2> QED
    BY <2>2, <2>3
<1>5. DOMAIN f = A /\ f = [i \in A |-> f[i]] /\ {Described(l[i]) : i \in A} = {f[i] : i \in A}
  OBVIOUS
<1> HIDE DEF f
<1>6. IsFiniteSet({f[i] : i \in A})
  BY <1>3, <1>5, FiniteImage
<1>7. \A i, j \in A : IsVideo(f[i]) /\ IsVideo(f[j]) => i = j
  <2> SUFFICES ASSUME NEW i \in A, NEW j \in A, IsVideo(l[i]), IsVideo(l[j])
               PROVE  ~(i < j)
    BY <1>2, <1>4 DEF IsVideo
  <2>1. i < j => i \in 1 .. (j - 1)
    BY <1>2
  <2> QED
    BY <2>1 DEF Addable, IsVideo
<1>8. \A i, j \in A : f[i].pid = f[j].pid => i = j
  BY <1>1, <1>2, <1>4 DEF IsTable
<1>9. \A i \in A : /\ f[i].pid \in Pids /\ f[i].type \in Types \ {"none"}
                    /\ DOMAIN f[i] = Fields
  <2>1. \A i \in A : i \in DOMAIN l /\ l[i].type # "none"
    BY DEF Addable
  <2> QED
    BY <1>4, <2>1 DEF Pids, IsTable
<1> DEFINE g == {f[i] : i \in A}
<1>10. /\ \A s \in g : \E i \in A : s = f[i]
       /\ g = {Described(l[i]) : i \in A}
  BY <1>5
<1>11. IsFiniteSet(g)
  BY <1>6
<1> HIDE DEF g
<1>12. Good(g)
  <2>1. \A s \in g : DOMAIN s = Fields /\ s.pid \in Pids /\ s.type \in Types \ {"none"}
    BY <1>9, <1>10
  <2>2. \A s, t \in g : s.pid = t.pid => s = t
    BY <1>8, <1>10
  <2>3. \A s, t \in g : IsVideo(s) /\ IsVideo(t) => s = t
    BY <1>7, <1>10
  <2> QED
    BY <1>11, <2>1, <2>2, <2>3 DEF Good
<1> QED
  BY <1>10, <1>12

LEMMA ChannelItemGood ==
  ASSUME NEW l \in Lineups PROVE Good(ItemFromChannel(l))
BY Tables, TableGood DEF ItemFromChannel

LEMMA PmtItemGood ==
  ASSUME NEW l \in Lineups PROVE Good(ItemFromPmt(l))
<1> DEFINE A == {i \in Addable(AsSeen(l)) :
                   Cardinality(Addable(AsSeen(l)) \cap 1 .. (i - 1)) < MAXRECEIVEPIDS}
<1>1. ItemFromPmt(l) = {Described(AsSeen(l)[i]) : i \in A}
  BY DEF ItemFromPmt
<1>2. A \in SUBSET Addable(AsSeen(l))
  OBVIOUS
<1> HIDE DEF A
<1> QED
  BY <1>1, <1>2, Tables, TableGood

\* Creating the demuxers anew loses no stream and adds none.
LEMMA CreateGood ==
  ASSUME NEW item, Good(item), NEW ds, Good(ds)
  PROVE  /\ Good(WithReuse(item, ds)) /\ Good(CreateDemuxers(item, ds))
         /\ PidsOf(WithReuse(item, ds)) = PidsOf(item)
         /\ PidsOf(CreateDemuxers(item, ds)) = PidsOf(item)
<1>1. ASSUME NEW s \in item
      PROVE  /\ DOMAIN Reuse(ds, s) = Fields
             /\ Reuse(ds, s).pid = s.pid /\ Reuse(ds, s).type = s.type
  <2>1. CASE \E d \in ds : d.pid = s.pid /\ d.type = s.type
    <3>1. Reuse(ds, s) \in ds /\ Reuse(ds, s).pid = s.pid /\ Reuse(ds, s).type = s.type
      BY <2>1 DEF Reuse
    <3> QED
      BY <3>1 DEF Good
  <2>2. CASE ~\E d \in ds : d.pid = s.pid /\ d.type = s.type
    <3>1. Reuse(ds, s) = s
      BY <2>2 DEF Reuse
    <3> QED
      BY <3>1 DEF Good
  <2> QED
    BY <2>1, <2>2
<1> DEFINE f == [s \in item |-> Reuse(ds, s)]
           r == WithReuse(item, ds)
           g == [s \in r |-> Demuxer(s)]
<1>2. Good(r) /\ PidsOf(r) = PidsOf(item)
  <2>1. r = {f[s] : s \in item}
    BY DEF WithReuse
  <2>2. \A s \in item : /\ DOMAIN f[s] = Fields /\ f[s].pid = s.pid
                        /\ f[s].type \in Types \ {"none"}
                        /\ IsVideo(f[s]) <=> IsVideo(s)
    BY <1>1 DEF Good, IsVideo
  <2>3. DOMAIN f = item /\ f = [s \in item |-> f[s]]
    OBVIOUS
  <2> HIDE DEF f, r
  <2> QED
    BY <2>1, <2>2, <2>3, ImageGood
<1>3. Good(CreateDemuxers(item, ds)) /\ PidsOf(CreateDemuxers(item, ds)) = PidsOf(r)
  <2>1. CreateDemuxers(item, ds) = {g[s] : s \in r}
    BY DEF CreateDemuxers
  <2> HIDE DEF r
  <2>2. ASSUME NEW s \in r
        PROVE  /\ DOMAIN g[s] = Fields /\ g[s].pid = s.pid
               /\ g[s].type \in Types \ {"none"}
               /\ IsVideo(g[s]) <=> IsVideo(s)
    <3>1. DOMAIN s = Fields /\ s.type \in Types \ {"none"}
      BY <1>2 DEF Good
    <3>2. g[s].pid = s.pid /\ g[s].type = s.type /\ DOMAIN g[s] = Fields
      BY <3>1, Changed DEF Demuxer
    <3> QED
      BY <3>1, <3>2 DEF IsVideo
  <2>3. DOMAIN g = r /\ g = [s \in r |-> g[s]]
    OBVIOUS
  <2> HIDE DEF g
  <2> QED
    BY <1>2, <2>1, <2>2, <2>3, ImageGood
<1> QED
  BY <1>2, <1>3

(***************************************************************************)
(* Weights.  The PID, below MaxPid + 1, is the last digit of the weight.   *)
(***************************************************************************)
LEMMA LastDigit ==
  ASSUME NEW k \in Nat, NEW l \in Nat, NEW m \in Nat, NEW q \in 0 .. m, NEW r \in 0 .. m,
         k * (m + 1) + q = l * (m + 1) + r
  PROVE  q = r
<1>1. \A x, y \in Nat : x * y \in Nat
  OBVIOUS
<1>2. \A x, y, z \in Nat : (x + y) * z = x * z + y * z
  OBVIOUS
<1>3. ASSUME NEW a \in Nat, NEW b \in Nat, a < b
      PROVE  a * (m + 1) + (m + 1) <= b * (m + 1)
  <2>1. b - (a + 1) \in Nat
    BY <1>3
  <2>2. PICK d \in Nat : b = (a + 1) + d
    BY <2>1
  <2>3. b * (m + 1) = (a + 1) * (m + 1) + d * (m + 1)
    BY <1>2, <2>2
  <2>4. (a + 1) * (m + 1) = a * (m + 1) + (m + 1)
    OBVIOUS
  <2>5. d * (m + 1) \in Nat /\ a * (m + 1) \in Nat
    BY <1>1
  <2> QED
    BY <2>3, <2>4, <2>5
<1>4. k * (m + 1) \in Nat /\ l * (m + 1) \in Nat
  BY <1>1
<1>5. CASE k < l
  <2>1. k * (m + 1) + (m + 1) <= l * (m + 1)
    BY <1>3, <1>5
  <2> QED
    BY <1>4, <2>1
<1>6. CASE l < k
  <2>1. l * (m + 1) + (m + 1) <= k * (m + 1)
    BY <1>3, <1>6
  <2> QED
    BY <1>4, <2>1
<1>7. CASE k = l
  BY <1>4, <1>7
<1> QED
  BY <1>5, <1>6, <1>7

LEMMA WeightTellsPid ==
  ASSUME NEW s, NEW t, s.pid \in Pids, t.pid \in Pids, Weight(s) = Weight(t)
  PROVE  s.pid = t.pid
<1> DEFINE K(u) == 16 * Bit(Content(u.type) = "video")
                     + 8 * Bit(Content(u.type) = "audio")
                     + 4 * Bit(Content(u.type) = "subtitle")
                     + 2 * Bit(u.lang = LanguageIndex)
                     + Bit(Content(u.type) = "audio" /\ u.type = LangStreamType)
<1>1. \A b : Bit(b) \in Nat
  BY DEF Bit
<1>2. \A a, b, c, d, e \in Nat : 16 * a + 8 * b + 4 * c + 2 * d + e \in Nat
  OBVIOUS
<1>3. K(s) \in Nat /\ K(t) \in Nat
  BY <1>1, <1>2
<1>4. /\ Weight(s) = K(s) * (MaxPid + 1) + (MaxPid - s.pid)
      /\ Weight(t) = K(t) * (MaxPid + 1) + (MaxPid - t.pid)
  BY DEF Weight
<1> HIDE DEF K
<1>5. /\ MaxPid \in Nat
      /\ MaxPid - s.pid \in 0 .. MaxPid /\ MaxPid - t.pid \in 0 .. MaxPid
  BY StreamsAssumption DEF Pids
<1>6. MaxPid - s.pid = MaxPid - t.pid
  BY <1>3, <1>4, <1>5, LastDigit
<1> QED
  BY <1>5, <1>6 DEF Pids

\* Reordering loses no demuxer: no two have the same weight.
LEMMA ReorderKeeps ==
  ASSUME NEW ds, Good(ds)
  PROVE  Reorder(ds) = ds
<1>1. \A d, e \in ds : Weight(d) = Weight(e) => d = e
  BY WeightTellsPid DEF Good
<1>2. \A d \in ds : (CHOOSE e \in ds : Weight(e) = Weight(d)) = d
  BY <1>1
<1>3. Reorder(ds) = {CHOOSE e \in ds : Weight(e) = Weight(d) : d \in ds}
  BY DEF Reorder
<1> QED
  BY <1>2, <1>3

\* Nor does what is learnt of a stream from a packet.
LEMMA PacketGood ==
  ASSUME NEW ds, Good(ds), NEW d \in ds, NEW x,
         NEW new, new = (ds \ {d}) \cup {[d EXCEPT !.info = x]}
  PROVE  Good(new) /\ PidsOf(new) = PidsOf(ds)
<1> DEFINE e == [d EXCEPT !.info = x]
           f == [s \in ds |-> IF s = d THEN e ELSE s]
<1>1. DOMAIN e = Fields /\ e.pid = d.pid /\ e.type = d.type
  BY Changed DEF Good
<1> HIDE DEF e
<1>2. new = {f[s] : s \in ds}
  BY DEF e
<1>3. \A s \in ds : /\ DOMAIN f[s] = Fields /\ f[s].pid = s.pid
                    /\ f[s].type \in Types \ {"none"}
                    /\ IsVideo(f[s]) <=> IsVideo(s)
  <2> SUFFICES ASSUME NEW s \in ds
               PROVE  /\ DOMAIN f[s] = Fields /\ f[s].pid = s.pid
                      /\ f[s].type \in Types \ {"none"}
                      /\ IsVideo(f[s]) <=> IsVideo(s)
    OBVIOUS
  <2>1. DOMAIN s = Fields /\ s.type \in Types \ {"none"}
    BY DEF Good
  <2>2. CASE s = d
    <3>1. f[s] = e
      BY <2>2
    <3> QED
      BY <1>1, <2>1, <2>2, <3>1 DEF IsVideo
  <2>3. CASE s # d
    <3>1. f[s] = s
      BY <2>3
    <3> QED
      BY <2>1, <3>1
  <2> QED
    BY <2>2, <2>3
<1>4. DOMAIN f = ds /\ f = [s \in ds |-> f[s]]
  OBVIOUS
<1> HIDE DEF f
<1> QED
  BY <1>2, <1>3, <1>4, ImageGood

-----------------------------------------------------------------------------
(***************************************************************************)
(* The state.                                                              *)
(***************************************************************************)
AirOK ==
  /\ newVdr \in BOOLEAN /\ reported \in BOOLEAN
  /\ air.table \in Lineups /\ air.version \in 0 .. 31 /\ channel \in Lineups

KnownOK ==
  /\ Good(cache) /\ Good(demuxers) /\ Good(told)
  /\ ready \in BOOLEAN /\ request \in BOOLEAN

FilterOK ==
  /\ DOMAIN filter = {"at", "pid", "version", "known", "seen"}
  /\ filter.at \in {"off", "pat", "pmt", "watch", "change", "locked"}
  /\ Good(filter.known) /\ Good(filter.seen)

ReceiverOK ==
  DOMAIN receiver = {"attached", "pids"} /\ receiver.pids = PidsOf(demuxers)

DiskOK ==
  /\ DOMAIN disk = {"file", "bak"} /\ saving \in {"idle", "open", "written"}
  /\ Good(disk.file.item) /\ Good(disk.bak.item)

StateInv == AirOK /\ KnownOK /\ FilterOK /\ ReceiverOK /\ DiskOK

\* A step that leaves what a part is about alone.
LEMMA PartsKept ==
  /\ AirOK /\ UNCHANGED <<newVdr, stream>> => AirOK'
  /\ KnownOK /\ UNCHANGED <<cache, demuxers, told, ready, request>> => KnownOK'
  /\ FilterOK /\ UNCHANGED filter => FilterOK'
  /\ ReceiverOK /\ UNCHANGED <<receiver, demuxers>> => ReceiverOK'
  /\ DiskOK /\ UNCHANGED files => DiskOK'
BY DEF AirOK, KnownOK, FilterOK, ReceiverOK, DiskOK, stream, files

LEMMA FiltersGood ==
  /\ DOMAIN NoFilter = {"at", "pid", "version", "known", "seen"} /\ NoFilter.at = "off"
  /\ Good(NoFilter.known) /\ Good(NoFilter.seen)
  /\ DOMAIN FreshFilter = {"at", "pid", "version", "known", "seen"} /\ FreshFilter.at = "pat"
  /\ Good(FreshFilter.known) /\ Good(FreshFilter.seen)
<1>1. /\ DOMAIN NoFilter = {"at", "pid", "version", "known", "seen"} /\ NoFilter.at = "off"
      /\ NoFilter.known = NoStreams /\ NoFilter.seen = NoStreams
  BY DEF NoFilter
<1>2. /\ DOMAIN FreshFilter = {"at", "pid", "version", "known", "seen"} /\ FreshFilter.at = "pat"
      /\ FreshFilter.known = NoStreams /\ FreshFilter.seen = NoStreams
  BY <1>1 DEF FreshFilter
<1> QED
  BY <1>1, <1>2, GoodNone

LEMMA ReceiversOK ==
  ASSUME NEW ds
  PROVE  /\ DOMAIN Attached(ds) = {"attached", "pids"} /\ Attached(ds).pids = PidsOf(ds)
         /\ DOMAIN [Attached(ds) EXCEPT !.attached = FALSE] = {"attached", "pids"}
         /\ [Attached(ds) EXCEPT !.attached = FALSE].pids = PidsOf(ds)
BY DEF Attached

LEMMA InitStateInv == Init => StateInv
<1> SUFFICES ASSUME Init PROVE StateInv
  OBVIOUS
<1>1. AirOK
  <2>1. newVdr \in BOOLEAN /\ reported = FALSE /\ channel \in Lineups
    BY StreamsAssumption DEF Init
  <2>2. PICK l \in Lineups : air = [table |-> l, version |-> 0]
    BY DEF Init
  <2>3. air.table = l /\ air.version = 0
    BY <2>2
  <2>4. 0 \in 0 .. 31 /\ FALSE \in BOOLEAN
    OBVIOUS
  <2> QED
    BY <2>1, <2>3, <2>4 DEF AirOK
<1>2. KnownOK
  BY GoodNone DEF Init, KnownOK, NoStreams
<1>3. FilterOK
  BY FiltersGood DEF Init, FilterOK
<1>4. ReceiverOK
  BY DEF Init, ReceiverOK, Unattached, PidsOf
<1>5. DiskOK
  <2>1. disk.file = NoFile /\ disk.bak = NoFile /\ DOMAIN disk = {"file", "bak"}
    BY DEF Init
  <2>2. NoFile.item = NoStreams
    BY DEF NoFile
  <2>3. saving = "idle"
    BY DEF Init
  <2> QED
    BY <2>1, <2>2, <2>3, GoodNone DEF DiskOK
<1> QED
  BY <1>1, <1>2, <1>3, <1>4, <1>5 DEF StateInv

\* A switch of the channel, from whatever the cache and VDR know.
LEMMA SwitchStep ==
  ASSUME StateInv, SwitchChannel
  PROVE  KnownOK' /\ FilterOK' /\ ReceiverOK' /\ DiskOK'
<1>0. DiskOK'
  BY PartsKept DEF SwitchChannel, StateInv
<1>1. CASE NoDevice
  <2>1. UNCHANGED <<cache, demuxers, told, ready, request>> /\ filter' = NoFilter
    BY <1>1 DEF NoDevice, SwitchChannel
  <2>2. DOMAIN receiver' = {"attached", "pids"} /\ receiver'.pids = receiver.pids
    BY <1>1 DEF NoDevice, StateInv, ReceiverOK
  <2>3. KnownOK'
    BY <2>1, PartsKept DEF StateInv
  <2>4. FilterOK'
    BY <2>1, FiltersGood DEF FilterOK
  <2>5. ReceiverOK'
    BY <2>1, <2>2 DEF ReceiverOK, StateInv
  <2> QED
    BY <1>0, <2>3, <2>4, <2>5
<1>2. CASE DeviceTuned
  <2> DEFINE item   == ItemFromChannel(channel)
             cached == IF cache # NoStreams THEN cache ELSE item
             new    == IF IsMetaOf(item, cached) THEN cached ELSE item
             ds     == IF new # NoStreams THEN CreateDemuxers(new, demuxers) ELSE demuxers
  <2>1. Good(item) /\ Good(cache) /\ Good(demuxers) /\ Good(told)
    BY ChannelItemGood DEF StateInv, AirOK, KnownOK
  <2>2. Good(new)
    BY <2>1
  <2>3. Good(ds)
    <3> HIDE DEF new
    <3> QED
      BY <2>1, <2>2, CreateGood
  <2>4. /\ cache' = new /\ demuxers' = ds /\ request' = TRUE
        /\ UNCHANGED <<ready, told>>
        /\ \/ receiver' = Attached(ds) /\ filter' = FreshFilter
           \/ receiver' = [Attached(ds) EXCEPT !.attached = FALSE] /\ filter' = NoFilter
    BY <1>2 DEF DeviceTuned, SwitchChannel
  <2> HIDE DEF new, ds
  <2>5. KnownOK'
    BY <2>1, <2>2, <2>3, <2>4 DEF KnownOK, StateInv
  <2>6. FilterOK'
    BY <2>4, FiltersGood DEF FilterOK
  <2>7. ReceiverOK'
    BY <2>4, ReceiversOK DEF ReceiverOK
  <2> QED
    BY <1>0, <2>5, <2>6, <2>7
<1> QED
  BY <1>1, <1>2 DEF SwitchChannel

\* A packet, which may be the one that ends the parsing.
LEMMA PacketStep ==
  ASSUME StateInv, NEW p \in Pids, Packet(p)
  PROVE  StateInv'
<1>1. PICK d \in demuxers, b \in Broadcast :
        LET got == SetInformation(d, b)
            ds  == (demuxers \ {d}) \cup {[d EXCEPT !.info = got.info]}
            allParsed == ready \/ \A e \in ds : e.info # Unparsed
            starting  == told = {}
        IN /\ ready' = allParsed
           /\ IF /\ allParsed /\ (starting => IsAV(d))
                 /\ request \/ got.changed \/ starting
                THEN /\ cache' = ds
                     /\ demuxers' = Reorder(ds) /\ told' = Reorder(ds)
                     /\ request' = FALSE
                ELSE /\ demuxers' = ds
                     /\ request' = (request \/ got.changed)
                     /\ UNCHANGED <<cache, told>>
           /\ UNCHANGED <<newVdr, stream, filter, receiver, files, losses>>
  BY DEF Packet
<1> DEFINE got == SetInformation(d, b)
           ds  == (demuxers \ {d}) \cup {[d EXCEPT !.info = got.info]}
<1>2. Good(demuxers) /\ Good(cache) /\ Good(told)
  BY DEF StateInv, KnownOK
<1>3. Good(ds) /\ PidsOf(ds) = PidsOf(demuxers)
  <2>1. \A x, new : new = (demuxers \ {d}) \cup {[d EXCEPT !.info = x]}
                     => Good(new) /\ PidsOf(new) = PidsOf(demuxers)
    BY <1>2, PacketGood
  <2> HIDE DEF got
  <2> QED
    BY <2>1
<1>4. Reorder(ds) = ds
  <2> HIDE DEF ds
  <2> QED
    BY <1>3, ReorderKeeps
<1>5. /\ demuxers' = ds
      /\ \/ cache' = ds /\ told' = ds
         \/ UNCHANGED <<cache, told>>
      /\ UNCHANGED <<newVdr, stream, filter, receiver, files>>
  BY <1>1, <1>4
<1>6. ready' \in BOOLEAN /\ request' \in BOOLEAN
  <2>1. request \in BOOLEAN /\ got.changed \in BOOLEAN
    BY DEF StateInv, KnownOK, SetInformation, Believed
  <2> QED
    BY <1>1, <2>1
<1> HIDE DEF ds
<1>7. KnownOK'
  BY <1>2, <1>3, <1>5, <1>6 DEF KnownOK
<1>8. ReceiverOK'
  BY <1>3, <1>5 DEF ReceiverOK, StateInv
<1> QED
  BY <1>5, <1>7, <1>8, PartsKept DEF StateInv

\* The filter changes the streams to those of the table it has seen.
LEMMA ChangeStep ==
  ASSUME StateInv, ChangeStreams
  PROVE  StateInv'
<1> DEFINE item == IF newVdr THEN filter.seen ELSE WithReuse(filter.seen, demuxers)
           ds   == IF newVdr THEN demuxers ELSE CreateDemuxers(filter.seen, demuxers)
<1>1. Good(demuxers) /\ Good(filter.seen) /\ Good(told)
  BY DEF StateInv, KnownOK, FilterOK
<1>2. Good(item) /\ Good(ds)
  BY <1>1, CreateGood
<1>3. /\ filter' = [filter EXCEPT !.at = "watch", !.known = item, !.seen = NoStreams]
      /\ cache' = item /\ demuxers' = ds
      /\ receiver' = IF newVdr THEN receiver ELSE Attached(ds)
      /\ ready' = FALSE /\ request' = TRUE
      /\ UNCHANGED <<newVdr, stream, told, files>>
  BY DEF ChangeStreams
<1>4. newVdr => ds = demuxers
  OBVIOUS
<1> HIDE DEF item, ds
<1>5. KnownOK'
  BY <1>1, <1>2, <1>3 DEF KnownOK
<1>6. FilterOK'
  <2>1. /\ DOMAIN filter' = {"at", "pid", "version", "known", "seen"} /\ filter'.at = "watch"
        /\ filter'.known = item /\ filter'.seen = NoStreams
    BY <1>3 DEF StateInv, FilterOK
  <2> QED
    BY <1>2, <2>1, GoodNone DEF FilterOK
<1>7. ReceiverOK'
  BY <1>3, <1>4, ReceiversOK DEF ReceiverOK, StateInv
<1> QED
  BY <1>3, <1>5, <1>6, <1>7, PartsKept DEF StateInv

\* The filter looks at a table, or the thread that detaches it waits.
LEMMA FilterStep ==
  ASSUME StateInv, PatSection \/ NewVersion \/ PmtSection \/ DetachDuringProcess
  PROVE  StateInv'
<1>1. UNCHANGED <<newVdr, stream, cache, demuxers, receiver, ready, request, told, files>>
  BY DEF PatSection, NewVersion, PmtSection, DetachDuringProcess
<1>2. FilterOK'
  <2>1. CASE PmtSection
    <3> DEFINE known == IF filter.known = NoStreams THEN cache ELSE filter.known
               seen  == ItemFromPmt(air.table)
               at    == IF IsMetaOf(known, seen) THEN "watch" ELSE "change"
    <3>1. Good(known) /\ Good(seen) /\ at \in {"watch", "change"}
      BY PmtItemGood DEF StateInv, AirOK, KnownOK, FilterOK
    <3>2. filter' = [filter EXCEPT !.at = at, !.version = air.version,
                                   !.known = known, !.seen = seen]
      BY <2>1 DEF PmtSection
    <3> HIDE DEF known, seen, at
    <3>3. /\ DOMAIN filter' = DOMAIN filter /\ filter'.at = at
          /\ filter'.known = known /\ filter'.seen = seen
      BY <3>2 DEF StateInv, FilterOK
    <3> QED
      BY <3>1, <3>3 DEF FilterOK, StateInv
  <2>2. ASSUME NEW a \in {"pat", "pmt"}, NEW p,
               filter' = [filter EXCEPT !.at = a, !.pid = p]
        PROVE  FilterOK'
    <3>1. /\ DOMAIN filter' = DOMAIN filter /\ filter'.at = a
          /\ filter'.known = filter.known /\ filter'.seen = filter.seen
      BY <2>2 DEF StateInv, FilterOK
    <3> QED
      BY <3>1 DEF StateInv, FilterOK
  <2>3. CASE DetachDuringProcess
    <3>1. filter' = [filter EXCEPT !.at = "locked"]
      BY <2>3 DEF DetachDuringProcess
    <3>2. /\ DOMAIN filter' = DOMAIN filter /\ filter'.at = "locked"
          /\ filter'.known = filter.known /\ filter'.seen = filter.seen
      BY <3>1 DEF StateInv, FilterOK
    <3> QED
      BY <3>2 DEF StateInv, FilterOK
  <2> QED
    BY <2>1, <2>2, <2>3 DEF PatSection, NewVersion
<1> QED
  BY <1>1, <1>2, PartsKept DEF StateInv

\* The file is written from the cache, and read back.
LEMMA DiskStep ==
  ASSUME StateInv, SaveOpen \/ SaveWrite \/ SaveRename
  PROVE  StateInv'
<1>1. UNCHANGED <<newVdr, stream, cache, filter, demuxers, receiver, ready, request, told>>
  BY DEF SaveOpen, SaveWrite, SaveRename, tuner
<1>2. ASSUME NEW item, Good(item), NEW s,
             disk' = [disk EXCEPT !.bak = [state |-> s, item |-> item]],
             saving' \in {"idle", "open", "written"}
      PROVE  DiskOK'
  <2>1. disk'.file = disk.file /\ disk'.bak.item = item /\ DOMAIN disk' = DOMAIN disk
    BY <1>2 DEF StateInv, DiskOK
  <2> QED
    BY <1>2, <2>1 DEF StateInv, DiskOK
<1>3. DiskOK'
  <2>1. CASE SaveOpen
    BY <1>2, <2>1, GoodNone DEF SaveOpen
  <2>2. CASE SaveWrite
    <3>1. Good(cache) /\ saving' = "written"
      BY <2>2 DEF SaveWrite, StateInv, KnownOK
    <3>2. CASE UNCHANGED disk
      BY <3>1, <3>2 DEF DiskOK, StateInv
    <3>3. CASE disk' = [disk EXCEPT !.bak = [state |-> "whole", item |-> cache]]
      BY <1>2, <3>1, <3>3
    <3> QED
      BY <2>2, <3>2, <3>3 DEF SaveWrite
  <2>3. CASE SaveRename
    <3>1. disk' = [file |-> disk.bak, bak |-> NoFile] /\ saving' = "idle"
      BY <2>3 DEF SaveRename
    <3>2. NoFile.item = NoStreams
      BY DEF NoFile
    <3> QED
      BY <3>1, <3>2, GoodNone DEF DiskOK, StateInv
  <2> QED
    BY <2>1, <2>2, <2>3
<1> QED
  BY <1>1, <1>3, PartsKept DEF StateInv

\* A new streamer knows nothing yet.
LEMMA NewStep ==
  ASSUME StateInv, Reopen \/ Restart
  PROVE  StateInv'
<1>1. NewStreamer
  BY DEF Reopen, Restart
<1>2. FilterOK' /\ ReceiverOK'
  BY <1>1, FiltersGood DEF NewStreamer, FilterOK, ReceiverOK, Unattached, PidsOf
<1>3. Good(demuxers') /\ Good(told') /\ ready' \in BOOLEAN /\ request' \in BOOLEAN
  BY <1>1, GoodNone DEF NewStreamer, NoStreams
<1>4. CASE Reopen
  <2>1. UNCHANGED <<newVdr, stream, cache, files>>
    BY <1>4 DEF Reopen
  <2>2. KnownOK'
    BY <1>3, <2>1 DEF KnownOK, StateInv
  <2> QED
    BY <1>2, <2>1, <2>2, PartsKept DEF StateInv
<1>5. CASE Restart
  <2>1. cache' \in Load(disk.file) /\ saving' = "idle" /\ reported' = FALSE
        /\ UNCHANGED <<newVdr, air, channel, disk>>
    BY <1>5 DEF Restart
  <2>2. Good(cache')
    BY <2>1, GoodNone DEF Load, StateInv, DiskOK
  <2>3. KnownOK'
    BY <1>3, <2>2 DEF KnownOK
  <2>4. AirOK' /\ DiskOK'
    BY <2>1 DEF AirOK, DiskOK, StateInv
  <2> QED
    BY <1>2, <2>3, <2>4 DEF StateInv
<1> QED
  BY <1>4, <1>5

LEMMA StateStep == StateInv /\ [Next]_vars => StateInv'
<1> SUFFICES ASSUME StateInv, [Next]_vars PROVE StateInv'
  OBVIOUS
<1>0. ASSUME UNCHANGED vars PROVE StateInv'
  BY <1>0, PartsKept DEF vars, tuner, StateInv
<1>1. CASE AirChanges
  <2>1. UNCHANGED <<newVdr, channel, reported, cache, tuner, files>>
    BY <1>1 DEF AirChanges
  <2>2. PICK l \in Lineups : air' = [table |-> l, version |-> (air.version + 1) % 32]
    BY <1>1 DEF AirChanges
  <2>3. \A n \in 0 .. 31 : (n + 1) % 32 \in 0 .. 31
    OBVIOUS
  <2>4. air'.table \in Lineups /\ air'.version \in 0 .. 31
    BY <2>2, <2>3 DEF StateInv, AirOK
  <2>5. AirOK'
    BY <2>1, <2>4 DEF AirOK, StateInv
  <2> QED
    BY <2>1, <2>5, PartsKept DEF StateInv, tuner
<1>2. CASE VdrFollows
  <2>1. UNCHANGED <<newVdr, air, cache, tuner, files>>
    BY <1>2 DEF VdrFollows
  <2>2. AirOK'
    BY <1>2 DEF VdrFollows, AirOK, StateInv
  <2> QED
    BY <2>1, <2>2, PartsKept DEF StateInv, tuner
<1>3. CASE TryChannelSwitch \/ ChannelChange
  <2>1. SwitchChannel /\ UNCHANGED <<newVdr, air, channel>> /\ reported' \in BOOLEAN
    BY <1>3 DEF TryChannelSwitch, ChannelChange, SwitchChannel, StateInv, AirOK, stream
  <2>2. AirOK'
    BY <2>1 DEF AirOK, StateInv
  <2> QED
    BY <2>1, <2>2, SwitchStep DEF StateInv
<1>4. CASE Lose
  <2>1. UNCHANGED <<newVdr, stream, cache, filter, demuxers, ready, request, told, files>>
    BY <1>4 DEF Lose
  <2>2. DOMAIN receiver' = {"attached", "pids"} /\ receiver'.pids = receiver.pids
    BY <1>4 DEF Lose, StateInv, ReceiverOK
  <2>3. ReceiverOK'
    BY <2>1, <2>2 DEF ReceiverOK, StateInv
  <2> QED
    BY <2>1, <2>3, PartsKept DEF StateInv
<1>5. CASE PatSection \/ NewVersion \/ PmtSection \/ DetachDuringProcess
  BY <1>5, FilterStep
<1>6. ASSUME NEW p \in Pids, Packet(p) PROVE StateInv'
  BY <1>6, PacketStep
<1>7. CASE ChangeStreams
  BY <1>7, ChangeStep
<1>8. CASE SaveOpen \/ SaveWrite \/ SaveRename
  BY <1>8, DiskStep
<1>9. CASE Reopen \/ Restart
  BY <1>9, NewStep
<1>10. CASE StandsStill
  BY <1>0, <1>10 DEF StandsStill
<1> QED
  BY <1>0, <1>1, <1>2, <1>3, <1>4, <1>5, <1>6, <1>7, <1>8, <1>9, <1>10 DEF Next

LEMMA SpecStateInv == Spec => []StateInv
<1>1. Init => StateInv
  BY InitStateInv
<1>2. StateInv /\ [Next]_vars => StateInv'
  BY StateStep
<1> QED
  BY <1>1, <1>2, PTL DEF Spec

(* Whatever is kept of the streams, in the cache, by the filter, as        *)
(* demuxers or as the last thing told to the client, has one stream for a  *)
(* PID and at most one picture, whichever tables are broadcast.            *)
THEOREM TypeCorrect == Spec => []TypeOK
<1>1. StateInv => TypeOK
  BY GoodIsItem DEF StateInv, AirOK, KnownOK, FilterOK, DiskOK, TypeOK
<1> QED
  BY <1>1, SpecStateInv, PTL

(* Each PID that is received has exactly one demuxer, EachPidHasDemuxer,   *)
(* for all tables, all PIDs up to MaxPid and all preferences of the        *)
(* client: reorderStreams gives no two streams the same weight, because    *)
(* the PID is its last digit (livestreamer.c:722), and the receiver is     *)
(* attached with the PIDs of the demuxers that were just created.          *)
THEOREM EachPidIsDemuxed == Spec => []EachPidHasDemuxer
<1>1. StateInv => EachPidHasDemuxer
  BY GoodIsItem DEF StateInv, KnownOK, ReceiverOK, IsItem, EachPidHasDemuxer
<1> QED
  BY <1>1, SpecStateInv, PTL
-----------------------------------------------------------------------------
(***************************************************************************)
(* The parser: rows of units and their parts.                              *)
(***************************************************************************)
(* A broadcast is a row of units that its PES packets divide.              *)
LEMMA Row ==
  ASSUME kind \in DOMAIN Broadcasts
  PROVE  /\ kind \in Kinds
         /\ Len(Marks) \in Nat /\ DOMAIN Marks = 1 .. Len(Marks)
         /\ Len(Pes) \in Nat /\ DOMAIN Pes = 1 .. Len(Pes)
         /\ \A u \in 1 .. Len(Marks) :
              /\ Marks[u].is \in MarkKinds /\ Marks[u].size \in Nat
              /\ Marks[u].is = "frame" => Marks[u].size > HeaderSize
         /\ \A n \in DOMAIN Pes :
              /\ Pes[n].start \in Nat \ {0} /\ Pes[n].stop \in Nat
              /\ Pes[n].start <= Pes[n].stop /\ Pes[n].stop <= Len(Marks)
              /\ Pes[n].pts \in Stamps /\ Pes[n].sized \in BOOLEAN
         /\ \A m, n \in DOMAIN Pes : m < n => Pes[m].stop < Pes[n].start
         /\ \A u \in 1 .. Len(Marks) : \E n \in DOMAIN Pes : u \in Pes[n].start .. Pes[n].stop
<1>1. IsBroadcast(Broadcasts[kind]) /\ kind \in Kinds
  BY ParserAssumption
<1>2. /\ Marks \in Seq([is : MarkKinds, size : Nat])
      /\ Pes \in Seq([start : Nat, stop : Nat, pts : Stamps, sized : BOOLEAN])
      /\ DOMAIN Marks = UNION {Pes[n].start .. Pes[n].stop : n \in DOMAIN Pes}
      /\ \A n \in DOMAIN Pes : Pes[n].start <= Pes[n].stop
      /\ \A m, n \in DOMAIN Pes : m < n => Pes[m].stop < Pes[n].start
      /\ \A u \in DOMAIN Marks :
           Marks[u].is = "frame" => Marks[u].size > HeaderSize
  BY <1>1 DEF IsBroadcast, Marks, Pes
<1>3. /\ Len(Marks) \in Nat /\ DOMAIN Marks = 1 .. Len(Marks)
      /\ Len(Pes) \in Nat /\ DOMAIN Pes = 1 .. Len(Pes)
      /\ \A u \in DOMAIN Marks : Marks[u] \in [is : MarkKinds, size : Nat]
      /\ \A n \in DOMAIN Pes : Pes[n] \in [start : Nat, stop : Nat, pts : Stamps, sized : BOOLEAN]
  <2>1. /\ Len(Marks) \in Nat /\ DOMAIN Marks = 1 .. Len(Marks)
        /\ \A u \in DOMAIN Marks : Marks[u] \in [is : MarkKinds, size : Nat]
    BY <1>2, LenProperties, ElementOfSeq
  <2>2. /\ Len(Pes) \in Nat /\ DOMAIN Pes = 1 .. Len(Pes)
        /\ \A n \in DOMAIN Pes : Pes[n] \in [start : Nat, stop : Nat, pts : Stamps, sized : BOOLEAN]
    BY <1>2, LenProperties, ElementOfSeq
  <2> QED
    BY <2>1, <2>2
<1>4. ASSUME NEW n \in DOMAIN Pes
      PROVE  /\ Pes[n].start \in Nat \ {0} /\ Pes[n].stop \in Nat
             /\ Pes[n].start <= Pes[n].stop /\ Pes[n].stop <= Len(Marks)
             /\ Pes[n].pts \in Stamps /\ Pes[n].sized \in BOOLEAN
  <2>1. /\ Pes[n].start \in Nat /\ Pes[n].stop \in Nat /\ Pes[n].start <= Pes[n].stop
        /\ Pes[n].pts \in Stamps /\ Pes[n].sized \in BOOLEAN
    BY <1>2, <1>3
  <2>2. Pes[n].start .. Pes[n].stop \subseteq DOMAIN Marks
    BY <1>2
  <2>3. Pes[n].start \in DOMAIN Marks /\ Pes[n].stop \in DOMAIN Marks
    BY <2>1, <2>2
  <2> QED
    BY <2>1, <2>3, <1>3
<1>5. ASSUME NEW u \in 1 .. Len(Marks)
      PROVE  /\ Marks[u].is \in MarkKinds /\ Marks[u].size \in Nat
             /\ Marks[u].is = "frame" => Marks[u].size > HeaderSize
             /\ \E n \in DOMAIN Pes : u \in Pes[n].start .. Pes[n].stop
  <2>1. u \in DOMAIN Marks /\ Marks[u] \in [is : MarkKinds, size : Nat]
    BY <1>3
  <2>2. \E n \in DOMAIN Pes : u \in Pes[n].start .. Pes[n].stop
    BY <1>2, <2>1
  <2> QED
    BY <1>2, <2>1, <2>2
<1> QED
  BY <1>1, <1>2, <1>3, <1>4, <1>5

LEMMA Parameters ==
  /\ Payload \in Nat \ {0} /\ BufferSize \in Nat \ {0} /\ Modulus \in Nat \ {0}
  /\ Margin \in Nat /\ HeaderSize \in Nat /\ Duration \in Nat /\ MaxLost \in Nat
BY ParserAssumption

(* Each unit is in one PES packet.                                         *)
LEMMA UnitsPes ==
  ASSUME kind \in DOMAIN Broadcasts, NEW u \in 1 .. Len(Marks)
  PROVE  /\ PesOf(u) \in DOMAIN Pes
         /\ Pes[PesOf(u)].start <= u /\ u <= Pes[PesOf(u)].stop
         /\ \A n \in DOMAIN Pes : Pes[n].start <= u /\ u <= Pes[n].stop => n = PesOf(u)
<1>1. /\ PesOf(u) \in DOMAIN Pes
      /\ u \in Pes[PesOf(u)].start .. Pes[PesOf(u)].stop
  <2>1. \E n \in DOMAIN Pes : u \in Pes[n].start .. Pes[n].stop
    BY Row
  <2> QED
    BY <2>1 DEF PesOf
<1>2. /\ Pes[PesOf(u)].start <= u /\ u <= Pes[PesOf(u)].stop
      /\ Pes[PesOf(u)].start \in Nat /\ Pes[PesOf(u)].stop \in Nat
  BY <1>1, Row
<1>3. ASSUME NEW n \in DOMAIN Pes, Pes[n].start <= u, u <= Pes[n].stop PROVE n = PesOf(u)
  <2>1. n \in Nat /\ PesOf(u) \in Nat /\ Pes[n].start \in Nat /\ Pes[n].stop \in Nat
    BY <1>1, Row
  <2>2. ~(n < PesOf(u)) /\ ~(PesOf(u) < n)
    BY <1>1, <1>2, <1>3, <2>1, Row
  <2> QED
    BY <2>1, <2>2
<1> QED
  BY <1>1, <1>2, <1>3

LEMMA UnitsProperties ==
  ASSUME NEW a \in Nat, NEW b \in Nat, a <= b + 1
  PROVE  /\ Units(a, b) \in Seq(a .. b)
         /\ Len(Units(a, b)) = b + 1 - a
         /\ \A i \in 1 .. (b + 1 - a) : Units(a, b)[i] = a + i - 1
BY DEF Units

(* The next TS packet ends within its PES packet.                          *)
LEMMA NextPacket ==
  ASSUME kind \in DOMAIN Broadcasts, next \in 1 .. Len(Marks)
  PROVE  /\ LastOfPacket \in next .. Len(Marks)
         /\ PesOf(next) \in DOMAIN Pes
         /\ Pes[PesOf(next)].start <= next /\ LastOfPacket <= Pes[PesOf(next)].stop
         /\ Data \in Seq(next .. LastOfPacket)
         /\ Len(Data) = LastOfPacket + 1 - next
         /\ \A i \in 1 .. Len(Data) : Data[i] = next + i - 1
<1>1. /\ PesOf(next) \in DOMAIN Pes
      /\ Pes[PesOf(next)].start <= next /\ next <= Pes[PesOf(next)].stop
  BY UnitsPes
<1>2. Pes[PesOf(next)].stop \in Nat /\ Pes[PesOf(next)].stop <= Len(Marks) /\ Len(Marks) \in Nat
  BY <1>1, Row
<1>3. /\ LastOfPacket \in next .. Len(Marks) /\ LastOfPacket <= Pes[PesOf(next)].stop
  BY <1>1, <1>2, Parameters DEF LastOfPacket, Least
<1>4. next \in Nat /\ LastOfPacket \in Nat /\ next <= LastOfPacket + 1
  BY <1>2, <1>3
<1> QED
  BY <1>1, <1>3, <1>4, UnitsProperties DEF Data

LEMMA PartIn ==
  ASSUME NEW A, NEW s \in Seq(A), NEW a \in 1 .. Len(s) + 1, NEW b \in 0 .. Len(s)
  PROVE  /\ SubSeq(s, a, b) \in Seq(A)
         /\ Len(SubSeq(s, a, b)) = IF a <= b THEN b + 1 - a ELSE 0
         /\ \A i \in 1 .. (b + 1 - a) : SubSeq(s, a, b)[i] = s[a + i - 1]
BY SubSeqProperties

(* The members of a finite set of numbers, counted from the least one.     *)
LEMMA NthProperties ==
  ASSUME NEW S, S \subseteq Nat, IsFiniteSet(S)
  PROVE  /\ Cardinality(S) \in Nat
         /\ \A k \in 1 .. Cardinality(S) : Nth(S, k) \in S
         /\ \A k, l \in 1 .. Cardinality(S) : k < l => Nth(S, k) < Nth(S, l)
         /\ \A i \in S : \E k \in 1 .. Cardinality(S) : Nth(S, k) = i
<1> DEFINE upTo(i) == {j \in S : j <= i}
           n == Cardinality(S)
           rank == [i \in S |-> Cardinality(upTo(i))]
<1>1. n \in Nat
  BY FS_CardinalityType
<1>2. ASSUME NEW i \in S PROVE IsFiniteSet(upTo(i)) /\ Cardinality(upTo(i)) \in 1 .. n
  <2>1. upTo(i) \in SUBSET S /\ i \in upTo(i)
    BY <1>2
  <2>2. IsFiniteSet(upTo(i)) /\ Cardinality(upTo(i)) <= n
    BY <2>1, FS_Subset
  <2>3. Cardinality(upTo(i)) \in Nat
    BY <2>2, FS_CardinalityType
  <2>4. Cardinality(upTo(i)) # 0
    BY <2>1, <2>2, FS_EmptySet
  <2> QED
    BY <1>1, <2>2, <2>3, <2>4
<1>3. ASSUME NEW i \in S, NEW j \in S, i < j PROVE rank[i] < rank[j]
  <2>0. i \in Nat /\ j \in Nat
    OBVIOUS
  <2>1. upTo(i) \in SUBSET upTo(j) /\ j \in upTo(j) /\ j \notin upTo(i)
    <3>1. ASSUME NEW m \in S, m <= i PROVE m <= j
      BY <1>3, <2>0, <3>1
    <3>2. j <= j /\ ~(j <= i)
      BY <1>3, <2>0
    <3> QED
      BY <3>1, <3>2
  <2>2. IsFiniteSet(upTo(j)) /\ Cardinality(upTo(i)) \in Nat /\ Cardinality(upTo(j)) \in Nat
    BY <1>2
  <2>3. Cardinality(upTo(i)) <= Cardinality(upTo(j)) /\ Cardinality(upTo(j)) # Cardinality(upTo(i))
    BY <2>1, <2>2, FS_Subset
  <2> QED
    BY <2>2, <2>3
<1>4. rank \in [S -> 1 .. n]
  BY <1>2
<1>5. \A i, j \in S : rank[i] = rank[j] => i = j
  <2> SUFFICES ASSUME NEW i \in S, NEW j \in S, rank[i] = rank[j] PROVE i = j
    OBVIOUS
  <2>1. ~(i < j) /\ ~(j < i)
    <3>1. rank[i] \in Nat /\ rank[j] \in Nat
      BY <1>4, <1>1
    <3> QED
      BY <1>3, <3>1
  <2> QED
    BY <2>1
<1>6. \A k \in 1 .. n : \E i \in S : rank[i] = k
  <2>1. rank \in Injection(S, 1 .. n)
    <3> HIDE DEF rank, n
    <3> QED
      BY <1>4, <1>5 DEF Injection, IsInjective
  <2>2. IsFiniteSet(1 .. n) /\ Cardinality(1 .. n) = n
    BY <1>1, FS_Interval
  <2>3. rank \in Surjection(S, 1 .. n)
    BY <2>1, <2>2, FS_Injection
  <2> QED
    BY <2>3 DEF Surjection
<1>7. ASSUME NEW k \in 1 .. n PROVE Nth(S, k) \in S /\ rank[Nth(S, k)] = k
  <2>1. \E i \in S : Cardinality({j \in S : j <= i}) = k
    BY <1>6
  <2>2. Nth(S, k) \in S /\ Cardinality({j \in S : j <= Nth(S, k)}) = k
    BY <2>1 DEF Nth
  <2> QED
    BY <2>2
<1>8. ASSUME NEW k \in 1 .. n, NEW l \in 1 .. n, k < l PROVE Nth(S, k) < Nth(S, l)
  <2>1. Nth(S, k) \in Nat /\ Nth(S, l) \in Nat
    BY <1>7
  <2>2. ~(Nth(S, l) < Nth(S, k)) /\ Nth(S, l) # Nth(S, k)
    <3> HIDE DEF rank
    <3>1. k \in Nat /\ l \in Nat
      BY <1>1
    <3>2. rank[Nth(S, k)] = k /\ rank[Nth(S, l)] = l /\ Nth(S, k) \in S /\ Nth(S, l) \in S
      BY <1>7
    <3>3. Nth(S, l) < Nth(S, k) => l < k
      BY <1>3, <3>2
    <3>4. Nth(S, l) = Nth(S, k) => l = k
      BY <3>2
    <3> QED
      BY <1>8, <3>1, <3>3, <3>4
  <2> QED
    BY <2>1, <2>2
<1>9. ASSUME NEW i \in S PROVE \E k \in 1 .. n : Nth(S, k) = i
  <2>1. rank[i] \in 1 .. n
    BY <1>4
  <2>2. Nth(S, rank[i]) = i
    BY <1>5, <1>7, <2>1
  <2> QED
    BY <2>1, <2>2
<1> QED
  BY <1>1, <1>7, <1>8, <1>9

(***************************************************************************)
(* What is made of a PES packet.                                           *)
(***************************************************************************)
Made(data, withSequence) ==
  CASE kind = "mpeg2"    -> IF withSequence THEN Pictures(data) ELSE <<>>
    [] kind = "subtitle" -> Subtitle(data)
    [] OTHER             -> <<[data |-> data, pts |-> curPTS]>>

Cuts(data) == {1} \cup NextPictures(data)
EndOf(data, k) ==
  IF k < Cardinality(Cuts(data)) THEN Nth(Cuts(data), k + 1) - 1 ELSE Len(data)
HasPicture(data) == \E i \in DOMAIN data : IsAt(data, i, "picture")

LEMMA CutsProperties ==
  ASSUME NEW A, NEW data \in Seq(A), data # <<>>
  PROVE  /\ Cardinality(Cuts(data)) \in Nat /\ Cuts(data) \subseteq 1 .. Len(data)
         /\ \A k \in 1 .. Cardinality(Cuts(data)) :
              /\ Nth(Cuts(data), k) \in Cuts(data)
              /\ EndOf(data, k) \in Nth(Cuts(data), k) .. Len(data)
         /\ \A k, l \in 1 .. Cardinality(Cuts(data)) :
              k < l => Nth(Cuts(data), k) < Nth(Cuts(data), l)
         /\ \A i \in Cuts(data) : \E k \in 1 .. Cardinality(Cuts(data)) : Nth(Cuts(data), k) = i
<1> DEFINE S == Cuts(data)
<1>1. Len(data) \in Nat \ {0} /\ DOMAIN data = 1 .. Len(data)
  BY EmptySeq, LenProperties
<1>2. S \subseteq 1 .. Len(data)
  BY <1>1 DEF Cuts, NextPictures
<1>3. IsFiniteSet(S) /\ S \subseteq Nat
  <2>1. IsFiniteSet(1 .. Len(data)) /\ 1 .. Len(data) \subseteq Nat
    BY <1>1, FS_Interval
  <2> QED
    BY <1>2, <2>1, FS_Subset
<1>4. /\ Cardinality(S) \in Nat
      /\ \A k \in 1 .. Cardinality(S) : Nth(S, k) \in S
      /\ \A k, l \in 1 .. Cardinality(S) : k < l => Nth(S, k) < Nth(S, l)
      /\ \A i \in S : \E k \in 1 .. Cardinality(S) : Nth(S, k) = i
  <2> HIDE DEF S
  <2> QED
    BY <1>3, NthProperties
<1>5. ASSUME NEW k \in 1 .. Cardinality(S) PROVE EndOf(data, k) \in Nth(S, k) .. Len(data)
  <2>1. Nth(S, k) \in 1 .. Len(data)
    BY <1>2, <1>4
  <2>2. CASE k < Cardinality(S)
    <3>1. k + 1 \in 1 .. Cardinality(S) /\ k < k + 1
      BY <1>4, <2>2
    <3>2. Nth(S, k + 1) \in 1 .. Len(data) /\ Nth(S, k) < Nth(S, k + 1)
      BY <1>2, <1>4, <3>1
    <3>3. EndOf(data, k) = Nth(S, k + 1) - 1
      BY <2>2 DEF EndOf
    <3> QED
      BY <1>1, <2>1, <3>2, <3>3
  <2>3. CASE ~(k < Cardinality(S))
    BY <1>1, <2>1, <2>3 DEF EndOf
  <2> QED
    BY <2>2, <2>3
<1> QED
  BY <1>2, <1>4, <1>5

LEMMA PicturesAre ==
  ASSUME NEW data
  PROVE  Pictures(data) =
           IF HasPicture(data)
           THEN [k \in 1 .. Cardinality(Cuts(data)) |->
                   [data |-> SubSeq(data, Nth(Cuts(data), k), EndOf(data, k)), pts |-> NoPts]]
           ELSE <<>>
BY DEF Pictures, HasPicture, Cuts, EndOf

MadeType(n) == Seq([data : Seq(1 .. n) \ {<<>>}, pts : Stamps])

(* They are parts of the data, in their order.                             *)
PartsInOrder(made, data) ==
  /\ \A i \in 1 .. Len(made) :
       \E a, b \in 1 .. Len(data) : a <= b /\ made[i].data = SubSeq(data, a, b)
  /\ \A i, j \in 1 .. Len(made) : i < j => made[i].data[1] < made[j].data[1]

LEMMA OnePart ==
  ASSUME NEW n \in Nat, NEW data \in Seq(1 .. n),
         NEW a \in 1 .. Len(data), NEW b \in 1 .. Len(data), a <= b, NEW pts \in Stamps
  PROVE  LET made == <<[data |-> SubSeq(data, a, b), pts |-> pts]>>
         IN  made \in MadeType(n) /\ PartsInOrder(made, data)
<1> DEFINE part == [data |-> SubSeq(data, a, b), pts |-> pts]
           made == <<part>>
<1>0. Len(data) \in Nat
  OBVIOUS
<1>1. SubSeq(data, a, b) \in Seq(1 .. n) /\ Len(SubSeq(data, a, b)) = b + 1 - a
  BY <1>0, PartIn
<1>2. SubSeq(data, a, b) # <<>>
  BY <1>0, <1>1
<1>3. part \in [data : Seq(1 .. n) \ {<<>>}, pts : Stamps]
  BY <1>1, <1>2
<1>4. part.data = SubSeq(data, a, b)
  OBVIOUS
<1> HIDE DEF part
<1>5. made \in MadeType(n) /\ Len(made) = 1 /\ made[1] = part
  BY <1>3 DEF MadeType
<1> HIDE DEF made
<1>6. PartsInOrder(made, data)
  <2>1. \A i \in 1 .. Len(made) : i = 1
    BY <1>5
  <2>2. \A i \in 1 .. Len(made) : made[i].data = SubSeq(data, a, b)
    BY <1>4, <1>5, <2>1
  <2>3. \A i, j \in 1 .. Len(made) : ~(i < j)
    BY <2>1
  <2> QED
    BY <2>2, <2>3 DEF PartsInOrder
<1> QED
  BY <1>5, <1>6 DEF made, part

LEMMA MadeInOrder ==
  ASSUME kind \notin Framed, curPTS \in Stamps,
         NEW n \in Nat, NEW data \in Seq(1 .. n), data # <<>>,
         \A i, j \in 1 .. Len(data) : i < j => data[i] < data[j],
         NEW withSequence
  PROVE  /\ Made(data, withSequence) \in MadeType(n)
         /\ PartsInOrder(Made(data, withSequence), data)
<1> DEFINE made == Made(data, withSequence)
<1>0. Len(data) \in Nat \ {0} /\ DOMAIN data = 1 .. Len(data) /\ NoPts \in Stamps
  BY EmptySeq, LenProperties DEF Stamps
<1>1. ASSUME NEW a \in 1 .. Len(data), NEW b \in 1 .. Len(data), a <= b
      PROVE  SubSeq(data, a, b) \in Seq(1 .. n) \ {<<>>} /\ SubSeq(data, a, b)[1] = data[a]
  <2>1. a \in 1 .. Len(data) + 1 /\ b \in 0 .. Len(data)
    BY <1>0
  <2>2. /\ SubSeq(data, a, b) \in Seq(1 .. n) /\ Len(SubSeq(data, a, b)) = b + 1 - a
        /\ \A i \in 1 .. (b + 1 - a) : SubSeq(data, a, b)[i] = data[a + i - 1]
    BY <1>1, <2>1, PartIn
  <2>3. 1 \in 1 .. (b + 1 - a) /\ a + 1 - 1 = a /\ b + 1 - a # 0
    BY <1>0, <1>1
  <2>4. SubSeq(data, a, b) # <<>>
    BY <2>2, <2>3, EmptySeq
  <2>5. SubSeq(data, a, b)[1] = data[a + 1 - 1]
    BY <2>2, <2>3
  <2> QED
    BY <2>2, <2>3, <2>4, <2>5
<1>2. CASE made = <<>>
  <2> HIDE DEF made
  <2>1. Len(made) = 0 /\ made \in MadeType(n)
    BY <1>2 DEF MadeType
  <2>2. PartsInOrder(made, data)
    BY <2>1 DEF PartsInOrder
  <2> QED
    BY <2>1, <2>2 DEF made
<1>5. CASE kind = "mpeg2" /\ withSequence /\ HasPicture(data)
  <2> DEFINE N == Cardinality(Cuts(data))
             piece(k) == [data |-> SubSeq(data, Nth(Cuts(data), k), EndOf(data, k)), pts |-> NoPts]
  <2>1. made = [k \in 1 .. N |-> piece(k)]
    BY <1>5, PicturesAre DEF Made
  <2>2. N \in Nat
    BY CutsProperties
  <2>3. ASSUME NEW k \in 1 .. N
        PROVE  /\ Nth(Cuts(data), k) \in 1 .. Len(data) /\ EndOf(data, k) \in 1 .. Len(data)
               /\ Nth(Cuts(data), k) <= EndOf(data, k)
    BY <1>0, CutsProperties
  <2>4. ASSUME NEW k \in 1 .. N
        PROVE  /\ piece(k) \in [data : Seq(1 .. n) \ {<<>>}, pts : Stamps]
               /\ piece(k).data[1] = data[Nth(Cuts(data), k)]
    BY <1>0, <1>1, <2>3
  <2>5. Len(made) = N
    BY <2>1, <2>2
  <2>6. made \in MadeType(n)
    <3> HIDE DEF piece, N, made
    <3> QED
      BY <2>1, <2>2, <2>4 DEF MadeType
  <2>7. ASSUME NEW i \in 1 .. N
        PROVE  \E a, b \in 1 .. Len(data) : a <= b /\ made[i].data = SubSeq(data, a, b)
    <3>1. made[i].data = SubSeq(data, Nth(Cuts(data), i), EndOf(data, i))
      BY <2>1
    <3> HIDE DEF made, N
    <3> QED
      BY <2>3, <3>1
  <2>8. ASSUME NEW i \in 1 .. N, NEW j \in 1 .. N, i < j
        PROVE  made[i].data[1] < made[j].data[1]
    <3>1. made[i] = piece(i) /\ made[j] = piece(j)
      BY <2>1
    <3>2. Nth(Cuts(data), i) < Nth(Cuts(data), j)
      BY <2>8, CutsProperties
    <3>3. data[Nth(Cuts(data), i)] < data[Nth(Cuts(data), j)]
      BY <2>3, <3>2
    <3> QED
      BY <2>4, <3>1, <3>3
  <2> HIDE DEF made, N
  <2>9. PartsInOrder(made, data)
    BY <2>5, <2>7, <2>8 DEF PartsInOrder
  <2> QED
    BY <2>6, <2>9 DEF made
<1>6. CASE kind = "mpeg2" /\ ~(withSequence /\ HasPicture(data))
  <2>1. made = <<>>
    BY <1>6, PicturesAre DEF Made
  <2> QED
    BY <1>2, <2>1
<1>7. CASE kind = "subtitle"
  <2>1. made = Subtitle(data)
    BY <1>7 DEF Made
  <2>2. CASE Len(data) >= 3 /\ IsAt(data, 1, "first") /\ IsAt(data, Len(data), "last")
    <3>1. made = <<[data |-> SubSeq(data, 2, Len(data) - 1), pts |-> curPTS]>>
      BY <2>1, <2>2 DEF Subtitle
    <3>2. 2 \in 1 .. Len(data) /\ Len(data) - 1 \in 1 .. Len(data) /\ 2 <= Len(data) - 1
      BY <1>0, <2>2
    <3> HIDE DEF made
    <3> QED
      BY <3>1, <3>2, OnePart DEF made
  <2>3. CASE ~(Len(data) >= 3 /\ IsAt(data, 1, "first") /\ IsAt(data, Len(data), "last"))
    <3>1. made = <<>>
      BY <2>1, <2>3 DEF Subtitle
    <3> QED
      BY <1>2, <3>1
  <2> QED
    BY <2>2, <2>3
<1>8. CASE kind \notin {"mpeg2", "subtitle"}
  <2>1. made = <<[data |-> data, pts |-> curPTS]>>
    BY <1>8 DEF Made
  <2>2. SubSeq(data, 1, Len(data)) = data
    BY SubSeqFull
  <2>3. made = <<[data |-> SubSeq(data, 1, Len(data)), pts |-> curPTS]>>
    BY <2>1, <2>2
  <2>4. 1 \in 1 .. Len(data) /\ Len(data) \in 1 .. Len(data) /\ 1 <= Len(data)
    BY <1>0
  <2> HIDE DEF made
  <2> QED
    BY <2>3, <2>4, OnePart DEF made
<1> QED
  BY <1>5, <1>6, <1>7, <1>8

(* What is owed lies within its PES packet.                                *)
LEMMA OwedInPes ==
  ASSUME kind \in DOMAIN Broadcasts, NEW m \in DOMAIN Pes, NEW o \in InPes(Pes[m])
  PROVE  /\ o[1] \in Nat /\ o[2] \in Nat /\ o[1] <= o[2]
         /\ Pes[m].start <= o[1] /\ o[2] <= Pes[m].stop
         /\ PesOf(o[1]) = m
<1>1. /\ Pes[m].start \in Nat \ {0} /\ Pes[m].stop \in Nat
      /\ Pes[m].start <= Pes[m].stop /\ Pes[m].stop <= Len(Marks) /\ Len(Marks) \in Nat
  BY Row
<1>2. /\ o[1] \in Nat /\ o[2] \in Nat /\ o[1] <= o[2]
      /\ Pes[m].start <= o[1] /\ o[2] <= Pes[m].stop
  <2>1. CASE kind = "subtitle"
    BY <1>1, <2>1 DEF InPes, Inside
  <2>2. CASE kind = "mpeg2"
    BY <1>1, <2>2 DEF InPes, Parts
  <2>3. CASE kind \notin {"subtitle", "mpeg2"}
    BY <1>1, <2>3 DEF InPes, Whole
  <2> QED
    BY <2>1, <2>2, <2>3
<1>3. o[1] \in 1 .. Len(Marks) /\ o[1] <= Pes[m].stop
  BY <1>1, <1>2
<1> QED
  BY <1>2, <1>3, UnitsPes

LEMMA UnitsPart ==
  ASSUME NEW s \in Nat, NEW t \in Nat, s <= t,
         NEW a \in 1 .. (t + 1 - s), NEW b \in 1 .. (t + 1 - s), a <= b
  PROVE  SubSeq(Units(s, t), a, b) = Units(s + a - 1, s + b - 1)
<1>1. /\ Units(s, t) \in Seq(s .. t) /\ Len(Units(s, t)) = t + 1 - s
      /\ \A i \in 1 .. (t + 1 - s) : Units(s, t)[i] = s + i - 1
  BY UnitsProperties
<1>2. /\ SubSeq(Units(s, t), a, b) \in Seq(s .. t)
      /\ Len(SubSeq(Units(s, t), a, b)) = b + 1 - a
      /\ \A i \in 1 .. (b + 1 - a) : SubSeq(Units(s, t), a, b)[i] = Units(s, t)[a + i - 1]
  BY <1>1, PartIn
<1>3. /\ Units(s + a - 1, s + b - 1) \in Seq((s + a - 1) .. (s + b - 1))
      /\ Len(Units(s + a - 1, s + b - 1)) = b + 1 - a
      /\ \A i \in 1 .. (b + 1 - a) : Units(s + a - 1, s + b - 1)[i] = s + a - 1 + i - 1
  <2> DEFINE u == s + a - 1
             v == s + b - 1
  <2>1. u \in Nat /\ v \in Nat /\ u <= v + 1 /\ v + 1 - u = b + 1 - a
    OBVIOUS
  <2> HIDE DEF u, v
  <2>2. /\ Units(u, v) \in Seq(u .. v) /\ Len(Units(u, v)) = v + 1 - u
        /\ \A i \in 1 .. (v + 1 - u) : Units(u, v)[i] = u + i - 1
    BY <2>1, UnitsProperties
  <2> QED
    BY <2>1, <2>2 DEF u, v
<1>4. ASSUME NEW i \in 1 .. (b + 1 - a)
      PROVE  SubSeq(Units(s, t), a, b)[i] = Units(s + a - 1, s + b - 1)[i]
  <2>1. a + i - 1 \in 1 .. (t + 1 - s)
    OBVIOUS
  <2>2. SubSeq(Units(s, t), a, b)[i] = s + (a + i - 1) - 1
    BY <1>1, <1>2, <2>1
  <2>3. Units(s + a - 1, s + b - 1)[i] = s + a - 1 + i - 1
    BY <1>3
  <2>4. s + (a + i - 1) - 1 = s + a - 1 + i - 1
    BY <2>1
  <2> QED
    BY <2>2, <2>3, <2>4
<1> QED
  BY <1>2, <1>3, <1>4, SeqEqual

(* The cuts of a PES packet that has arrived as a whole.                   *)
PesCuts(p) ==
  LET starts == {u \in p.start .. p.stop : Marks[u].is = "picture"}
  IN {p.start} \cup {u \in starts : \E v \in starts : v < u}

LEMMA WholeCuts ==
  ASSUME NEW p, p.start \in Nat, p.stop \in Nat, p.start <= p.stop,
         NEW j \in 1 .. (p.stop + 1 - p.start)
  PROVE  j \in Cuts(Units(p.start, p.stop)) <=> p.start + j - 1 \in PesCuts(p)
<1> DEFINE data == Units(p.start, p.stop)
           N == p.stop + 1 - p.start
<1>1. /\ DOMAIN data = 1 .. N /\ N \in Nat
      /\ \A i \in 1 .. N : data[i] = p.start + i - 1
  <2>0. p.start \in Nat /\ p.stop \in Nat /\ p.start <= p.stop + 1
    OBVIOUS
  <2>1. /\ data \in Seq(p.start .. p.stop) /\ Len(data) = N
        /\ \A i \in 1 .. N : data[i] = p.start + i - 1
    BY <2>0, UnitsProperties
  <2>2. DOMAIN data = 1 .. Len(data)
    BY <2>1, LenProperties
  <2> QED
    BY <2>1, <2>2
<1> HIDE DEF data
<1>2. j \in Cuts(data) <=>
        \/ j = 1
        \/ /\ Marks[p.start + j - 1].is = "picture"
           /\ \E i \in 1 .. (j - 1) : Marks[p.start + i - 1].is = "picture"
  <2>1. ASSUME NEW i \in 1 .. (j - 1) PROVE i \in 1 .. N /\ data[i] = p.start + i - 1
    BY <1>1
  <2>2. \A i \in 1 .. (j - 1) : IsAt(data, i, "picture") <=> Marks[p.start + i - 1].is = "picture"
    BY <2>1 DEF IsAt
  <2>3. IsAt(data, j, "picture") <=> Marks[p.start + j - 1].is = "picture"
    BY <1>1 DEF IsAt
  <2> QED
    BY <1>1, <2>2, <2>3 DEF Cuts, NextPictures
<1>3. p.start + j - 1 \in PesCuts(p) <=>
        \/ j = 1
        \/ /\ Marks[p.start + j - 1].is = "picture"
           /\ \E i \in 1 .. (j - 1) : Marks[p.start + i - 1].is = "picture"
  <2>1. ASSUME NEW v \in p.start .. p.stop, v < p.start + j - 1
        PROVE  v - p.start + 1 \in 1 .. (j - 1) /\ p.start + (v - p.start + 1) - 1 = v
    BY <2>1
  <2>2. ASSUME NEW i \in 1 .. (j - 1)
        PROVE  p.start + i - 1 \in p.start .. p.stop /\ p.start + i - 1 < p.start + j - 1
    OBVIOUS
  <2>3. p.start + j - 1 \in p.start .. p.stop /\ (p.start + j - 1 = p.start <=> j = 1)
    OBVIOUS
  <2> QED
    BY <2>1, <2>2, <2>3 DEF PesCuts
<1> QED
  BY <1>2, <1>3 DEF data

LEMMA PartsAre ==
  ASSUME NEW p
  PROVE  Parts(p) =
           IF \A u \in p.start .. p.stop : Marks[u].is # "picture" THEN {}
           ELSE {o \in PesCuts(p) \X (p.start .. p.stop) :
                   /\ o[1] <= o[2] /\ (o[2] = p.stop \/ o[2] + 1 \in PesCuts(p))
                   /\ \A u \in PesCuts(p) : ~(o[1] < u /\ u <= o[2])}
BY DEF Parts, PesCuts

(* A video: the pictures of a PES packet that has arrived as a whole.      *)
LEMMA WholePictures ==
  ASSUME NEW p, p.start \in Nat, p.stop \in Nat, p.start <= p.stop
  PROVE  LET made == Pictures(Units(p.start, p.stop))
         IN  /\ \A i \in 1 .. Len(made) : \E o \in Parts(p) : made[i].data = Units(o[1], o[2])
             /\ \A o \in Parts(p) : \E i \in 1 .. Len(made) : made[i].data = Units(o[1], o[2])
<1> DEFINE data == Units(p.start, p.stop)
           N == p.stop + 1 - p.start
           made == Pictures(data)
           C == Cuts(data)
           K == Cardinality(C)
<1>1. /\ data \in Seq(p.start .. p.stop) /\ Len(data) = N
      /\ \A i \in 1 .. N : data[i] = p.start + i - 1
      /\ N \in Nat \ {0} /\ DOMAIN data = 1 .. N
  <2>0. p.start \in Nat /\ p.stop \in Nat /\ p.start <= p.stop + 1
    OBVIOUS
  <2>1. /\ data \in Seq(p.start .. p.stop) /\ Len(data) = N
        /\ \A i \in 1 .. N : data[i] = p.start + i - 1
    BY <2>0, UnitsProperties
  <2>2. DOMAIN data = 1 .. Len(data)
    BY <2>1, LenProperties
  <2> QED
    BY <2>1, <2>2
<1>2. \A j \in 1 .. N : j \in C <=> p.start + j - 1 \in PesCuts(p)
  BY WholeCuts
<1>3. HasPicture(data) <=> \E u \in p.start .. p.stop : Marks[u].is = "picture"
  <2>1. ASSUME NEW u \in p.start .. p.stop
        PROVE  u - p.start + 1 \in 1 .. N /\ p.start + (u - p.start + 1) - 1 = u
    OBVIOUS
  <2>2. ASSUME NEW j \in 1 .. N PROVE p.start + j - 1 \in p.start .. p.stop
    OBVIOUS
  <2> HIDE DEF data, N
  <2>3. ASSUME NEW u \in p.start .. p.stop, Marks[u].is = "picture" PROVE HasPicture(data)
    <3>1. data[u - p.start + 1] = u
      BY <1>1, <2>1
    <3> QED
      BY <1>1, <2>1, <2>3, <3>1 DEF HasPicture, IsAt
  <2>4. ASSUME NEW j \in 1 .. N, IsAt(data, j, "picture")
        PROVE  \E u \in p.start .. p.stop : Marks[u].is = "picture"
    BY <1>1, <2>2, <2>4 DEF IsAt
  <2> QED
    BY <1>1, <2>3, <2>4 DEF HasPicture
<1>4. CASE ~HasPicture(data)
  <2>1. made = <<>> /\ Parts(p) = {}
    BY <1>3, <1>4, PicturesAre, PartsAre
  <2> QED
    BY <2>1
<1>5. CASE HasPicture(data)
  <2>1. data # <<>>
    BY <1>1
  <2> HIDE DEF data
  <2>2. /\ K \in Nat /\ C \subseteq 1 .. N
        /\ \A k \in 1 .. K : Nth(C, k) \in C /\ EndOf(data, k) \in Nth(C, k) .. N
        /\ \A k, l \in 1 .. K : k < l => Nth(C, k) < Nth(C, l)
        /\ \A i \in C : \E k \in 1 .. K : Nth(C, k) = i
    BY <1>1, <2>1, CutsProperties
  <2>3. \A k \in 1 .. K : EndOf(data, k) = IF k < K THEN Nth(C, k + 1) - 1 ELSE N
    BY <1>1 DEF EndOf
  <2>4. /\ Len(made) = K
        /\ \A k \in 1 .. K : made[k].data = SubSeq(data, Nth(C, k), EndOf(data, k))
    <3>1. made = [k \in 1 .. K |-> [data |-> SubSeq(data, Nth(C, k), EndOf(data, k)), pts |-> NoPts]]
      BY <1>5, PicturesAre
    <3> QED
      BY <2>2, <3>1
  <2>5. Parts(p) = {o \in PesCuts(p) \X (p.start .. p.stop) :
                      /\ o[1] <= o[2] /\ (o[2] = p.stop \/ o[2] + 1 \in PesCuts(p))
                      /\ \A u \in PesCuts(p) : ~(o[1] < u /\ u <= o[2])}
    BY <1>3, <1>5, PartsAre
  <2>6. PesCuts(p) \subseteq p.start .. p.stop
    BY DEF PesCuts
  <2> HIDE DEF C, K, made
  <2>7. ASSUME NEW k \in 1 .. K
        PROVE  LET a == Nth(C, k)
                   b == EndOf(data, k)
               IN  /\ a \in 1 .. N /\ b \in 1 .. N /\ a <= b
                   /\ made[k].data = Units(p.start + a - 1, p.start + b - 1)
    <3> DEFINE a == Nth(C, k)
               b == EndOf(data, k)
    <3>1. a \in 1 .. N /\ b \in a .. N
      BY <2>2
    <3> HIDE DEF a, b
    <3>2. a \in 1 .. N /\ b \in 1 .. N /\ a <= b
      BY <1>1, <3>1
    <3>3. SubSeq(data, a, b) = Units(p.start + a - 1, p.start + b - 1)
      BY <3>2, UnitsPart DEF data
    <3> QED
      BY <2>4, <3>2, <3>3 DEF a, b
  <2>8. ASSUME NEW k \in 1 .. K
        PROVE  \E o \in Parts(p) : made[k].data = Units(o[1], o[2])
    <3> DEFINE a == Nth(C, k)
               b == EndOf(data, k)
               o == <<p.start + a - 1, p.start + b - 1>>
    <3>1. a \in 1 .. N /\ b \in 1 .. N /\ a <= b /\ a \in C
      BY <2>2, <2>7
    <3>2. o[1] \in PesCuts(p) /\ o[2] \in p.start .. p.stop /\ o[1] <= o[2]
      BY <1>2, <3>1
    <3>3. o[2] = p.stop \/ o[2] + 1 \in PesCuts(p)
      <4>1. CASE k < K
        <5>1. k + 1 \in 1 .. K /\ Nth(C, k + 1) \in C /\ b + 1 = Nth(C, k + 1)
          <6>1. k + 1 \in 1 .. K /\ b = Nth(C, k + 1) - 1
            BY <2>2, <2>3, <4>1
          <6>2. Nth(C, k + 1) \in 1 .. N
            BY <2>2, <6>1
          <6> QED
            BY <2>2, <6>1, <6>2
        <5>2. b + 1 \in 1 .. N /\ b + 1 \in C
          BY <2>2, <5>1
        <5>3. p.start + (b + 1) - 1 \in PesCuts(p)
          BY <1>2, <5>2
        <5>4. o[2] + 1 = p.start + (b + 1) - 1
          BY <3>1
        <5> QED
          BY <5>3, <5>4
      <4>2. CASE ~(k < K)
        BY <2>3, <4>2
      <4> QED
        BY <4>1, <4>2
    <3>4. ASSUME NEW u \in PesCuts(p), o[1] < u, u <= o[2] PROVE FALSE
      <4> DEFINE j == u - p.start + 1
      <4>1. j \in 1 .. N /\ p.start + j - 1 = u /\ a < j /\ j <= b
        BY <2>6, <3>1, <3>4
      <4>2. j \in C
        BY <1>2, <4>1
      <4>3. PICK l \in 1 .. K : Nth(C, l) = j
        BY <2>2, <4>2
      <4>4. k < l
        <5>1. ~(l < k) /\ l # k
          BY <2>2, <3>1, <4>1, <4>3
        <5> QED
          BY <2>2, <5>1
      <4>5. k < K /\ k + 1 \in 1 .. K /\ (k + 1 = l \/ k + 1 < l)
        BY <2>2, <4>4
      <4>6. Nth(C, k + 1) <= j /\ b = Nth(C, k + 1) - 1 /\ Nth(C, k + 1) \in 1 .. N
        <5>1. Nth(C, k + 1) \in 1 .. N
          BY <2>2, <4>5
        <5>2. b = Nth(C, k + 1) - 1
          BY <2>3, <4>5
        <5>3. Nth(C, k + 1) = j \/ Nth(C, k + 1) < j
          BY <2>2, <4>3, <4>5
        <5> QED
          BY <4>1, <5>1, <5>2, <5>3
      <4> QED
        BY <4>1, <4>6
    <3>5. o \in Parts(p)
      BY <2>5, <3>2, <3>3, <3>4
    <3>6. made[k].data = Units(o[1], o[2])
      BY <2>7
    <3> QED
      BY <3>5, <3>6
  <2>9. ASSUME NEW o \in Parts(p)
        PROVE  \E k \in 1 .. K : made[k].data = Units(o[1], o[2])
    <3>1. /\ o[1] \in PesCuts(p) /\ o[2] \in p.start .. p.stop /\ o[1] <= o[2]
          /\ o[2] = p.stop \/ o[2] + 1 \in PesCuts(p)
          /\ \A u \in PesCuts(p) : ~(o[1] < u /\ u <= o[2])
      BY <2>5
    <3> DEFINE j == o[1] - p.start + 1
               e == o[2] - p.start + 1
    <3>2. /\ j \in 1 .. N /\ p.start + j - 1 = o[1] /\ e \in 1 .. N /\ p.start + e - 1 = o[2]
          /\ j <= e
      BY <2>6, <3>1
    <3>3. j \in C
      BY <1>2, <3>1, <3>2
    <3>4. PICK k \in 1 .. K : Nth(C, k) = j
      BY <2>2, <3>3
    <3>5. EndOf(data, k) = e
      <4>1. CASE k < K
        <5> DEFINE f == Nth(C, k + 1)
        <5>1. k + 1 \in 1 .. K /\ f \in C /\ f \in 1 .. N /\ j < f /\ EndOf(data, k) = f - 1
          <6>1. k + 1 \in 1 .. K /\ k < k + 1
            BY <2>2, <4>1
          <6>2. f \in C /\ f \in 1 .. N
            BY <2>2, <6>1
          <6>3. j < f
            BY <2>2, <3>4, <6>1
          <6>4. EndOf(data, k) = f - 1
            BY <2>3, <4>1
          <6> QED
            BY <6>1, <6>2, <6>3, <6>4
        <5>2. p.start + f - 1 \in PesCuts(p)
          BY <1>2, <5>1
        <5> HIDE DEF f
        <5>3. o[1] < p.start + f - 1
          BY <3>2, <5>1
        <5>4. o[2] < p.start + f - 1
          BY <3>1, <5>1, <5>2, <5>3
        <5>5. o[2] # p.stop /\ o[2] + 1 \in PesCuts(p)
          BY <3>1, <5>1, <5>4
        <5>6. e + 1 \in 1 .. N /\ p.start + (e + 1) - 1 = o[2] + 1
          BY <2>6, <3>2, <5>5
        <5>7. e + 1 \in C
          BY <1>2, <5>5, <5>6
        <5>8. PICK l \in 1 .. K : Nth(C, l) = e + 1
          BY <2>2, <5>7
        <5>9. k < l
          <6>1. ~(l < k) /\ l # k
            BY <2>2, <3>2, <3>4, <5>8
          <6> QED
            BY <2>2, <6>1
        <5>10. k + 1 = l \/ k + 1 < l
          BY <2>2, <5>9
        <5>11. f <= e + 1
          <6>1. Nth(C, k + 1) = e + 1 \/ Nth(C, k + 1) < e + 1
            BY <2>2, <5>1, <5>8, <5>10
          <6> QED
            BY <3>2, <5>1, <6>1 DEF f
        <5>12. e < f
          BY <3>2, <5>1, <5>4
        <5> QED
          BY <3>2, <5>1, <5>11, <5>12
      <4>2. CASE ~(k < K)
        <5>1. EndOf(data, k) = N
          BY <2>3, <4>2
        <5>2. ASSUME o[2] + 1 \in PesCuts(p) PROVE FALSE
          <6>1. e + 1 \in 1 .. N /\ p.start + (e + 1) - 1 = o[2] + 1
            BY <2>6, <3>2, <5>2
          <6>2. e + 1 \in C
            BY <1>2, <5>2, <6>1
          <6>3. PICK l \in 1 .. K : Nth(C, l) = e + 1
            BY <2>2, <6>2
          <6>4. k = l \/ l < k
            BY <2>2, <4>2
          <6> QED
            BY <2>2, <3>2, <3>4, <6>3, <6>4
        <5>3. o[2] = p.stop
          BY <3>1, <5>2
        <5> QED
          BY <5>1, <5>3
      <4> QED
        BY <4>1, <4>2
    <3>6. made[k].data = Units(p.start + j - 1, p.start + e - 1)
      BY <2>7, <3>4, <3>5
    <3> QED
      BY <3>2, <3>6
  <2>10. /\ \A k \in 1 .. Len(made) : \E o \in Parts(p) : made[k].data = Units(o[1], o[2])
         /\ \A o \in Parts(p) : \E k \in 1 .. Len(made) : made[k].data = Units(o[1], o[2])
    BY <2>4, <2>8, <2>9
  <2> QED
    BY <2>10 DEF made, data
<1> QED
  BY <1>4, <1>5

(* A PES packet that has arrived as a whole is made into what is owed.     *)
LEMMA MadeOfWhole ==
  ASSUME kind \in DOMAIN Broadcasts, kind \notin Framed,
         NEW m \in DOMAIN Pes, NEW withSequence \in BOOLEAN
  PROVE  LET made == Made(Units(Pes[m].start, Pes[m].stop), withSequence)
         IN  /\ \A i \in 1 .. Len(made) :
                  \E o \in InPes(Pes[m]) : made[i].data = Units(o[1], o[2])
             /\ (kind = "mpeg2" => withSequence) =>
                  \A o \in InPes(Pes[m]) :
                    \E i \in 1 .. Len(made) : made[i].data = Units(o[1], o[2])
<1> DEFINE p == Pes[m]
           data == Units(p.start, p.stop)
           N == p.stop + 1 - p.start
           made == Made(data, withSequence)
<1>1. p.start \in Nat /\ p.stop \in Nat /\ p.start <= p.stop
  BY Row
<1> HIDE DEF p
<1>2. /\ data \in Seq(p.start .. p.stop) /\ Len(data) = N
      /\ \A i \in 1 .. N : data[i] = p.start + i - 1
  <2>1. p.start <= p.stop + 1
    BY <1>1
  <2> QED
    BY <1>1, <2>1, UnitsProperties
<1>3. ASSUME NEW o, InPes(p) = {o}, NEW x, made = <<x>>, x.data = Units(o[1], o[2])
      PROVE  /\ \A i \in 1 .. Len(made) : \E q \in InPes(p) : made[i].data = Units(q[1], q[2])
             /\ \A q \in InPes(p) : \E i \in 1 .. Len(made) : made[i].data = Units(q[1], q[2])
  <2> HIDE DEF made
  <2>1. Len(made) = 1 /\ made[1] = x
    BY <1>3
  <2> QED
    BY <1>3, <2>1
<1>4. CASE kind = "mpeg2"
  <2>1. InPes(p) = Parts(p) /\ made = IF withSequence THEN Pictures(data) ELSE <<>>
    BY <1>4 DEF InPes, Made
  <2>2. CASE withSequence
    BY <1>1, <2>1, <2>2, WholePictures DEF p
  <2>3. CASE ~withSequence
    <3>1. made = <<>>
      BY <2>1, <2>3
    <3> HIDE DEF made
    <3>2. Len(made) = 0
      BY <3>1
    <3> QED
      BY <1>4, <2>3, <3>2 DEF made, p
  <2> QED
    BY <2>2, <2>3
<1>5. CASE kind = "subtitle"
  <2>1. InPes(p) = Inside(p) /\ made = Subtitle(data)
    BY <1>5 DEF InPes, Made
  <2>2. CASE p.start + 2 <= p.stop /\ Marks[p.start].is = "first" /\ Marks[p.stop].is = "last"
    <3>1. InPes(p) = {<<p.start + 1, p.stop - 1>>}
      BY <2>1, <2>2 DEF Inside
    <3>2. 1 \in 1 .. N /\ N \in 1 .. N /\ p.start + 1 - 1 = p.start /\ p.start + N - 1 = p.stop
      BY <1>1
    <3>3. data[1] = p.start /\ data[N] = p.stop /\ N >= 3
      <4>1. data[1] = p.start + 1 - 1 /\ data[N] = p.start + N - 1
        BY <1>2, <3>2
      <4>2. N >= 3
        BY <1>1, <2>2
      <4> QED
        BY <3>2, <4>1, <4>2
    <3> HIDE DEF data
    <3>4. made = <<[data |-> SubSeq(data, 2, N - 1), pts |-> curPTS]>>
      BY <1>2, <2>1, <2>2, <3>3 DEF Subtitle, IsAt
    <3>5. SubSeq(data, 2, N - 1) = Units(p.start + 1, p.stop - 1)
      <4>1. 2 \in 1 .. N /\ N - 1 \in 1 .. N /\ 2 <= N - 1
        BY <1>1, <2>2
      <4>2. SubSeq(data, 2, N - 1) = Units(p.start + 2 - 1, p.start + (N - 1) - 1)
        BY <1>1, <4>1, UnitsPart DEF data
      <4>3. p.start + 2 - 1 = p.start + 1 /\ p.start + (N - 1) - 1 = p.stop - 1
        BY <1>1
      <4> QED
        BY <4>2, <4>3
    <3> DEFINE o == <<p.start + 1, p.stop - 1>>
               x == [data |-> SubSeq(data, 2, N - 1), pts |-> curPTS]
    <3>6. o[1] = p.start + 1 /\ o[2] = p.stop - 1 /\ x.data = SubSeq(data, 2, N - 1)
      OBVIOUS
    <3>7. InPes(p) = {o} /\ made = <<x>> /\ x.data = Units(o[1], o[2])
      BY <3>1, <3>4, <3>5, <3>6
    <3> HIDE DEF o, x, made
    <3> QED
      BY <1>3, <3>7 DEF made, data, p
  <2>3. CASE ~(p.start + 2 <= p.stop /\ Marks[p.start].is = "first" /\ Marks[p.stop].is = "last")
    <3>1. InPes(p) = {}
      BY <2>1, <2>3 DEF Inside
    <3>2. 1 \in 1 .. N /\ N \in 1 .. N /\ p.start + 1 - 1 = p.start /\ p.start + N - 1 = p.stop
      BY <1>1
    <3>3. data[1] = p.start /\ data[N] = p.stop /\ (N >= 3 <=> p.start + 2 <= p.stop)
      <4>1. data[1] = p.start + 1 - 1 /\ data[N] = p.start + N - 1
        BY <1>2, <3>2
      <4>2. N >= 3 <=> p.start + 2 <= p.stop
        BY <1>1
      <4> QED
        BY <3>2, <4>1, <4>2
    <3> HIDE DEF data
    <3>4. made = <<>>
      BY <1>2, <2>1, <2>3, <3>3 DEF Subtitle, IsAt
    <3> HIDE DEF made
    <3>5. Len(made) = 0
      BY <3>4
    <3> QED
      BY <3>1, <3>5 DEF made, data, p
  <2> QED
    BY <2>2, <2>3
<1>6. CASE kind \notin {"mpeg2", "subtitle"}
  <2> DEFINE x == [data |-> data, pts |-> curPTS]
             o == Whole(p)
  <2>1. InPes(p) = {o} /\ made = <<x>> /\ x.data = Units(o[1], o[2])
    BY <1>6 DEF InPes, Made, Whole
  <2> HIDE DEF o, x, made
  <2> QED
    BY <1>3, <2>1 DEF made, data, p
<1> QED
  BY <1>4, <1>5, <1>6

(***************************************************************************)
(* Types.                                                                  *)
(***************************************************************************)
Rising(s) == \A i, j \in 1 .. Len(s) : i < j => s[i] < s[j]

LEMMA RisingConcat ==
  ASSUME NEW n \in Nat, NEW m \in Nat, n <= m, NEW s \in Seq(1 .. n), NEW t \in Seq((n + 1) .. m),
         Rising(s), Rising(t)
  PROVE  s \o t \in Seq(1 .. m) /\ Len(s \o t) = Len(s) + Len(t) /\ Rising(s \o t)
<1>1. s \in Seq(1 .. m) /\ t \in Seq(1 .. m)
  <2>1. 1 .. n \subseteq 1 .. m /\ (n + 1) .. m \subseteq 1 .. m
    OBVIOUS
  <2> QED
    BY <2>1, SeqMonotonic
<1>2. /\ s \o t \in Seq(1 .. m) /\ Len(s \o t) = Len(s) + Len(t)
      /\ \A i \in 1 .. Len(s) + Len(t) : (s \o t)[i] = IF i <= Len(s) THEN s[i] ELSE t[i - Len(s)]
  BY <1>1, ConcatProperties
<1>3. Len(s) \in Nat /\ Len(t) \in Nat
  OBVIOUS
<1>4. ASSUME NEW i \in 1 .. Len(s) + Len(t), NEW j \in 1 .. Len(s) + Len(t), i < j
      PROVE  (s \o t)[i] < (s \o t)[j]
  <2>1. CASE j <= Len(s)
    <3>1. i \in 1 .. Len(s) /\ j \in 1 .. Len(s)
      BY <1>3, <1>4, <2>1
    <3> QED
      BY <1>2, <1>4, <3>1, <2>1 DEF Rising
  <2>2. CASE i <= Len(s) /\ ~(j <= Len(s))
    <3>1. i \in 1 .. Len(s) /\ j - Len(s) \in 1 .. Len(t)
      BY <1>3, <2>2
    <3>2. s[i] \in 1 .. n /\ t[j - Len(s)] \in (n + 1) .. m
      BY <3>1, ElementOfSeq
    <3> QED
      BY <1>2, <2>2, <3>2
  <2>3. CASE ~(i <= Len(s))
    <3>1. i - Len(s) \in 1 .. Len(t) /\ j - Len(s) \in 1 .. Len(t) /\ i - Len(s) < j - Len(s)
          /\ ~(j <= Len(s))
      BY <1>3, <1>4, <2>3
    <3> QED
      BY <1>2, <2>3, <3>1 DEF Rising
  <2> QED
    BY <1>3, <2>1, <2>2, <2>3
<1> QED
  BY <1>2, <1>4 DEF Rising

LEMMA RisingPart ==
  ASSUME NEW A, A \subseteq Nat, NEW s \in Seq(A), Rising(s),
         NEW a \in 1 .. Len(s) + 1, NEW b \in 0 .. Len(s)
  PROVE  /\ SubSeq(s, a, b) \in Seq(A) /\ Rising(SubSeq(s, a, b))
         /\ Len(SubSeq(s, a, b)) = IF a <= b THEN b + 1 - a ELSE 0
<1>1. /\ SubSeq(s, a, b) \in Seq(A)
      /\ Len(SubSeq(s, a, b)) = IF a <= b THEN b + 1 - a ELSE 0
      /\ \A i \in 1 .. (b + 1 - a) : SubSeq(s, a, b)[i] = s[a + i - 1]
  BY PartIn
<1>2. ASSUME NEW i \in 1 .. Len(SubSeq(s, a, b)), NEW j \in 1 .. Len(SubSeq(s, a, b)), i < j
      PROVE  SubSeq(s, a, b)[i] < SubSeq(s, a, b)[j]
  <2>1. Len(s) \in Nat /\ a <= b
    BY <1>1
  <2>2. i \in 1 .. (b + 1 - a) /\ j \in 1 .. (b + 1 - a)
    BY <1>1, <2>1
  <2>3. /\ a + i - 1 \in 1 .. Len(s) /\ a + j - 1 \in 1 .. Len(s)
        /\ a + i - 1 < a + j - 1
    BY <1>2, <2>1, <2>2
  <2> QED
    BY <1>1, <2>2, <2>3 DEF Rising
<1> QED
  BY <1>1, <1>2 DEF Rising

ParserInv == ParserTypeOK /\ Rising(buffer)

LEMMA InitParserInv == ParserInit => ParserInv
<1> SUFFICES ASSUME ParserInit PROVE ParserInv
  OBVIOUS
<1>1. Len(Marks) \in Nat
  BY Row DEF ParserInit
<1>2. NoPts \in Stamps
  BY DEF Stamps
<1>3. buffer = <<>> /\ sent = <<>> /\ Len(buffer) = 0
  BY DEF ParserInit
<1>4. buffer \in Seq(1 .. (next - 1)) /\ Rising(buffer)
  BY <1>3 DEF Rising
<1>5. sent \in Seq([data : Seq(1 .. (next - 1)) \ {<<>>}, pts : Stamps])
  BY <1>3
<1>6. /\ next \in 1 .. (Len(Marks) + 1) /\ length \in 0 .. Len(Marks)
      /\ Len(buffer) <= BufferSize /\ lost \in 0 .. MaxLost
  BY <1>1, <1>3, Parameters DEF ParserInit
<1>7. /\ kind \in DOMAIN Broadcasts /\ startup \in BOOLEAN /\ sequence \in BOOLEAN
      /\ curPTS \in Stamps /\ gone \subseteq 1 .. (next - 1)
  BY <1>2 DEF ParserInit
<1> QED
  BY <1>4, <1>5, <1>6, <1>7 DEF ParserInv, ParserTypeOK

LEMMA StampTypes ==
  ASSUME kind \in DOMAIN Broadcasts, next \in 1 .. Len(Marks), NEW pts \in Stamps
  PROVE  HeaderPts(pts) \in Stamps /\ NewPts(pts) \in Stamps /\ PtsAdd(pts, Duration) \in Stamps
<1>1. Pes[PesOf(next)].pts \in Stamps
  BY Row, NextPacket
<1>2. HeaderPts(pts) \in Stamps
  BY <1>1 DEF HeaderPts
<1>3. NewPts(pts) \in Stamps
  BY <1>2 DEF NewPts, Greatest
<1>4. PtsAdd(pts, Duration) \in Stamps
  <2>1. (IF pts = NoPts THEN 0 ELSE pts) \in Nat
    BY DEF Stamps, NoPts
  <2> DEFINE d == (IF pts = NoPts THEN 0 ELSE pts) + Duration
  <2>2. d \in Nat
    BY <2>1, Parameters
  <2>3. d % Modulus \in 0 .. (Modulus - 1)
    <3> HIDE DEF d
    <3> QED
      BY <2>2, Parameters
  <2> QED
    BY <2>3 DEF PtsAdd, Stamps
<1> QED
  BY <1>2, <1>3, <1>4

(* The next TS packet behind what has arrived.                             *)
LEMMA DataFollows ==
  ASSUME ParserTypeOK, next \in 1 .. Len(Marks), NEW s \in Seq(1 .. (next - 1)), Rising(s),
         NEW n \in 0 .. Len(Data)
  PROVE  /\ s \o SubSeq(Data, 1, n) \in Seq(1 .. LastOfPacket)
         /\ Len(s \o SubSeq(Data, 1, n)) = Len(s) + n
         /\ Rising(s \o SubSeq(Data, 1, n))
<1>1. /\ LastOfPacket \in Nat /\ next - 1 \in Nat /\ next - 1 <= LastOfPacket /\ next - 1 + 1 = next
      /\ Data \in Seq(next .. LastOfPacket) /\ Len(Data) \in Nat
      /\ \A i \in 1 .. Len(Data) : Data[i] = next + i - 1
  <2>1. /\ LastOfPacket \in next .. Len(Marks) /\ Len(Marks) \in Nat
        /\ Data \in Seq(next .. LastOfPacket)
        /\ \A i \in 1 .. Len(Data) : Data[i] = next + i - 1
    BY NextPacket, Row DEF ParserTypeOK
  <2>2. Len(Data) \in Nat
    BY <2>1, LenProperties
  <2> QED
    BY <2>1, <2>2
<1>2. Rising(Data) /\ next .. LastOfPacket \subseteq Nat
  BY <1>1 DEF Rising
<1>3. 1 \in 1 .. Len(Data) + 1
  BY <1>1
<1>4. /\ SubSeq(Data, 1, n) \in Seq(next .. LastOfPacket) /\ Rising(SubSeq(Data, 1, n))
      /\ Len(SubSeq(Data, 1, n)) = IF 1 <= n THEN n + 1 - 1 ELSE 0
  BY <1>1, <1>2, <1>3, RisingPart
<1>5. Len(SubSeq(Data, 1, n)) = n
  BY <1>1, <1>4
<1> DEFINE t == SubSeq(Data, 1, n)
           m == next - 1
<1> HIDE DEF t, m
<1>6. t \in Seq((m + 1) .. LastOfPacket) /\ Rising(t) /\ m \in Nat /\ m <= LastOfPacket
      /\ s \in Seq(1 .. m) /\ Len(t) = n
  BY <1>1, <1>4, <1>5 DEF t, m
<1>7. LastOfPacket \in Nat
  BY <1>1
<1>8. /\ s \o t \in Seq(1 .. LastOfPacket) /\ Len(s \o t) = Len(s) + Len(t)
      /\ Rising(s \o t)
  BY <1>6, <1>7, RisingConcat
<1> QED
  BY <1>6, <1>8 DEF t

LEMMA PutDataTypes ==
  ASSUME ParserTypeOK, next \in 1 .. Len(Marks), NEW rest \in Seq(1 .. (next - 1)), Rising(rest),
         Len(rest) <= BufferSize, NEW pts \in Stamps, PutData(rest, pts)
  PROVE  /\ buffer' \in Seq(1 .. LastOfPacket) /\ Len(buffer') <= BufferSize /\ Rising(buffer')
         /\ curPTS' \in Stamps /\ startup' \in BOOLEAN /\ gone' \subseteq 1 .. LastOfPacket
<1>1. /\ LastOfPacket \in Nat /\ next \in Nat /\ next <= LastOfPacket
      /\ Data \in Seq(next .. LastOfPacket) /\ Len(Data) \in Nat
  BY NextPacket, Row DEF ParserTypeOK
<1>2. 1 .. (next - 1) \subseteq 1 .. LastOfPacket /\ next .. LastOfPacket \subseteq 1 .. LastOfPacket
  BY <1>1
<1>3. rest \in Seq(1 .. LastOfPacket)
  BY <1>2, SeqMonotonic
<1>4. SubSeq(Data, 1, Len(Data)) = Data
  BY <1>1, SubSeqFull
<1>5. /\ rest \o Data \in Seq(1 .. LastOfPacket) /\ Rising(rest \o Data)
      /\ Len(rest \o Data) = Len(rest) + Len(Data)
  <2>1. Len(Data) \in 0 .. Len(Data)
    BY <1>1
  <2>2. /\ rest \o SubSeq(Data, 1, Len(Data)) \in Seq(1 .. LastOfPacket)
        /\ Len(rest \o SubSeq(Data, 1, Len(Data))) = Len(rest) + Len(Data)
        /\ Rising(rest \o SubSeq(Data, 1, Len(Data)))
    BY <2>1, DataFollows
  <2> QED
    BY <1>4, <2>2
<1>6. \/ buffer' = rest
      \/ buffer' = <<>>
      \/ buffer' = rest \o Data /\ ~Overflow(rest)
  <2>1. buffer' = IF startup' THEN rest ELSE Filled(rest)
    BY DEF PutData
  <2>2. Filled(rest) = IF Overflow(rest) THEN <<>> ELSE rest \o Data
    BY DEF Filled
  <2> QED
    BY <2>1, <2>2
<1>7. buffer' \in Seq(1 .. LastOfPacket) /\ Len(buffer') <= BufferSize /\ Rising(buffer')
  <2>1. CASE buffer' = rest
    BY <1>3, <2>1
  <2>2. CASE buffer' = <<>>
    <3>1. Len(<<>>) = 0 /\ <<>> \in Seq(1 .. LastOfPacket)
      OBVIOUS
    <3>2. Rising(<<>>)
      BY <3>1 DEF Rising
    <3> QED
      BY <2>2, <3>1, <3>2, Parameters
  <2>3. CASE buffer' = rest \o Data /\ ~Overflow(rest)
    <3>1. Len(rest) \in Nat
      OBVIOUS
    <3> QED
      BY <1>1, <1>5, <2>3, <3>1, Parameters DEF Overflow
  <2> QED
    BY <1>6, <2>1, <2>2, <2>3
<1>8. gone' \subseteq 1 .. LastOfPacket
  <2>1. Elements(rest) \subseteq 1 .. LastOfPacket
    <3>1. DOMAIN rest = 1 .. Len(rest) /\ \A i \in 1 .. Len(rest) : rest[i] \in 1 .. LastOfPacket
      BY <1>3, ElementOfSeq, LenProperties
    <3> QED
      BY <3>1 DEF Elements
  <2>2. Elements(Data) \subseteq 1 .. LastOfPacket
    BY <1>1, <1>2, ElementOfSeq, LenProperties DEF Elements
  <2>3. gone \subseteq 1 .. LastOfPacket
    BY <1>2 DEF ParserTypeOK
  <2> QED
    BY <2>1, <2>2, <2>3 DEF PutData
<1>9. curPTS' \in Stamps /\ startup' \in BOOLEAN
  BY StampTypes DEF PutData, ParserTypeOK
<1> QED
  BY <1>7, <1>8, <1>9

LEMMA LeastMember ==
  ASSUME NEW S, S \subseteq Nat, IsFiniteSet(S), S # {}
  PROVE  \E i \in S : \A j \in S : i <= j
<1>1. PICK k \in 1 .. Cardinality(S) : TRUE
  BY NthProperties
<1>2. Cardinality(S) \in Nat /\ 1 \in 1 .. Cardinality(S)
  <2>1. Cardinality(S) \in Nat
    BY NthProperties
  <2> QED
    BY <1>1, <2>1
<1>3. Nth(S, 1) \in S
  BY <1>2, NthProperties
<1>4. ASSUME NEW j \in S PROVE Nth(S, 1) <= j
  <2>1. PICK l \in 1 .. Cardinality(S) : Nth(S, l) = j
    BY NthProperties
  <2>2. l = 1 \/ 1 < l
    BY <1>2
  <2>3. Nth(S, 1) = j \/ Nth(S, 1) < j
    BY <1>2, <2>1, <2>2, NthProperties
  <2>4. Nth(S, 1) \in Nat /\ j \in Nat
    BY <1>3
  <2> QED
    BY <2>3, <2>4
<1> QED
  BY <1>3, <1>4

LEMMA GreatestMember ==
  ASSUME NEW S, S \subseteq Nat, IsFiniteSet(S), S # {}
  PROVE  \E i \in S : \A j \in S : j <= i
<1> DEFINE k == Cardinality(S)
<1>1. k \in Nat /\ k \in 1 .. k
  <2>1. k \in Nat /\ \E i \in 1 .. k : TRUE
    BY NthProperties
  <2> HIDE DEF k
  <2> QED
    BY <2>1
<1>2. Nth(S, k) \in S
  BY <1>1, NthProperties
<1>3. ASSUME NEW j \in S PROVE j <= Nth(S, k)
  <2>1. PICK l \in 1 .. k : Nth(S, l) = j
    BY NthProperties
  <2>2. l = k \/ l < k
    BY <1>1
  <2>3. j = Nth(S, k) \/ j < Nth(S, k)
    BY <1>1, <2>1, <2>2, NthProperties
  <2>4. Nth(S, k) \in Nat /\ j \in Nat
    BY <1>2
  <2> QED
    BY <2>3, <2>4
<1> QED
  BY <1>2, <1>3

(* The parser stays within what is in its buffer.                          *)
LEMMA OffsetWithinBuffer ==
  ASSUME Len(buffer) \in Nat
  PROVE  /\ Got = buffer \/ (Got = <<>> /\ Len(Got) = 0)
         /\ FindAlignmentOffset \in 0 .. Len(buffer)
         /\ \/ FindAlignmentOffset = 0
            \/ /\ Got = buffer /\ FindAlignmentOffset \in Places
               /\ \A p \in Places : FindAlignmentOffset <= p
<1>1. Got = buffer \/ (Got = <<>> /\ Len(Got) = 0)
  BY DEF Got
<1>2. /\ FindAlignmentOffset \in 0 .. Len(buffer)
      /\ \/ FindAlignmentOffset = 0
         \/ /\ Got = buffer /\ FindAlignmentOffset \in Places
            /\ \A p \in Places : FindAlignmentOffset <= p
  <2> DEFINE first == CHOOSE o \in Places : \A p \in Places : o <= p
  <2>0. FindAlignmentOffset = 0 \/ (Places # {} /\ FindAlignmentOffset = first)
    BY DEF FindAlignmentOffset
  <2>1. CASE FindAlignmentOffset = 0
    BY <2>1
  <2>2. CASE Places # {} /\ FindAlignmentOffset = first
    <3>1. Len(Got) \in Nat /\ Len(Got) <= Len(buffer)
      BY <1>1
    <3>2. Places \subseteq 0 .. (Len(Got) - 1) /\ Places \subseteq Nat
      BY <3>1 DEF Places
    <3>3. IsFiniteSet(0 .. (Len(Got) - 1))
      <4>1. Len(Got) - 1 \in Int /\ 0 \in Int
        BY <3>1
      <4> QED
        BY <4>1, FS_Interval
    <3>4. IsFiniteSet(Places)
      BY <3>2, <3>3, FS_Subset
    <3>5. \E o \in Places : \A p \in Places : o <= p
      BY <2>2, <3>2, <3>4, LeastMember
    <3>6. first \in Places /\ \A p \in Places : first <= p
      BY <3>5
    <3> HIDE DEF first
    <3>7. FindAlignmentOffset \in 0 .. (Len(Got) - 1)
      BY <2>2, <3>2, <3>6
    <3>8. Got = buffer
      <4>1. Len(Got) # 0
        BY <3>1, <3>7
      <4> QED
        BY <1>1, <4>1
    <3> QED
      BY <2>2, <3>1, <3>6, <3>7, <3>8
  <2> HIDE DEF first
  <2> QED
    BY <2>0, <2>1, <2>2
<1> QED
  BY <1>1, <1>2

LEMMA CutTypes ==
  ASSUME ParserInv, NEW n \in 0 .. Len(buffer)
  PROVE  /\ Cut(buffer, n) \in Seq(1 .. (next - 1)) /\ Rising(Cut(buffer, n))
         /\ Len(Cut(buffer, n)) = Len(buffer) - n /\ Len(Cut(buffer, n)) <= BufferSize
<1>1. /\ buffer \in Seq(1 .. (next - 1)) /\ Rising(buffer) /\ Len(buffer) <= BufferSize
      /\ 1 .. (next - 1) \subseteq Nat
  BY DEF ParserInv, ParserTypeOK
<1>2. Len(buffer) \in Nat /\ n + 1 \in 1 .. Len(buffer) + 1 /\ Len(buffer) \in 0 .. Len(buffer)
  BY <1>1
<1>3. /\ Cut(buffer, n) \in Seq(1 .. (next - 1)) /\ Rising(Cut(buffer, n))
      /\ Len(Cut(buffer, n)) = IF n + 1 <= Len(buffer) THEN Len(buffer) + 1 - (n + 1) ELSE 0
  BY <1>1, <1>2, RisingPart DEF Cut
<1>4. Len(Cut(buffer, n)) = Len(buffer) - n
  BY <1>2, <1>3
<1> QED
  BY <1>1, <1>2, <1>3, <1>4, Parameters

(* The frame that is sent is the start of the buffer.                      *)
LEMMA CompleteFrame ==
  ASSUME ParserInv, Complete
  PROVE  /\ Got = buffer /\ buffer # <<>> /\ buffer[1] \in 1 .. (next - 1)
         /\ FrameSize(0) \in 1 .. Len(buffer) /\ FrameSize(0) = Marks[buffer[1]].size
         /\ Marks[buffer[1]].is \in {"frame", "fake"}
         /\ SubSeq(buffer, 1, FrameSize(0)) \in Seq(1 .. (next - 1)) \ {<<>>}
<1>1. buffer \in Seq(1 .. (next - 1)) /\ Len(buffer) \in Nat /\ next - 1 \in 0 .. Len(Marks)
  BY Row DEF ParserInv, ParserTypeOK
<1>2. Got = buffer /\ Len(buffer) > 0
  BY <1>1, OffsetWithinBuffer, Parameters DEF Complete, InSync
<1>3. buffer # <<>> /\ buffer[1] \in 1 .. (next - 1)
  BY <1>1, <1>2
<1>4. /\ Marks[buffer[1]].is \in {"frame", "fake"} /\ FrameSize(0) = Marks[buffer[1]].size
      /\ Len(buffer) >= FrameSize(0) /\ FrameSize(0) > 0
  BY <1>2 DEF Complete, InSync, Aligned, FrameSize
<1>5. FrameSize(0) \in 1 .. Len(buffer)
  <2>1. buffer[1] \in 1 .. Len(Marks) /\ kind \in DOMAIN Broadcasts
    BY <1>1, <1>3 DEF ParserInv, ParserTypeOK
  <2>2. FrameSize(0) \in Nat /\ FrameSize(0) > 0
    BY <1>4, <2>1, Row
  <2> QED
    BY <1>1, <1>4, <2>2, Parameters
<1>6. 1 \in 1 .. Len(buffer) + 1 /\ FrameSize(0) \in 0 .. Len(buffer) /\ 1 <= FrameSize(0)
  BY <1>1, <1>5
<1>7. /\ SubSeq(buffer, 1, FrameSize(0)) \in Seq(1 .. (next - 1))
      /\ Len(SubSeq(buffer, 1, FrameSize(0))) = FrameSize(0) + 1 - 1
  BY <1>1, <1>6, PartIn
<1>8. SubSeq(buffer, 1, FrameSize(0)) # <<>>
  BY <1>5, <1>6, <1>7
<1> QED
  BY <1>2, <1>3, <1>4, <1>5, <1>7, <1>8

SentType(n) == Seq([data : Seq(1 .. n) \ {<<>>}, pts : Stamps])

LEMMA SentWidens ==
  ASSUME NEW m \in Nat, NEW n \in Nat, m <= n, NEW s \in SentType(m)
  PROVE  s \in SentType(n)
<1>1. 1 .. m \subseteq 1 .. n
  OBVIOUS
<1>2. Seq(1 .. m) \subseteq Seq(1 .. n)
  BY <1>1, SeqMonotonic
<1>3. [data : Seq(1 .. m) \ {<<>>}, pts : Stamps] \subseteq [data : Seq(1 .. n) \ {<<>>}, pts : Stamps]
  BY <1>2
<1> QED
  BY <1>3, SeqMonotonic DEF SentType

LEMMA ParseFramesTypes ==
  ASSUME ParserInv, next \in 1 .. Len(Marks), ParseFrames
  PROVE  /\ buffer' \in Seq(1 .. LastOfPacket) /\ Len(buffer') <= BufferSize /\ Rising(buffer')
         /\ curPTS' \in Stamps /\ startup' \in BOOLEAN /\ gone' \subseteq 1 .. LastOfPacket
         /\ sent' \in SentType(LastOfPacket) /\ length' = length /\ sequence' = sequence
<1>0. ParserTypeOK /\ kind \in DOMAIN Broadcasts /\ curPTS \in Stamps /\ Len(buffer) \in Nat
  BY DEF ParserInv, ParserTypeOK
<1>1. next - 1 \in Nat /\ LastOfPacket \in Nat /\ next - 1 <= LastOfPacket
  BY <1>0, NextPacket, Row
<1>2. sent \in SentType(next - 1) /\ sent \in SentType(LastOfPacket)
  <2>1. sent \in SentType(next - 1)
    BY <1>0 DEF ParserTypeOK, SentType
  <2> QED
    BY <1>1, <2>1, SentWidens
<1>3. CASE Complete /\ SendFrame /\ PutData(Taken(FrameSize(0)), PtsAdd(curPTS, Duration))
  <2>1. /\ FrameSize(0) \in 0 .. Len(buffer)
        /\ SubSeq(buffer, 1, FrameSize(0)) \in Seq(1 .. (next - 1)) \ {<<>>}
    BY <1>0, <1>3, CompleteFrame
  <2>2. /\ Taken(FrameSize(0)) \in Seq(1 .. (next - 1)) /\ Rising(Taken(FrameSize(0)))
        /\ Len(Taken(FrameSize(0))) <= BufferSize
    BY <2>1, CutTypes DEF Taken
  <2>3. PtsAdd(curPTS, Duration) \in Stamps
    BY <1>0, StampTypes
  <2>4. /\ buffer' \in Seq(1 .. LastOfPacket) /\ Len(buffer') <= BufferSize /\ Rising(buffer')
        /\ curPTS' \in Stamps /\ startup' \in BOOLEAN /\ gone' \subseteq 1 .. LastOfPacket
    BY <1>0, <1>3, <2>2, <2>3, PutDataTypes
  <2>5. [data |-> SubSeq(buffer, 1, FrameSize(0)), pts |-> curPTS]
          \in [data : Seq(1 .. (next - 1)) \ {<<>>}, pts : Stamps]
    BY <1>0, <2>1
  <2>6. sent' \in SentType(next - 1)
    BY <1>2, <1>3, <2>5, AppendProperties DEF SentType, SendFrame
  <2>7. sent' \in SentType(LastOfPacket)
    BY <1>1, <2>6, SentWidens
  <2> QED
    BY <2>4, <2>7 DEF ParseFrames
<1>4. CASE PutData(buffer, curPTS) /\ UNCHANGED sent
  <2>1. buffer \in Seq(1 .. (next - 1)) /\ Len(buffer) <= BufferSize /\ Rising(buffer)
    BY DEF ParserInv, ParserTypeOK
  <2> QED
    BY <1>0, <1>2, <1>4, <2>1, PutDataTypes DEF ParseFrames
<1>5. CASE PutData(Cut(buffer, FindAlignmentOffset), curPTS) /\ UNCHANGED sent
  <2>1. FindAlignmentOffset \in 0 .. Len(buffer)
    BY <1>0, OffsetWithinBuffer
  <2> DEFINE rest == Cut(buffer, FindAlignmentOffset)
  <2>2. rest \in Seq(1 .. (next - 1)) /\ Rising(rest) /\ Len(rest) <= BufferSize
    BY <2>1, CutTypes
  <2> HIDE DEF rest
  <2>3. PutData(rest, curPTS)
    BY <1>5 DEF rest
  <2> QED
    BY <1>0, <1>2, <1>5, <2>2, <2>3, PutDataTypes DEF ParseFrames
<1> QED
  BY <1>3, <1>4, <1>5 DEF ParseFrames

LEMMA AssemblingProperties ==
  ASSUME ParserInv, Assembled
  PROVE  /\ Assembling \in Seq(1 .. (next - 1)) /\ Assembling # <<>> /\ Rising(Assembling)
         /\ Assembling = SubSeq(buffer, 1, IF length = 0 THEN Len(buffer) ELSE length)
         /\ (IF length = 0 THEN Len(buffer) ELSE length) \in 1 .. Len(buffer)
<1> DEFINE n == IF length = 0 THEN Len(buffer) ELSE length
<1>1. /\ buffer \in Seq(1 .. (next - 1)) /\ Rising(buffer) /\ Len(buffer) \in Nat
      /\ length \in Nat /\ 1 .. (next - 1) \subseteq Nat
  BY Row DEF ParserInv, ParserTypeOK
<1>2. n \in 1 .. Len(buffer)
  <2>1. CASE length # 0 /\ Len(buffer) >= length
    BY <1>1, <2>1
  <2>2. CASE length = 0 /\ buffer # <<>>
    <3>1. Len(buffer) # 0
      BY <1>1, <2>2, EmptySeq
    <3> QED
      BY <1>1, <2>2, <3>1
  <2> QED
    BY <2>1, <2>2 DEF Assembled
<1>3. Assembling = SubSeq(buffer, 1, n)
  BY DEF Assembling
<1> HIDE DEF n
<1>4. 1 \in 1 .. Len(buffer) + 1 /\ n \in 0 .. Len(buffer) /\ 1 <= n
  BY <1>1, <1>2
<1>5. /\ Assembling \in Seq(1 .. (next - 1)) /\ Rising(Assembling)
      /\ Len(Assembling) = n + 1 - 1
  BY <1>1, <1>3, <1>4, RisingPart
<1>6. Assembling # <<>>
  BY <1>2, <1>5
<1> QED
  BY <1>2, <1>3, <1>5, <1>6 DEF n

LEMMA SendPayloadMade ==
  ASSUME NEW data, SendPayload(data)
  PROVE  /\ sent' = sent \o Made(data, sequence')
         /\ sequence' = (sequence \/ (kind = "mpeg2" /\ HasSequence(data)))
BY DEF SendPayload, Made

LEMMA ParsePesTypes ==
  ASSUME ParserInv, next \in 1 .. Len(Marks), kind \notin Framed, ParsePes
  PROVE  /\ buffer' \in Seq(1 .. LastOfPacket) /\ Len(buffer') <= BufferSize /\ Rising(buffer')
         /\ curPTS' \in Stamps /\ startup' \in BOOLEAN /\ gone' \subseteq 1 .. LastOfPacket
         /\ sent' \in SentType(LastOfPacket) /\ length' \in 0 .. Len(Marks)
         /\ sequence' \in BOOLEAN
<1>0. /\ ParserTypeOK /\ kind \in DOMAIN Broadcasts /\ curPTS \in Stamps /\ Len(buffer) \in Nat
      /\ sequence \in BOOLEAN /\ startup \in BOOLEAN
      /\ buffer \in Seq(1 .. (next - 1)) /\ Rising(buffer) /\ Len(buffer) <= BufferSize
  BY DEF ParserInv, ParserTypeOK
<1>1. /\ next - 1 \in Nat /\ LastOfPacket \in Nat /\ next - 1 <= LastOfPacket
      /\ Len(Data) \in Nat
  BY <1>0, NextPacket, Row
<1>2. sent \in SentType(next - 1)
  BY <1>0 DEF ParserTypeOK, SentType
<1>3. sent' \in SentType(LastOfPacket) /\ sequence' \in BOOLEAN
  <2>1. CASE Assembled /\ SendPayload(Assembling)
    <3>1. /\ Assembling \in Seq(1 .. (next - 1)) /\ Assembling # <<>> /\ Rising(Assembling)
      BY <2>1, AssemblingProperties
    <3>2. sent' = sent \o Made(Assembling, sequence')
      BY <2>1, SendPayloadMade
    <3>3. sequence' \in BOOLEAN
      BY <1>0, <2>1, SendPayloadMade
    <3> DEFINE data == Assembling
    <3> HIDE DEF data
    <3>4. Made(data, sequence') \in MadeType(next - 1)
      BY <1>0, <1>1, <3>1, MadeInOrder DEF Rising, data
    <3>5. sent' \in SentType(next - 1)
      BY <1>2, <3>2, <3>4, ConcatProperties DEF SentType, MadeType, data
    <3>6. sent' \in SentType(LastOfPacket)
      BY <1>1, <3>5, SentWidens
    <3> QED
      BY <3>3, <3>6
  <2>2. CASE UNCHANGED <<sent, sequence>>
    BY <1>0, <1>1, <1>2, <2>2, SentWidens
  <2> QED
    BY <2>1, <2>2 DEF ParsePes
<1>4. gone' \subseteq 1 .. LastOfPacket
  <2>1. gone \subseteq 1 .. (next - 1)
    BY <1>0 DEF ParserTypeOK
  <2> QED
    BY <1>1, <2>1 DEF ParsePes
<1>5. CASE Pusi /\ StartPes
  <2> DEFINE n == Least(Len(Data), BufferSize)
  <2>1. n \in 0 .. Len(Data) /\ n <= BufferSize
    BY <1>1, Parameters DEF Least
  <2> HIDE DEF n
  <2>2. <<>> \in Seq(1 .. (next - 1)) /\ Len(<<>>) = 0 /\ Rising(<<>>)
    BY DEF Rising
  <2>3. /\ <<>> \o SubSeq(Data, 1, n) \in Seq(1 .. LastOfPacket)
        /\ Len(<<>> \o SubSeq(Data, 1, n)) = Len(<<>>) + n
        /\ Rising(<<>> \o SubSeq(Data, 1, n))
    BY <1>0, <2>1, <2>2, DataFollows
  <2>4. <<>> \o SubSeq(Data, 1, n) = SubSeq(Data, 1, n)
    <3>1. Data \in Seq(next .. LastOfPacket) /\ 1 \in 1 .. Len(Data) + 1
      BY <1>0, <1>1, NextPacket
    <3>2. SubSeq(Data, 1, n) \in Seq(next .. LastOfPacket)
      BY <2>1, <3>1, PartIn
    <3> QED
      BY <3>2, ConcatEmptySeq
  <2>5. buffer' \in Seq(1 .. LastOfPacket) /\ Len(buffer') <= BufferSize /\ Rising(buffer')
    <3>1. buffer' = SubSeq(Data, 1, n)
      BY <1>5 DEF StartPes, n
    <3>2. n \in Nat /\ BufferSize \in Nat
      BY <2>1, Parameters
    <3> QED
      BY <2>1, <2>2, <2>3, <2>4, <3>1, <3>2
  <2>6. length' \in 0 .. Len(Marks)
    <3> DEFINE pes == Pes[PesOf(next)]
    <3>1. /\ pes.start \in Nat \ {0} /\ pes.stop \in Nat /\ pes.start <= pes.stop
          /\ pes.stop <= Len(Marks) /\ pes.sized \in BOOLEAN /\ Len(Marks) \in Nat
      BY <1>0, NextPacket, Row
    <3>2. length' = IF pes.sized THEN pes.stop + 1 - pes.start ELSE 0
      BY <1>5 DEF StartPes
    <3> HIDE DEF pes
    <3> QED
      BY <3>1, <3>2
  <2>7. curPTS' \in Stamps /\ startup' \in BOOLEAN
    BY <1>0, <1>5, StampTypes DEF StartPes
  <2> QED
    BY <1>3, <1>4, <2>5, <2>6, <2>7
<1>6. CASE ~Pusi /\ ContinuePes
  <2> DEFINE n == Least(Len(Data), BufferSize - Len(buffer))
  <2>1. n \in 0 .. Len(Data) /\ Len(buffer) + n <= BufferSize
    BY <1>0, <1>1, Parameters DEF Least
  <2> HIDE DEF n
  <2>2. /\ buffer \o SubSeq(Data, 1, n) \in Seq(1 .. LastOfPacket)
        /\ Len(buffer \o SubSeq(Data, 1, n)) = Len(buffer) + n
        /\ Rising(buffer \o SubSeq(Data, 1, n))
    BY <1>0, <2>1, DataFollows
  <2>3. buffer \in Seq(1 .. LastOfPacket)
    <3>1. 1 .. (next - 1) \subseteq 1 .. LastOfPacket
      BY <1>1
    <3> QED
      BY <1>0, <3>1, SeqMonotonic
  <2>4. buffer' \in {buffer, buffer \o SubSeq(Data, 1, n)}
    BY <1>6 DEF ContinuePes, n
  <2>5. buffer' \in Seq(1 .. LastOfPacket) /\ Len(buffer') <= BufferSize /\ Rising(buffer')
    BY <1>0, <2>1, <2>2, <2>3, <2>4
  <2>6. length' \in 0 .. Len(Marks) /\ curPTS' \in Stamps /\ startup' \in BOOLEAN
    BY <1>0, <1>6 DEF ContinuePes, ParserTypeOK
  <2> QED
    BY <1>3, <1>4, <2>5, <2>6
<1> QED
  BY <1>5, <1>6 DEF ParsePes

LEMMA ParserStep == ParserInv /\ [ParserNext]_parserVars => ParserInv'
<1> SUFFICES ASSUME ParserInv, [ParserNext]_parserVars PROVE ParserInv'
  OBVIOUS
<1>0. kind \in DOMAIN Broadcasts /\ ParserTypeOK /\ Len(Marks) \in Nat /\ next \in 1 .. (Len(Marks) + 1)
  BY Row DEF ParserInv, ParserTypeOK
<1>1. CASE UNCHANGED parserVars
  <2>1. Marks' = Marks
    BY <1>1 DEF parserVars, Marks
  <2> QED
    BY <1>1, <2>1 DEF parserVars, ParserInv, ParserTypeOK, Rising
<1>2. CASE Arrive
  <2>1. /\ next \in 1 .. Len(Marks) /\ next' = LastOfPacket + 1 /\ kind' = kind /\ lost' = lost
        /\ Marks' = Marks
    BY <1>0, <1>2 DEF Arrive, Marks
  <2>2. LastOfPacket \in next .. Len(Marks) /\ LastOfPacket + 1 - 1 = LastOfPacket
    BY <1>0, <2>1, NextPacket
  <2>3. /\ buffer' \in Seq(1 .. LastOfPacket) /\ Len(buffer') <= BufferSize /\ Rising(buffer')
        /\ curPTS' \in Stamps /\ startup' \in BOOLEAN /\ gone' \subseteq 1 .. LastOfPacket
        /\ sent' \in SentType(LastOfPacket) /\ length' \in 0 .. Len(Marks)
        /\ sequence' \in BOOLEAN
    <3>1. CASE kind \in Framed
      <4>1. ParseFrames
        BY <1>2, <3>1 DEF Arrive
      <4>2. length \in 0 .. Len(Marks) /\ sequence \in BOOLEAN
        BY <1>0 DEF ParserTypeOK
      <4> QED
        BY <2>1, <4>1, <4>2, ParseFramesTypes
    <3>2. CASE kind \notin Framed
      <4>1. ParsePes
        BY <1>2, <3>2 DEF Arrive
      <4> QED
        BY <2>1, <3>2, <4>1, ParsePesTypes
    <3> QED
      BY <3>1, <3>2
  <2>4. /\ buffer' \in Seq(1 .. (next' - 1)) /\ gone' \subseteq 1 .. (next' - 1)
        /\ sent' \in Seq([data : Seq(1 .. (next' - 1)) \ {<<>>}, pts : Stamps])
    <3>1. next' - 1 = LastOfPacket
      BY <2>1, <2>2
    <3> QED
      BY <2>3, <3>1 DEF SentType
  <2>5. /\ next' \in 1 .. (Len(Marks') + 1) /\ length' \in 0 .. Len(Marks')
        /\ lost' \in 0 .. MaxLost /\ kind' \in DOMAIN Broadcasts
    BY <1>0, <2>1, <2>2, <2>3 DEF ParserTypeOK
  <2> QED
    BY <2>3, <2>4, <2>5 DEF ParserInv, ParserTypeOK, Rising
<1>3. CASE LosePacket
  <2>1. /\ next \in 1 .. Len(Marks) /\ next' = LastOfPacket + 1 /\ kind' = kind
        /\ Marks' = Marks /\ lost' = lost + 1 /\ lost < MaxLost
        /\ gone' = gone \cup (next .. LastOfPacket)
        /\ UNCHANGED <<buffer, startup, length, curPTS, sequence, sent>>
    BY <1>0, <1>3 DEF LosePacket, Marks
  <2>2. /\ LastOfPacket \in next .. Len(Marks) /\ next' - 1 = LastOfPacket
        /\ next - 1 \in Nat /\ LastOfPacket \in Nat /\ next - 1 <= LastOfPacket
    BY <1>0, <2>1, NextPacket
  <2>3. buffer' \in Seq(1 .. (next' - 1)) /\ Rising(buffer')
    <3>1. 1 .. (next - 1) \subseteq 1 .. (next' - 1)
      BY <2>2
    <3> QED
      BY <2>1, <3>1, SeqMonotonic DEF ParserInv, ParserTypeOK, Rising
  <2>4. sent' \in Seq([data : Seq(1 .. (next' - 1)) \ {<<>>}, pts : Stamps])
    <3>1. sent \in SentType(next - 1)
      BY <1>0 DEF ParserTypeOK, SentType
    <3>2. sent \in SentType(LastOfPacket)
      BY <2>2, <3>1, SentWidens
    <3> QED
      BY <2>1, <2>2, <3>2 DEF SentType
  <2>5. gone' \subseteq 1 .. (next' - 1)
    BY <2>1, <2>2 DEF ParserInv, ParserTypeOK
  <2>6. /\ next' \in 1 .. (Len(Marks') + 1) /\ length' \in 0 .. Len(Marks')
        /\ lost' \in 0 .. MaxLost /\ kind' \in DOMAIN Broadcasts
    BY <1>0, <2>1, <2>2, Parameters DEF ParserTypeOK
  <2>7. /\ startup' \in BOOLEAN /\ sequence' \in BOOLEAN /\ curPTS' \in Stamps
        /\ Len(buffer') <= BufferSize
    BY <1>0, <2>1 DEF ParserTypeOK
  <2> QED
    BY <2>3, <2>4, <2>5, <2>6, <2>7 DEF ParserInv, ParserTypeOK
<1> QED
  BY <1>1, <1>2, <1>3 DEF ParserNext

(* The state of a parser has its types: the buffer stays within its size,  *)
(* whatever is broadcast, and only what has arrived is sent (parser.c,     *)
(* demuxer_PES.c).                                                         *)
THEOREM ParserTypeCorrect == ParserSpec => []ParserTypeOK
<1>1. ParserInit => ParserInv
  BY InitParserInv
<1>2. ParserInv /\ [ParserNext]_parserVars => ParserInv'
  BY ParserStep
<1>3. ParserInv => ParserTypeOK
  BY DEF ParserInv
<1> QED
  BY <1>1, <1>2, <1>3, PTL DEF ParserSpec

(***************************************************************************)
(* Parsers of PES packets.  The one that is assembled is the last one      *)
(* whose start has arrived; what is in the buffer are units from there on, *)
(* and as long as none of them is lost, all of them.                       *)
(***************************************************************************)
Fits == \A n \in DOMAIN Pes : Pes[n].stop + 1 - Pes[n].start <= BufferSize

Current(c) ==
  /\ c \in DOMAIN Pes /\ Pes[c].start < next /\ Pes[c].start \notin gone
  /\ \A n \in DOMAIN Pes : c < n /\ Pes[n].start < next => Pes[n].start \in gone

Filling(c) ==
  LET start == Pes[c].start
  IN /\ length = IF Pes[c].sized THEN Pes[c].stop + 1 - start ELSE 0
     /\ buffer # <<>>
     /\ \A i \in 1 .. Len(buffer) : buffer[i] >= start + i - 1
     /\ \A v \in start .. (next - 1) :
          v + 1 - start <= BufferSize /\ (\A u \in start .. v : u \notin gone) =>
            /\ Len(buffer) >= v + 1 - start
            /\ \A i \in 1 .. (v + 1 - start) : buffer[i] = start + i - 1

NothingYet ==
  /\ buffer = <<>> /\ sent = <<>>
  /\ \A n \in DOMAIN Pes : Pes[n].start < next => Pes[n].start \in gone

AssemblesOne == IF startup THEN NothingYet ELSE \E c \in DOMAIN Pes : Current(c) /\ Filling(c)

Before(i, u) == \A j \in 1 .. Len(sent[i].data) : sent[i].data[j] < u
From(i, u)   == \A j \in 1 .. Len(sent[i].data) : sent[i].data[j] >= u

\* Nothing that is sent reaches across the start of a PES packet that arrived,
\* and nothing of it is sent before its end is reached.
SentApart ==
  \A m \in DOMAIN Pes : Pes[m].start \notin gone /\ Pes[m].start < next =>
    \A i \in 1 .. Len(sent) :
      Before(i, Pes[m].start) \/ (From(i, Pes[m].start) /\ next > Pes[m].stop + 1)

HeaderIn(n) == \E u \in Pes[n].start .. Pes[n].stop : Marks[u].is = "sequence"

\* What is owed of a PES packet that is intact is sent once.
Delivered ==
  \A m \in DOMAIN Pes : Intact(m) /\ next > Pes[m].stop + 1 =>
    \A o \in InPes(Pes[m]) :
      (kind = "mpeg2" => \E n \in 1 .. m : Intact(n) /\ HeaderIn(n)) =>
        \E i \in 1 .. Len(sent) : Is(i, o) /\ \A j \in 1 .. Len(sent) : Is(j, o) => j = i

Genuine ==
  \A i \in 1 .. Len(sent) :
    (\E o \in Owed : Is(i, o)) \/ ~Intact(PesOf(sent[i].data[1]))

SentInOrder ==
  \A i, j \in 1 .. Len(sent) : i < j =>
    \/ sent[i].data[1] < sent[j].data[1]
    \/ ~Intact(PesOf(sent[i].data[1])) /\ ~Intact(PesOf(sent[j].data[1]))

HeaderSeen ==
  kind = "mpeg2" =>
    \A n \in DOMAIN Pes : Intact(n) /\ HeaderIn(n) /\ next > Pes[n].stop + 1 => sequence

PesInv ==
  kind \notin Framed /\ Fits =>
    AssemblesOne /\ SentApart /\ Delivered /\ Genuine /\ SentInOrder /\ HeaderSeen

LEMMA Rigid ==
  ASSUME kind' = kind
  PROVE  /\ Marks' = Marks /\ Pes' = Pes /\ Owed' = Owed /\ Fits' = Fits
         /\ \A u : PesOf(u)' = PesOf(u)
         /\ \A p : InPes(p)' = InPes(p)
<1>1. Marks' = Marks /\ Pes' = Pes /\ Fits' = Fits
  BY DEF Marks, Pes, Fits
<1>2. ASSUME NEW u PROVE PesOf(u)' = PesOf(u)
  BY DEF PesOf, Pes
<1>3. ASSUME NEW p PROVE InPes(p)' = InPes(p)
  BY DEF InPes, Inside, Parts, Whole, Marks
<1>4. Owed' = Owed
  BY DEF Owed, Frames, InPes, Inside, Parts, Whole, Marks, Pes
<1> QED
  BY <1>1, <1>2, <1>3, <1>4

LEMMA Shrinks ==
  ASSUME kind' = kind, gone \subseteq gone', NEW n, Intact(n)'
  PROVE  Intact(n)
<1>1. Pes' = Pes
  BY Rigid
<1> QED
  BY <1>1 DEF Intact

(* A TS packet has the start of a PES packet at its own start only.        *)
LEMMA NoStartInside ==
  ASSUME kind \in DOMAIN Broadcasts, next \in 1 .. Len(Marks), NEW n \in DOMAIN Pes,
         next <= Pes[n].start, Pes[n].start <= LastOfPacket
  PROVE  Pes[n].start = next /\ n = PesOf(next) /\ Pusi
<1> DEFINE m == PesOf(next)
<1>1. /\ m \in DOMAIN Pes /\ Pes[m].start <= next /\ next <= LastOfPacket
      /\ LastOfPacket <= Pes[m].stop
      /\ \A k \in DOMAIN Pes : Pes[k].start <= next /\ next <= Pes[k].stop => k = m
  BY NextPacket, UnitsPes
<1> HIDE DEF m
<1>2. /\ Pes[m].start \in Nat /\ Pes[m].stop \in Nat /\ Pes[n].start \in Nat /\ Pes[n].stop \in Nat
      /\ Pes[n].start <= Pes[n].stop /\ m \in Nat /\ n \in Nat
      /\ LastOfPacket \in Nat /\ next \in Nat
      /\ (m < n => Pes[m].stop < Pes[n].start) /\ (n < m => Pes[n].stop < Pes[m].start)
  <2>1. LastOfPacket \in next .. Len(Marks) /\ Len(Marks) \in Nat
    BY NextPacket, Row
  <2>2. m \in Nat /\ n \in Nat
    BY <1>1, Row
  <2>3. (m < n => Pes[m].stop < Pes[n].start) /\ (n < m => Pes[n].stop < Pes[m].start)
    BY <1>1, Row
  <2>4. /\ Pes[m].start \in Nat /\ Pes[m].stop \in Nat /\ Pes[n].start \in Nat /\ Pes[n].stop \in Nat
        /\ Pes[n].start <= Pes[n].stop
    BY <1>1, Row
  <2> QED
    BY <2>1, <2>2, <2>3, <2>4
<1>3. m = n
  BY <1>1, <1>2
<1>4. Pes[n].start = next
  BY <1>1, <1>2, <1>3
<1> QED
  BY <1>3, <1>4 DEF Pusi, m

(* The end of a PES packet is passed with the start of the next one.       *)
LEMMA PassingTheEnd ==
  ASSUME kind \in DOMAIN Broadcasts, next \in 1 .. Len(Marks), NEW m \in DOMAIN Pes,
         next <= Pes[m].stop + 1, LastOfPacket >= Pes[m].stop + 1
  PROVE  /\ m + 1 \in DOMAIN Pes /\ next = Pes[m].stop + 1 /\ Pes[m + 1].start = next /\ Pusi
<1> DEFINE n == PesOf(next)
<1>1. /\ n \in DOMAIN Pes /\ Pes[n].start <= next /\ next <= LastOfPacket
      /\ LastOfPacket <= Pes[n].stop /\ LastOfPacket \in Nat /\ next \in Nat
  <2>1. LastOfPacket \in next .. Len(Marks) /\ Len(Marks) \in Nat
    BY NextPacket, Row
  <2> QED
    BY <2>1, NextPacket
<1> HIDE DEF n
<1>2. \A k \in DOMAIN Pes : Pes[k].start \in Nat /\ Pes[k].stop \in Nat /\ Pes[k].start <= Pes[k].stop
  BY Row
<1>3. /\ Len(Pes) \in Nat /\ DOMAIN Pes = 1 .. Len(Pes)
      /\ \A k, l \in DOMAIN Pes : k < l => Pes[k].stop < Pes[l].start
  BY Row
<1>4. m < n
  <2>1. ~(n < m) /\ n # m
    BY <1>1, <1>2, <1>3
  <2> QED
    BY <1>1, <1>3, <2>1
<1>5. next = Pes[m].stop + 1 /\ Pes[n].start = next
  BY <1>1, <1>2, <1>3, <1>4
<1>6. n = m + 1
  <2>1. m + 1 \in DOMAIN Pes /\ (m + 1 = n \/ m + 1 < n)
    BY <1>1, <1>3, <1>4
  <2>2. ~(m + 1 < n)
    <3> SUFFICES ASSUME m + 1 < n PROVE FALSE
      OBVIOUS
    <3>1. Pes[m].stop < Pes[m + 1].start /\ Pes[m + 1].stop < Pes[n].start
      BY <1>1, <1>3, <2>1
    <3> QED
      BY <1>2, <1>5, <2>1, <3>1
  <2> QED
    BY <2>1, <2>2
<1>7. n = PesOf(next)
  BY DEF n
<1> QED
  BY <1>1, <1>5, <1>6, <1>7 DEF Pusi

LEMMA InitPesInv == ParserInit => PesInv
<1> SUFFICES ASSUME ParserInit, kind \notin Framed, Fits
             PROVE  AssemblesOne /\ SentApart /\ Delivered /\ Genuine /\ SentInOrder /\ HeaderSeen
  BY DEF PesInv
<1>1. /\ kind \in DOMAIN Broadcasts /\ next = 1 /\ buffer = <<>> /\ startup = TRUE /\ sent = <<>>
      /\ Len(sent) = 0
  BY DEF ParserInit
<1>2. \A n \in DOMAIN Pes : /\ Pes[n].start \in Nat /\ Pes[n].stop \in Nat
                            /\ ~(Pes[n].start < next) /\ ~(next > Pes[n].stop + 1)
  BY <1>1, Row
<1>3. AssemblesOne
  BY <1>1, <1>2 DEF AssemblesOne, NothingYet
<1>4. SentApart /\ Delivered /\ HeaderSeen
  BY <1>2 DEF SentApart, Delivered, HeaderSeen
<1>5. Genuine /\ SentInOrder
  BY <1>1 DEF Genuine, SentInOrder
<1> QED
  BY <1>3, <1>4, <1>5

(* A TS packet is lost.                                                    *)
LEMMA LosePacketPes ==
  ASSUME ParserInv, PesInv, Fits, kind \notin Framed, LosePacket
  PROVE  (AssemblesOne /\ SentApart /\ Delivered /\ Genuine /\ SentInOrder /\ HeaderSeen)'
<1>0. AssemblesOne /\ SentApart /\ Delivered /\ Genuine /\ SentInOrder /\ HeaderSeen
  BY DEF PesInv
<1>1. /\ kind \in DOMAIN Broadcasts /\ next \in 1 .. Len(Marks) /\ Len(Marks) \in Nat
      /\ gone \subseteq 1 .. (next - 1)
  <2>1. kind \in DOMAIN Broadcasts /\ next \in 1 .. (Len(Marks) + 1) /\ gone \subseteq 1 .. (next - 1)
    BY DEF ParserInv, ParserTypeOK
  <2>2. Len(Marks) \in Nat
    BY <2>1, Row
  <2> QED
    BY <2>1, <2>2 DEF LosePacket
<1>2. /\ next' = LastOfPacket + 1 /\ gone' = gone \cup (next .. LastOfPacket) /\ kind' = kind
      /\ buffer' = buffer /\ startup' = startup /\ length' = length /\ sent' = sent
      /\ sequence' = sequence
  BY DEF LosePacket
<1>3. /\ Marks' = Marks /\ Pes' = Pes /\ Owed' = Owed
      /\ \A u : PesOf(u)' = PesOf(u)
      /\ \A p : InPes(p)' = InPes(p)
  BY <1>2, Rigid
<1>4. LastOfPacket \in next .. Len(Marks) /\ LastOfPacket \in Nat /\ next \in Nat
  BY <1>1, NextPacket
<1>5. \A n \in DOMAIN Pes : Pes[n].start \in Nat /\ Pes[n].stop \in Nat /\ Pes[n].start <= Pes[n].stop
  BY <1>1, Row
<1>6. \A n \in DOMAIN Pes : Pes[n].start < next' /\ Pes[n].start \notin gone' => Pes[n].start < next
  BY <1>2, <1>4, <1>5
<1>7. ASSUME NEW n \in DOMAIN Pes, Intact(n)', next' > Pes[n].stop + 1
      PROVE  Intact(n) /\ next > Pes[n].stop + 1
  <2>1. Intact(n)
    BY <1>2, <1>7, Shrinks
  <2>2. ASSUME ~(next > Pes[n].stop + 1) PROVE FALSE
    <3>1. next <= Pes[n].stop + 1 /\ LastOfPacket >= Pes[n].stop + 1
      BY <1>2, <1>4, <1>5, <1>7, <2>2
    <3>2. n + 1 \in DOMAIN Pes /\ Pes[n + 1].start = next
      BY <1>1, <3>1, PassingTheEnd
    <3>3. next \in Pes[n + 1].start .. Pes[n + 1].stop /\ n + 1 \in DOMAIN Pes \cap {n, n + 1}
      BY <1>5, <3>2
    <3>4. next \notin gone'
      BY <1>3, <1>7, <3>3 DEF Intact
    <3> QED
      BY <1>2, <1>4, <3>4
  <2> QED
    BY <2>1, <2>2
<1>8. AssemblesOne'
  <2>1. CASE startup
    <3>1. NothingYet
      BY <1>0, <2>1 DEF AssemblesOne
    <3>2. \A n \in DOMAIN Pes : Pes[n].start < next' => Pes[n].start \in gone'
      BY <1>2, <1>6, <3>1 DEF NothingYet
    <3>3. NothingYet'
      BY <1>2, <1>3, <3>1, <3>2 DEF NothingYet
    <3> QED
      BY <1>2, <2>1, <3>3 DEF AssemblesOne
  <2>2. CASE ~startup
    <3>1. PICK c \in DOMAIN Pes : Current(c) /\ Filling(c)
      BY <1>0, <2>2 DEF AssemblesOne
    <3>2. Current(c)'
      <4>1. Pes[c].start < next' /\ Pes[c].start \notin gone'
        BY <1>2, <1>4, <1>5, <3>1 DEF Current
      <4>2. \A n \in DOMAIN Pes : c < n /\ Pes[n].start < next' => Pes[n].start \in gone'
        BY <1>2, <1>6, <3>1 DEF Current
      <4> QED
        BY <1>3, <4>1, <4>2 DEF Current
    <3>3. Filling(c)'
      <4> DEFINE start == Pes[c].start
      <4>1. ASSUME NEW v \in start .. (next' - 1), \A u \in start .. v : u \notin gone'
            PROVE  v \in start .. (next - 1) /\ \A u \in start .. v : u \notin gone
        <5>1. start \in Nat /\ start < next /\ v \in Nat /\ v <= LastOfPacket
          BY <1>2, <1>4, <1>5, <3>1 DEF Current
        <5>2. next \in gone'
          BY <1>2, <1>4
        <5>3. ~(next <= v)
          BY <1>4, <4>1, <5>1, <5>2
        <5> QED
          BY <1>2, <1>4, <4>1, <5>1, <5>3
      <4> QED
        BY <1>2, <1>3, <3>1, <4>1 DEF Filling
    <3> QED
      BY <1>2, <1>3, <2>2, <3>2, <3>3 DEF AssemblesOne
  <2> QED
    BY <2>1, <2>2
<1>9. SentApart'
  <2> SUFFICES ASSUME NEW m \in DOMAIN Pes, Pes[m].start \notin gone', Pes[m].start < next',
                      NEW i \in 1 .. Len(sent)
               PROVE  \/ Before(i, Pes[m].start)
                      \/ From(i, Pes[m].start) /\ next' > Pes[m].stop + 1
    BY <1>2, <1>3 DEF SentApart, Before, From
  <2>1. Pes[m].start \notin gone /\ Pes[m].start < next
    BY <1>2, <1>6
  <2>2. Before(i, Pes[m].start) \/ (From(i, Pes[m].start) /\ next > Pes[m].stop + 1)
    BY <1>0, <2>1 DEF SentApart
  <2> QED
    BY <1>2, <1>4, <1>5, <2>2
<1>10. Delivered'
  <2> SUFFICES ASSUME NEW m \in DOMAIN Pes', Intact(m)', next' > Pes'[m].stop + 1,
                      NEW o \in InPes(Pes[m])',
                      (kind = "mpeg2" => \E n \in 1 .. m : Intact(n) /\ HeaderIn(n))'
               PROVE  (\E i \in 1 .. Len(sent) : Is(i, o) /\ \A j \in 1 .. Len(sent) : Is(j, o) => j = i)'
    BY DEF Delivered
  <2>1. m \in DOMAIN Pes /\ Intact(m) /\ next > Pes[m].stop + 1
    BY <1>3, <1>7
  <2>2. o \in InPes(Pes[m])
    BY <1>3
  <2>3. kind = "mpeg2" => \E n \in 1 .. m : Intact(n) /\ HeaderIn(n)
    BY <1>2, <1>3, Shrinks DEF HeaderIn
  <2>4. \E i \in 1 .. Len(sent) : Is(i, o) /\ \A j \in 1 .. Len(sent) : Is(j, o) => j = i
    BY <1>0, <2>1, <2>2, <2>3 DEF Delivered
  <2> QED
    BY <1>2, <2>4 DEF Is
<1>11. Genuine'
  <2> SUFFICES ASSUME NEW i \in 1 .. Len(sent), Intact(PesOf(sent[i].data[1]))'
               PROVE  \E o \in Owed : Is(i, o)
    BY <1>2, <1>3 DEF Genuine, Is
  <2>1. Intact(PesOf(sent[i].data[1]))
    BY <1>2, <1>3 DEF Intact
  <2> QED
    BY <1>0, <2>1 DEF Genuine
<1>12. SentInOrder'
  <2> SUFFICES ASSUME NEW i \in 1 .. Len(sent), NEW j \in 1 .. Len(sent), i < j,
                      ~(sent[i].data[1] < sent[j].data[1])
               PROVE  ~Intact(PesOf(sent[i].data[1]))' /\ ~Intact(PesOf(sent[j].data[1]))'
    BY <1>2 DEF SentInOrder
  <2>1. ~Intact(PesOf(sent[i].data[1])) /\ ~Intact(PesOf(sent[j].data[1]))
    BY <1>0 DEF SentInOrder
  <2> QED
    BY <1>2, <1>3, <2>1 DEF Intact
<1>13. HeaderSeen'
  <2> SUFFICES ASSUME kind = "mpeg2", NEW n \in DOMAIN Pes, Intact(n)', HeaderIn(n), next' > Pes[n].stop + 1
               PROVE  sequence
    BY <1>2, <1>3 DEF HeaderSeen, HeaderIn
  <2> QED
    BY <1>0, <1>7 DEF HeaderSeen
<1> QED
  BY <1>8, <1>9, <1>10, <1>11, <1>12, <1>13

(* Units from the current PES packet on are its own, or of one that is not *)
(* intact.                                                                 *)
LEMMA IntactIsCurrent ==
  ASSUME kind \in DOMAIN Broadcasts, next \in 1 .. (Len(Marks) + 1),
         NEW c, Current(c), NEW u \in Nat, Pes[c].start <= u, u < next, Intact(PesOf(u))
  PROVE  PesOf(u) = c
<1> DEFINE m == PesOf(u)
<1>1. Len(Marks) \in Nat /\ c \in DOMAIN Pes /\ Pes[c].start \in Nat \ {0}
  BY Row DEF Current
<1>2. u \in 1 .. Len(Marks)
  BY <1>1
<1>3. m \in DOMAIN Pes /\ Pes[m].start <= u /\ u <= Pes[m].stop
  BY <1>2, UnitsPes
<1>4. /\ Pes[m].start \in Nat /\ Pes[m].stop \in Nat /\ m \in Nat /\ c \in Nat
      /\ (m < c => Pes[m].stop < Pes[c].start)
  BY <1>1, <1>3, Row
<1>5. Pes[m].start \notin gone
  <2>1. m \in DOMAIN Pes \cap {m, m + 1} /\ Pes[m].start \in Pes[m].start .. Pes[m].stop
    BY <1>3, <1>4
  <2> QED
    BY <2>1 DEF Intact
<1> HIDE DEF m
<1>6. ~(c < m)
  BY <1>1, <1>3, <1>4, <1>5 DEF Current
<1>7. ~(m < c)
  BY <1>1, <1>3, <1>4
<1>8. m = c
  BY <1>4, <1>6, <1>7
<1> QED
  BY <1>8 DEF m

(* When a PES packet is complete, it is over; and if nothing of it is      *)
(* lost, it is assembled as it was broadcast.                              *)
LEMMA AssembledIsOver ==
  ASSUME ParserInv, kind \notin Framed, next \in 1 .. Len(Marks), Fits,
         NEW c, Current(c), Filling(c), Assembled
  PROVE  /\ next > Pes[c].stop
         /\ \A i \in 1 .. Len(Assembling) : Assembling[i] >= Pes[c].start
         /\ Intact(c) => /\ next = Pes[c].stop + 1
                         /\ Assembling = Units(Pes[c].start, Pes[c].stop)
<1> DEFINE s == Pes[c].start
           t == Pes[c].stop
           n == IF length = 0 THEN Len(buffer) ELSE length
<1>1. /\ kind \in DOMAIN Broadcasts /\ c \in DOMAIN Pes /\ s \in Nat \ {0} /\ t \in Nat /\ s <= t
      /\ Pes[c].sized \in BOOLEAN /\ s < next /\ s \notin gone
      /\ next \in Nat /\ Len(Marks) \in Nat /\ next <= Len(Marks)
  BY Row DEF Current, ParserInv, ParserTypeOK
<1>2. /\ buffer \in Seq(1 .. (next - 1)) /\ Len(buffer) \in Nat
      /\ \A i \in 1 .. Len(buffer) : buffer[i] \in 1 .. (next - 1)
  BY ElementOfSeq DEF ParserInv, ParserTypeOK
<1>3. /\ length = IF Pes[c].sized THEN t + 1 - s ELSE 0
      /\ buffer # <<>>
      /\ \A i \in 1 .. Len(buffer) : buffer[i] >= s + i - 1
      /\ \A v \in s .. (next - 1) :
           v + 1 - s <= BufferSize /\ (\A u \in s .. v : u \notin gone) =>
             /\ Len(buffer) >= v + 1 - s
             /\ \A i \in 1 .. (v + 1 - s) : buffer[i] = s + i - 1
  BY DEF Filling
<1>4. /\ n \in 1 .. Len(buffer) /\ Assembling = SubSeq(buffer, 1, n)
  BY AssemblingProperties
<1>5. /\ Len(Assembling) = n /\ \A i \in 1 .. n : Assembling[i] = buffer[i]
  <2> HIDE DEF n
  <2>1. 1 \in 1 .. Len(buffer) + 1 /\ n \in 0 .. Len(buffer) /\ n \in Nat
    BY <1>2, <1>4
  <2>2. /\ Len(SubSeq(buffer, 1, n)) = IF 1 <= n THEN n + 1 - 1 ELSE 0
        /\ \A i \in 1 .. (n + 1 - 1) : SubSeq(buffer, 1, n)[i] = buffer[1 + i - 1]
    BY <1>2, <2>1, PartIn
  <2>3. n + 1 - 1 = n /\ 1 <= n /\ \A i \in 1 .. n : 1 + i - 1 = i
    BY <1>4, <2>1
  <2> QED
    BY <1>4, <2>2, <2>3
<1>6. Len(buffer) <= next - s
  <2>1. Len(buffer) \in 1 .. Len(buffer)
    BY <1>2, <1>4
  <2>2. buffer[Len(buffer)] >= s + Len(buffer) - 1 /\ buffer[Len(buffer)] \in 1 .. (next - 1)
    BY <1>2, <1>3, <2>1
  <2> QED
    BY <1>1, <1>2, <2>2
<1>7. next > t
  <2>1. CASE length # 0 /\ Len(buffer) >= length
    <3>1. length = t + 1 - s
      BY <1>3, <2>1
    <3> QED
      BY <1>1, <1>2, <1>6, <2>1, <3>1
  <2>2. CASE Pusi
    <3> DEFINE m == PesOf(next)
    <3>1. m \in DOMAIN Pes /\ Pes[m].start = next
      BY <1>1, <2>2, UnitsPes DEF Pusi
    <3>2. c \in Nat /\ m \in Nat /\ Pes[m].stop \in Nat /\ Pes[m].start <= Pes[m].stop
          /\ (m < c => Pes[m].stop < s) /\ (c < m => t < Pes[m].start)
      BY <1>1, <3>1, Row
    <3> HIDE DEF m
    <3>3. c < m
      <4>1. ~(m < c) /\ m # c
        BY <1>1, <3>1, <3>2
      <4> QED
        BY <3>2, <4>1
    <3> QED
      BY <1>1, <3>1, <3>2, <3>3
  <2> QED
    BY <2>1, <2>2 DEF Assembled
<1>8. ASSUME NEW i \in 1 .. Len(Assembling) PROVE Assembling[i] >= s
  <2>1. i \in 1 .. Len(buffer) /\ Assembling[i] = buffer[i]
    BY <1>4, <1>5
  <2>2. buffer[i] >= s + i - 1 /\ buffer[i] \in Nat
    BY <1>2, <1>3, <2>1
  <2> QED
    BY <1>1, <2>1, <2>2
<1>9. ASSUME Intact(c) PROVE next = t + 1
  <2>1. ASSUME next > t + 1 PROVE FALSE
    <3> DEFINE m == PesOf(t + 1)
    <3>1. t + 1 \in 1 .. Len(Marks)
      BY <1>1, <2>1
    <3>2. m \in DOMAIN Pes /\ Pes[m].start <= t + 1 /\ t + 1 <= Pes[m].stop
      BY <1>1, <3>1, UnitsPes
    <3>3. /\ c \in 1 .. Len(Pes) /\ m \in 1 .. Len(Pes) /\ Len(Pes) \in Nat
          /\ DOMAIN Pes = 1 .. Len(Pes)
          /\ (m < c => Pes[m].stop < s) /\ Pes[m].stop \in Nat
      BY <1>1, <3>2, Row
    <3> HIDE DEF m
    <3>4. c < m
      <4>1. ~(m < c) /\ m # c
        BY <1>1, <3>2, <3>3
      <4> QED
        BY <3>3, <4>1
    <3>5. c + 1 \in DOMAIN Pes /\ (c + 1 = m \/ c + 1 < m)
      BY <3>3, <3>4
    <3>6. /\ Pes[c + 1].start \in Nat /\ Pes[c + 1].stop \in Nat
          /\ Pes[c + 1].start <= Pes[c + 1].stop /\ Pes[m].start \in Nat
          /\ (c + 1 < m => Pes[c + 1].stop < Pes[m].start)
      BY <1>1, <3>2, <3>5, Row
    <3>7. Pes[c + 1].start < next
      BY <1>1, <2>1, <3>2, <3>5, <3>6
    <3>8. c < c + 1
      BY <3>3
    <3>9. Pes[c + 1].start \in gone
      BY <3>5, <3>7, <3>8 DEF Current
    <3>10. c + 1 \in DOMAIN Pes \cap {c, c + 1}
           /\ Pes[c + 1].start \in Pes[c + 1].start .. Pes[c + 1].stop
      BY <3>5, <3>6
    <3> QED
      BY <1>9, <3>9, <3>10 DEF Intact
  <2> QED
    BY <1>1, <1>7, <2>1
<1>10. ASSUME Intact(c) PROVE Assembling = Units(s, t)
  <2>1. next = t + 1
    BY <1>9, <1>10
  <2>2. c \in DOMAIN Pes \cap {c, c + 1}
    BY <1>1
  <2>3. \A u \in s .. t : u \notin gone
    BY <1>10, <2>2 DEF Intact
  <2>4. t + 1 - s <= BufferSize
    BY <1>1 DEF Fits
  <2>5. t \in s .. (next - 1)
    BY <1>1, <2>1
  <2>6. /\ Len(buffer) >= t + 1 - s
        /\ \A i \in 1 .. (t + 1 - s) : buffer[i] = s + i - 1
    BY <1>3, <2>3, <2>4, <2>5
  <2>7. Len(buffer) = t + 1 - s
    <3>1. Len(buffer) >= t + 1 - s
      BY <2>6
    <3> HIDE DEF s, t
    <3>2. Len(buffer) \in Nat /\ s \in Nat /\ t \in Nat
      BY <1>1, <1>2
    <3> QED
      BY <1>6, <2>1, <3>1, <3>2
  <2>8. n = t + 1 - s
    BY <1>3, <2>7
  <2>9. s <= t + 1
    BY <1>1
  <2>10. /\ Units(s, t) \in Seq(s .. t) /\ Len(Units(s, t)) = t + 1 - s
         /\ \A i \in 1 .. (t + 1 - s) : Units(s, t)[i] = s + i - 1
    BY <1>1, <2>9, UnitsProperties
  <2>11. Assembling \in Seq(1 .. (next - 1)) /\ Len(Assembling) = t + 1 - s
    BY <1>5, <2>8, AssemblingProperties
  <2>12. \A i \in 1 .. (t + 1 - s) : Assembling[i] = Units(s, t)[i]
    BY <1>5, <2>6, <2>8, <2>10
  <2>13. Assembling \in Seq(Nat) /\ Units(s, t) \in Seq(Nat)
    <3>1. 1 .. (next - 1) \subseteq Nat /\ s .. t \subseteq Nat
      BY <1>1
    <3> QED
      BY <2>10, <2>11, <3>1, SeqMonotonic
  <2> QED
    BY <2>10, <2>11, <2>12, <2>13, SeqEqual
<1> QED
  BY <1>7, <1>8, <1>9, <1>10

(* A TS packet arrives: what is assembled next.                            *)
LEMMA ArriveAssembles ==
  ASSUME ParserInv, AssemblesOne, kind \notin Framed, Arrive
  PROVE  AssemblesOne'
<1>1. /\ kind \in DOMAIN Broadcasts /\ next \in 1 .. Len(Marks) /\ Len(Marks) \in Nat
      /\ gone \subseteq 1 .. (next - 1) /\ buffer \in Seq(1 .. (next - 1)) /\ Len(buffer) \in Nat
      /\ Len(buffer) <= BufferSize
  <2>1. /\ kind \in DOMAIN Broadcasts /\ next \in 1 .. (Len(Marks) + 1)
        /\ gone \subseteq 1 .. (next - 1) /\ buffer \in Seq(1 .. (next - 1))
        /\ Len(buffer) <= BufferSize
    BY DEF ParserInv, ParserTypeOK
  <2>2. Len(Marks) \in Nat /\ Len(buffer) \in Nat
    BY <2>1, Row, LenProperties
  <2> QED
    BY <2>1, <2>2 DEF Arrive
<1>2. /\ ParsePes /\ next' = LastOfPacket + 1 /\ kind' = kind /\ gone' = gone
  BY DEF Arrive, ParsePes
<1>3. Marks' = Marks /\ Pes' = Pes
  BY <1>2, Rigid
<1>4. /\ LastOfPacket \in next .. Len(Marks) /\ LastOfPacket \in Nat /\ next \in Nat
      /\ PesOf(next) \in DOMAIN Pes /\ Pes[PesOf(next)].start <= next
      /\ LastOfPacket <= Pes[PesOf(next)].stop
      /\ Data \in Seq(next .. LastOfPacket) /\ Len(Data) = LastOfPacket + 1 - next
      /\ \A i \in 1 .. Len(Data) : Data[i] = next + i - 1
  <2>1. /\ LastOfPacket \in next .. Len(Marks)
        /\ PesOf(next) \in DOMAIN Pes /\ Pes[PesOf(next)].start <= next
        /\ LastOfPacket <= Pes[PesOf(next)].stop
        /\ Data \in Seq(next .. LastOfPacket) /\ Len(Data) = LastOfPacket + 1 - next
        /\ \A i \in 1 .. Len(Data) : Data[i] = next + i - 1
    BY <1>1, NextPacket
  <2>2. next \in Nat /\ LastOfPacket \in Nat
    BY <1>1, <2>1
  <2> QED
    BY <2>1, <2>2
<1>5. \A n \in DOMAIN Pes : Pes[n].start \in Nat /\ Pes[n].stop \in Nat /\ Pes[n].start <= Pes[n].stop
  BY <1>1, Row
<1>6. CASE Pusi /\ StartPes
  <2> DEFINE n == Least(Len(Data), BufferSize)
  <2>0. PICK c \in DOMAIN Pes : c = PesOf(next)
    BY <1>4
  <2>1. Pes[c].start = next /\ c \in DOMAIN Pes
    BY <1>4, <1>6, <2>0 DEF Pusi
  <2>2. /\ length' = IF Pes[c].sized THEN Pes[c].stop + 1 - Pes[c].start ELSE 0
        /\ startup' = FALSE /\ buffer' = SubSeq(Data, 1, n)
    BY <1>6, <2>0 DEF StartPes
  <2>3. n \in 1 .. Len(Data) /\ n <= BufferSize /\ (n = Len(Data) \/ n = BufferSize)
    BY <1>4, Parameters DEF Least
  <2> HIDE DEF n
  <2>4. Len(buffer') = n /\ \A i \in 1 .. n : buffer'[i] = next + i - 1
    <3>1. 1 \in 1 .. Len(Data) + 1 /\ n \in 0 .. Len(Data) /\ n \in Nat /\ Len(Data) \in Nat
      BY <1>4, <2>3
    <3>2. /\ Len(SubSeq(Data, 1, n)) = IF 1 <= n THEN n + 1 - 1 ELSE 0
          /\ \A i \in 1 .. (n + 1 - 1) : SubSeq(Data, 1, n)[i] = Data[1 + i - 1]
      BY <1>4, <3>1, PartIn
    <3>3. n + 1 - 1 = n /\ 1 <= n /\ \A i \in 1 .. n : 1 + i - 1 = i /\ i \in 1 .. Len(Data)
      BY <2>3, <3>1
    <3> QED
      BY <1>4, <2>2, <3>2, <3>3
  <2>5. Current(c)'
    <3>1. ASSUME NEW m \in DOMAIN Pes, c < m PROVE ~(Pes[m].start < next')
      <4>1. Pes[c].stop < Pes[m].start
        BY <1>1, <2>1, <3>1, Row
      <4>2. LastOfPacket <= Pes[c].stop
        BY <1>4, <2>0
      <4> QED
        BY <1>2, <1>4, <1>5, <2>1, <4>1, <4>2
    <3>2. next \notin gone /\ next < next'
      BY <1>1, <1>2, <1>4
    <3> QED
      BY <1>2, <1>3, <2>1, <3>1, <3>2 DEF Current
  <2>6. Filling(c)'
    <3>1. buffer' # <<>>
      BY <2>3, <2>4
    <3>2. \A i \in 1 .. Len(buffer') : buffer'[i] >= Pes[c].start + i - 1
      BY <1>4, <2>1, <2>3, <2>4
    <3>3. ASSUME NEW v \in Pes[c].start .. (next' - 1), v + 1 - Pes[c].start <= BufferSize
          PROVE  /\ Len(buffer') >= v + 1 - Pes[c].start
                 /\ \A i \in 1 .. (v + 1 - Pes[c].start) : buffer'[i] = Pes[c].start + i - 1
      <4>1. v \in next .. LastOfPacket /\ v + 1 - next <= BufferSize
        BY <1>2, <1>4, <2>1, <3>3
      <4>2. v + 1 - next <= n
        BY <1>4, <2>3, <4>1
      <4> QED
        BY <1>4, <2>1, <2>3, <2>4, <4>1, <4>2
    <3> QED
      BY <1>2, <1>3, <2>2, <3>1, <3>2, <3>3 DEF Filling
  <2>7. c \in DOMAIN Pes' /\ ~startup'
    BY <1>3, <2>1, <2>2
  <2> QED
    BY <2>5, <2>6, <2>7 DEF AssemblesOne
<1>7. CASE ~Pusi /\ ContinuePes
  <2>0. startup' = startup /\ length' = length
    BY <1>7 DEF ContinuePes
  <2>1. \A n \in DOMAIN Pes : Pes[n].start < next' => Pes[n].start < next
    <3> SUFFICES ASSUME NEW n \in DOMAIN Pes, Pes[n].start < next', ~(Pes[n].start < next) PROVE FALSE
      OBVIOUS
    <3>1. next <= Pes[n].start /\ Pes[n].start <= LastOfPacket
      BY <1>2, <1>4, <1>5
    <3> QED
      BY <1>1, <1>7, <3>1, NoStartInside
  <2>2. CASE startup
    <3>1. NothingYet
      BY <2>2 DEF AssemblesOne
    <3>2. buffer' = buffer /\ sent' = sent
      BY <1>2, <1>7, <2>2 DEF ContinuePes, ParsePes
    <3>3. NothingYet'
      BY <1>2, <1>3, <2>1, <3>1, <3>2 DEF NothingYet
    <3> QED
      BY <2>0, <2>2, <3>3 DEF AssemblesOne
  <2>3. CASE ~startup
    <3>1. PICK c \in DOMAIN Pes : Current(c) /\ Filling(c)
      BY <2>3 DEF AssemblesOne
    <3> DEFINE s == Pes[c].start
               n == Least(Len(Data), BufferSize - Len(buffer))
               L == Len(buffer)
    <3>2. s \in Nat /\ s < next
      BY <1>5, <3>1 DEF Current
    <3>3. Current(c)'
      <4>1. s < next'
        BY <1>2, <1>4, <3>2
      <4> QED
        BY <1>2, <1>3, <2>1, <3>1, <4>1 DEF Current
    <3>4. n \in 0 .. Len(Data) /\ (n = Len(Data) \/ n = BufferSize - L)
      BY <1>1, <1>4, Parameters DEF Least
    <3>5. buffer' = buffer \o SubSeq(Data, 1, n)
      BY <1>7, <2>3 DEF ContinuePes
    <3>6. L \in Nat /\ n \in Nat /\ Len(Data) \in Nat /\ L <= BufferSize
      BY <1>1, <1>4, <3>4
    <3> HIDE DEF n, s
    <3>7. /\ Len(buffer') = L + n
          /\ \A i \in 1 .. L : buffer'[i] = buffer[i]
          /\ \A i \in 1 .. n : buffer'[L + i] = next + i - 1
      <4>1. 1 \in 1 .. Len(Data) + 1
        BY <3>6
      <4>2. /\ SubSeq(Data, 1, n) \in Seq(next .. LastOfPacket)
            /\ Len(SubSeq(Data, 1, n)) = IF 1 <= n THEN n + 1 - 1 ELSE 0
            /\ \A i \in 1 .. (n + 1 - 1) : SubSeq(Data, 1, n)[i] = Data[1 + i - 1]
        BY <1>4, <3>4, <4>1, PartIn
      <4> DEFINE d == SubSeq(Data, 1, n)
      <4> HIDE DEF d
      <4>3. Len(d) = n /\ \A i \in 1 .. n : d[i] = next + i - 1
        <5>1. n + 1 - 1 = n /\ (1 <= n \/ n = 0) /\ \A i \in 1 .. n : 1 + i - 1 = i /\ i \in 1 .. Len(Data)
          BY <3>4, <3>6
        <5> QED
          BY <1>4, <4>2, <5>1 DEF d
      <4>4. buffer \in Seq(Nat) /\ d \in Seq(Nat)
        <5>1. 1 .. (next - 1) \subseteq Nat /\ next .. LastOfPacket \subseteq Nat
          BY <1>4
        <5> QED
          BY <1>1, <4>2, <5>1, SeqMonotonic DEF d
      <4>5. /\ Len(buffer \o d) = L + n
            /\ \A i \in 1 .. (L + n) : (buffer \o d)[i] = IF i <= L THEN buffer[i] ELSE d[i - L]
        BY <4>3, <4>4, ConcatProperties
      <4>6. ASSUME NEW i \in 1 .. L PROVE i \in 1 .. (L + n) /\ i <= L
        BY <3>6
      <4>7. ASSUME NEW i \in 1 .. n PROVE L + i \in 1 .. (L + n) /\ ~(L + i <= L) /\ (L + i) - L = i
        BY <3>6
      <4> QED
        BY <3>5, <4>3, <4>5, <4>6, <4>7 DEF d
    <3>8. /\ length = IF Pes[c].sized THEN Pes[c].stop + 1 - s ELSE 0
          /\ buffer # <<>>
          /\ \A i \in 1 .. L : buffer[i] >= s + i - 1
          /\ \A v \in s .. (next - 1) :
               v + 1 - s <= BufferSize /\ (\A u \in s .. v : u \notin gone) =>
                 /\ L >= v + 1 - s
                 /\ \A i \in 1 .. (v + 1 - s) : buffer[i] = s + i - 1
      BY <3>1 DEF Filling, s
    <3>9. L >= 1 /\ L <= next - s
      <4>1. L # 0
        BY <1>1, <3>8, EmptySeq
      <4>2. L \in 1 .. L
        BY <3>6, <4>1
      <4>3. buffer[L] >= s + L - 1 /\ buffer[L] \in 1 .. (next - 1)
        BY <1>1, <3>8, <4>2, ElementOfSeq
      <4> QED
        BY <1>4, <3>2, <3>6, <4>2, <4>3 DEF s
    <3>10. s \in Nat /\ s < next
      BY <3>2 DEF s
    <3>11. ASSUME NEW i \in 1 .. Len(buffer') PROVE buffer'[i] >= s + i - 1
      <4>1. CASE i <= L
        BY <3>6, <3>7, <3>8, <4>1
      <4>2. CASE ~(i <= L)
        <5>1. i - L \in 1 .. n /\ L + (i - L) = i
          BY <3>6, <3>7, <4>2
        <5>2. buffer'[i] = next + (i - L) - 1
          BY <3>7, <5>1
        <5> QED
          BY <1>4, <3>6, <3>9, <3>10, <5>1, <5>2
      <4> QED
        BY <4>1, <4>2
    <3>12. ASSUME NEW v \in s .. (next' - 1), v + 1 - s <= BufferSize,
                  \A u \in s .. v : u \notin gone
           PROVE  /\ Len(buffer') >= v + 1 - s
                  /\ \A i \in 1 .. (v + 1 - s) : buffer'[i] = s + i - 1
      <4>0. v \in Nat /\ v <= LastOfPacket
        BY <1>2, <1>4, <3>10
      <4>1. CASE v < next
        <5>1. v \in s .. (next - 1)
          BY <1>4, <3>10, <4>0, <4>1
        <5>2. L >= v + 1 - s /\ \A i \in 1 .. (v + 1 - s) : buffer[i] = s + i - 1
          BY <3>8, <3>12, <5>1
        <5>3. ASSUME NEW i \in 1 .. (v + 1 - s) PROVE i \in 1 .. L
          BY <3>6, <3>10, <4>0, <5>2
        <5> QED
          BY <3>6, <3>7, <3>10, <4>0, <5>2, <5>3
      <4>2. CASE ~(v < next)
        <5>1. /\ next - 1 \in s .. (next - 1) /\ next - 1 + 1 - s <= BufferSize
              /\ next - 1 + 1 - s = next - s
              /\ \A u \in s .. (next - 1) : u \notin gone
          BY <1>4, <3>10, <3>12, <4>0, <4>2, Parameters
        <5>2. L >= next - s /\ \A i \in 1 .. (next - s) : buffer[i] = s + i - 1
          BY <3>8, <5>1
        <5>3. L = next - s
          <6>1. next - s <= L /\ L <= next - s /\ next - s \in Nat
            BY <1>4, <3>9, <3>10, <5>2
          <6> HIDE DEF L
          <6> QED
            BY <3>6, <6>1
        <5>4. n >= v + 1 - next
          BY <1>4, <3>4, <3>6, <3>10, <3>12, <4>0, <4>2, <5>3, Parameters
        <5>5. Len(buffer') >= v + 1 - s
          BY <1>4, <3>6, <3>7, <3>10, <4>0, <5>3, <5>4
        <5>6. ASSUME NEW i \in 1 .. (v + 1 - s) PROVE buffer'[i] = s + i - 1
          <6>1. CASE i <= L
            <7>1. i \in 1 .. L /\ i \in 1 .. (next - s)
              BY <3>6, <5>3, <6>1
            <7> QED
              BY <3>7, <5>2, <7>1
          <6>2. CASE ~(i <= L)
            <7>1. i - L \in 1 .. n /\ L + (i - L) = i
              BY <1>4, <3>6, <3>10, <4>0, <5>3, <5>4, <6>2
            <7>2. buffer'[i] = next + (i - L) - 1
              BY <3>7, <7>1
            <7> QED
              BY <1>4, <3>6, <3>10, <5>3, <7>1, <7>2
          <6> QED
            BY <6>1, <6>2
        <5> QED
          BY <5>5, <5>6
      <4> QED
        BY <4>1, <4>2
    <3>13. buffer' # <<>>
      <4>1. Len(buffer') # 0
        BY <3>6, <3>7, <3>9
      <4> QED
        BY <4>1
    <3>14. Filling(c)'
      BY <1>2, <1>3, <2>0, <3>8, <3>11, <3>12, <3>13 DEF Filling, s
    <3>15. c \in DOMAIN Pes'
      BY <1>3
    <3> QED
      BY <2>0, <2>3, <3>3, <3>14, <3>15 DEF AssemblesOne
  <2> QED
    BY <2>2, <2>3
<1> QED
  BY <1>2, <1>6, <1>7 DEF ParsePes

(* What is added to what was sent when a TS packet arrives and a PES       *)
(* packet is complete.                                                     *)
Sends(c, made) ==
  /\ Len(made) \in Nat /\ Len(sent') = Len(sent) + Len(made)
  /\ \A i \in 1 .. Len(sent) : sent'[i] = sent[i]
  /\ \A k \in 1 .. Len(made) :
       /\ sent'[Len(sent) + k] = made[k]
       /\ Len(made[k].data) \in Nat \ {0}
       /\ \A j \in 1 .. Len(made[k].data) : made[k].data[j] \in Pes[c].start .. (next - 1)
  /\ \A k, l \in 1 .. Len(made) : k < l => made[k].data[1] < made[l].data[1]
  /\ next > Pes[c].stop
  /\ Intact(c) =>
       /\ next = Pes[c].stop + 1
       /\ \A k \in 1 .. Len(made) : \E o \in InPes(Pes[c]) : made[k].data = Units(o[1], o[2])
       /\ (kind = "mpeg2" => sequence') =>
            \A o \in InPes(Pes[c]) : \E k \in 1 .. Len(made) : made[k].data = Units(o[1], o[2])
       /\ kind = "mpeg2" /\ HeaderIn(c) => sequence'
  /\ sequence => sequence'

LEMMA SendsParts ==
  ASSUME ParserInv, kind \notin Framed, next \in 1 .. Len(Marks), Fits,
         NEW c, Current(c), Filling(c), Assembled, SendPayload(Assembling)
  PROVE  \E made : Sends(c, made)
<1>0. PICK made : made = Made(Assembling, sequence')
  OBVIOUS
<1>1. /\ kind \in DOMAIN Broadcasts /\ c \in DOMAIN Pes /\ next \in Nat /\ next - 1 \in Nat
      /\ curPTS \in Stamps /\ sequence \in BOOLEAN /\ Len(sent) \in Nat
      /\ sent \in MadeType(next - 1)
      /\ Pes[c].start \in Nat \ {0} /\ Pes[c].stop \in Nat /\ Pes[c].start <= Pes[c].stop
  <2>1. /\ kind \in DOMAIN Broadcasts /\ c \in DOMAIN Pes /\ next \in Nat /\ next - 1 \in Nat
        /\ curPTS \in Stamps /\ sequence \in BOOLEAN /\ sent \in MadeType(next - 1)
    BY Row DEF ParserInv, ParserTypeOK, Current, MadeType
  <2>2. Len(sent) \in Nat
    BY <2>1, LenProperties DEF MadeType
  <2>3. Pes[c].start \in Nat \ {0} /\ Pes[c].stop \in Nat /\ Pes[c].start <= Pes[c].stop
    BY <2>1, Row
  <2> QED
    BY <2>1, <2>2, <2>3
<1>2. /\ Assembling \in Seq(1 .. (next - 1)) /\ Assembling # <<>> /\ Rising(Assembling)
  BY AssemblingProperties
<1>3. /\ next > Pes[c].stop
      /\ \A i \in 1 .. Len(Assembling) : Assembling[i] >= Pes[c].start
      /\ Intact(c) => /\ next = Pes[c].stop + 1
                      /\ Assembling = Units(Pes[c].start, Pes[c].stop)
  BY AssembledIsOver
<1>4. PICK data : data = Assembling
  OBVIOUS
<1>5. /\ sent' = sent \o made /\ made = Made(data, sequence')
      /\ sequence' = (sequence \/ (kind = "mpeg2" /\ HasSequence(data)))
      /\ sequence' \in BOOLEAN
  BY <1>0, <1>1, <1>4, SendPayloadMade
<1>6. made \in MadeType(next - 1) /\ PartsInOrder(made, data)
  <2>1. \A i, j \in 1 .. Len(data) : i < j => data[i] < data[j]
    BY <1>2, <1>4 DEF Rising
  <2> QED
    BY <1>1, <1>2, <1>4, <1>5, <2>1, MadeInOrder
<1>7. Len(made) \in Nat /\ \A k \in 1 .. Len(made) : made[k] \in [data : Seq(1 .. (next - 1)) \ {<<>>}, pts : Stamps]
  BY <1>6, LenProperties, ElementOfSeq DEF MadeType
<1>8. /\ Len(sent') = Len(sent) + Len(made)
      /\ \A i \in 1 .. Len(sent) : sent'[i] = sent[i]
      /\ \A k \in 1 .. Len(made) : sent'[Len(sent) + k] = made[k]
  <2> DEFINE L == Len(sent)
  <2>1. /\ Len(sent') = L + Len(made)
        /\ \A i \in 1 .. (L + Len(made)) : sent'[i] = IF i <= L THEN sent[i] ELSE made[i - L]
    BY <1>1, <1>5, <1>6, ConcatProperties DEF MadeType
  <2>2. ASSUME NEW i \in 1 .. L PROVE i \in 1 .. (L + Len(made)) /\ i <= L
    BY <1>1, <1>7
  <2>3. ASSUME NEW k \in 1 .. Len(made)
        PROVE  L + k \in 1 .. (L + Len(made)) /\ ~(L + k <= L) /\ (L + k) - L = k
    BY <1>1, <1>7
  <2> QED
    BY <2>1, <2>2, <2>3
<1>9. ASSUME NEW k \in 1 .. Len(made)
      PROVE  /\ Len(made[k].data) \in Nat \ {0}
             /\ \A j \in 1 .. Len(made[k].data) : made[k].data[j] \in Pes[c].start .. (next - 1)
  <2>1. /\ made[k].data \in Seq(1 .. (next - 1)) /\ made[k].data # <<>>
    BY <1>7
  <2>2. Len(made[k].data) \in Nat \ {0}
    BY <2>1, LenProperties, EmptySeq
  <2>3. PICK a \in 1 .. Len(data), b \in 1 .. Len(data) : a <= b /\ made[k].data = SubSeq(data, a, b)
    BY <1>6 DEF PartsInOrder
  <2>4. Len(data) \in Nat
    BY <1>2, <1>4, LenProperties
  <2>5. /\ Len(made[k].data) = b + 1 - a
        /\ \A i \in 1 .. (b + 1 - a) : made[k].data[i] = data[a + i - 1]
    <3>1. a \in 1 .. Len(data) + 1 /\ b \in 0 .. Len(data)
      BY <2>4
    <3>2. data \in Seq(1 .. (next - 1))
      BY <1>2, <1>4
    <3>3. /\ Len(SubSeq(data, a, b)) = IF a <= b THEN b + 1 - a ELSE 0
          /\ \A i \in 1 .. (b + 1 - a) : SubSeq(data, a, b)[i] = data[a + i - 1]
      BY <3>1, <3>2, PartIn
    <3> QED
      BY <2>3, <3>3
  <2>6. ASSUME NEW j \in 1 .. Len(made[k].data) PROVE made[k].data[j] \in Pes[c].start .. (next - 1)
    <3>1. j \in 1 .. (b + 1 - a) /\ a + j - 1 \in 1 .. Len(data)
      BY <2>3, <2>4, <2>5
    <3>2. made[k].data[j] = data[a + j - 1] /\ data[a + j - 1] >= Pes[c].start
      BY <1>3, <1>4, <2>5, <3>1
    <3>3. made[k].data[j] \in 1 .. (next - 1)
      BY <2>1, ElementOfSeq
    <3> QED
      BY <1>1, <3>2, <3>3
  <2> QED
    BY <2>2, <2>6
<1>10. ASSUME Intact(c)
       PROVE  /\ next = Pes[c].stop + 1
              /\ \A k \in 1 .. Len(made) : \E o \in InPes(Pes[c]) : made[k].data = Units(o[1], o[2])
              /\ (kind = "mpeg2" => sequence') =>
                   \A o \in InPes(Pes[c]) : \E k \in 1 .. Len(made) : made[k].data = Units(o[1], o[2])
              /\ kind = "mpeg2" /\ HeaderIn(c) => sequence'
  <2>1. next = Pes[c].stop + 1 /\ data = Units(Pes[c].start, Pes[c].stop)
    BY <1>3, <1>4, <1>10
  <2>2. made = Made(Units(Pes[c].start, Pes[c].stop), sequence')
    BY <1>5, <2>1
  <2>3. ASSUME HeaderIn(c) PROVE HasSequence(data)
    <3>1. PICK u \in Pes[c].start .. Pes[c].stop : Marks[u].is = "sequence"
      BY <2>3 DEF HeaderIn
    <3>2. /\ Pes[c].start <= Pes[c].stop + 1
          /\ u + 1 - Pes[c].start \in 1 .. (Pes[c].stop + 1 - Pes[c].start)
          /\ Pes[c].start + (u + 1 - Pes[c].start) - 1 = u
      BY <1>1
    <3> DEFINE i == u + 1 - Pes[c].start
    <3>3. /\ Len(data) = Pes[c].stop + 1 - Pes[c].start
          /\ \A j \in 1 .. (Pes[c].stop + 1 - Pes[c].start) : data[j] = Pes[c].start + j - 1
      <4>1. Pes[c].start \in Nat /\ Pes[c].stop \in Nat
        BY <1>1
      <4> QED
        BY <2>1, <3>2, <4>1, UnitsProperties
    <3>4. DOMAIN data = 1 .. Len(data)
      BY <1>2, <1>4, LenProperties
    <3>5. i \in DOMAIN data /\ data[i] = u
      BY <3>2, <3>3, <3>4
    <3> QED
      BY <3>1, <3>5 DEF HasSequence, IsAt
  <2>4. PICK seen \in BOOLEAN : seen = sequence'
    BY <1>5
  <2>5. PICK m \in DOMAIN Pes : m = c
    BY <1>1
  <2>6. made = Made(Units(Pes[m].start, Pes[m].stop), seen)
    BY <2>2, <2>4, <2>5
  <2>7. /\ \A k \in 1 .. Len(made) : \E o \in InPes(Pes[m]) : made[k].data = Units(o[1], o[2])
        /\ (kind = "mpeg2" => seen) =>
             \A o \in InPes(Pes[m]) : \E k \in 1 .. Len(made) : made[k].data = Units(o[1], o[2])
    <3>1. /\ kind \in DOMAIN Broadcasts /\ kind \notin Framed /\ m \in DOMAIN Pes /\ seen \in BOOLEAN
      BY <1>1, <2>4, <2>5
    <3>2. LET whole == Made(Units(Pes[m].start, Pes[m].stop), seen)
          IN  /\ \A k \in 1 .. Len(whole) : \E o \in InPes(Pes[m]) : whole[k].data = Units(o[1], o[2])
              /\ (kind = "mpeg2" => seen) =>
                   \A o \in InPes(Pes[m]) :
                     \E k \in 1 .. Len(whole) : whole[k].data = Units(o[1], o[2])
      BY <3>1, MadeOfWhole
    <3> QED
      BY <2>6, <3>2
  <2>8. kind = "mpeg2" /\ HeaderIn(c) => sequence'
    BY <1>5, <2>3
  <2> QED
    BY <2>1, <2>4, <2>5, <2>7, <2>8
<1>11. sequence => sequence'
  BY <1>5
<1>12. \A k, l \in 1 .. Len(made) : k < l => made[k].data[1] < made[l].data[1]
  BY <1>6 DEF PartsInOrder
<1> QED
  BY <1>3, <1>7, <1>8, <1>9, <1>10, <1>11, <1>12 DEF Sends

ArriveContext ==
  /\ kind \in DOMAIN Broadcasts /\ next \in 1 .. Len(Marks) /\ next \in Nat /\ Len(Marks) \in Nat
  /\ gone \subseteq 1 .. (next - 1) /\ gone' = gone /\ kind' = kind
  /\ LastOfPacket \in Nat /\ next <= LastOfPacket /\ next' = LastOfPacket + 1
  /\ Len(sent) \in Nat
  /\ \A i \in 1 .. Len(sent) :
       /\ Len(sent[i].data) \in Nat \ {0}
       /\ \A j \in 1 .. Len(sent[i].data) : sent[i].data[j] \in 1 .. (next - 1)
  /\ \A n \in DOMAIN Pes : /\ n \in Nat /\ Pes[n].start \in Nat \ {0} /\ Pes[n].stop \in Nat
                           /\ Pes[n].start <= Pes[n].stop
  /\ \A m, n \in DOMAIN Pes : m < n => Pes[m].stop < Pes[n].start

LEMMA Arriving ==
  ASSUME ParserInv, kind \notin Framed, Arrive
  PROVE  ArriveContext /\ ParsePes
<1>1. /\ kind \in DOMAIN Broadcasts /\ next \in 1 .. Len(Marks) /\ next \in Nat /\ Len(Marks) \in Nat
      /\ gone \subseteq 1 .. (next - 1)
  <2>1. kind \in DOMAIN Broadcasts /\ next \in 1 .. (Len(Marks) + 1) /\ gone \subseteq 1 .. (next - 1)
    BY DEF ParserInv, ParserTypeOK
  <2>2. Len(Marks) \in Nat
    BY <2>1, Row
  <2> QED
    BY <2>1, <2>2 DEF Arrive
<1>2. ParsePes /\ gone' = gone /\ kind' = kind /\ next' = LastOfPacket + 1
  BY DEF Arrive, ParsePes
<1>3. LastOfPacket \in Nat /\ next <= LastOfPacket
  <2>1. LastOfPacket \in next .. Len(Marks)
    BY <1>1, NextPacket
  <2> QED
    BY <1>1, <2>1
<1>4. sent \in Seq([data : Seq(1 .. (next - 1)) \ {<<>>}, pts : Stamps])
  BY DEF ParserInv, ParserTypeOK
<1>5. Len(sent) \in Nat
  BY <1>4, LenProperties
<1>6. ASSUME NEW i \in 1 .. Len(sent)
      PROVE  /\ Len(sent[i].data) \in Nat \ {0}
             /\ \A j \in 1 .. Len(sent[i].data) : sent[i].data[j] \in 1 .. (next - 1)
  <2>1. sent[i] \in [data : Seq(1 .. (next - 1)) \ {<<>>}, pts : Stamps]
    BY <1>4, ElementOfSeq
  <2>2. sent[i].data \in Seq(1 .. (next - 1)) /\ sent[i].data # <<>>
    BY <2>1
  <2> QED
    BY <2>2, LenProperties, EmptySeq, ElementOfSeq
<1>7. DOMAIN Pes \subseteq Nat
  BY <1>1, Row
<1>8. /\ \A n \in DOMAIN Pes : /\ Pes[n].start \in Nat \ {0} /\ Pes[n].stop \in Nat
                               /\ Pes[n].start <= Pes[n].stop
      /\ \A m, n \in DOMAIN Pes : m < n => Pes[m].stop < Pes[n].start
  BY <1>1, Row
<1> QED
  BY <1>1, <1>2, <1>3, <1>5, <1>6, <1>7, <1>8 DEF ArriveContext

(* Passing the end of an intact PES packet, the packet is the current one. *)
LEMMA PassesCurrent ==
  ASSUME ArriveContext, NEW m \in DOMAIN Pes, Intact(m),
         next' > Pes[m].stop + 1, ~(next > Pes[m].stop + 1)
  PROVE  /\ next = Pes[m].stop + 1 /\ Pusi /\ Pes[m].start < next /\ Pes[m].start \notin gone
         /\ \A c : Current(c) => c = m
<1>1. next = Pes[m].stop + 1 /\ Pusi
  <2>1. next <= Pes[m].stop + 1 /\ LastOfPacket >= Pes[m].stop + 1
    BY DEF ArriveContext
  <2> QED
    BY <2>1, PassingTheEnd DEF ArriveContext
<1>2. Pes[m].start < next /\ Pes[m].start \notin gone
  <2>1. m \in DOMAIN Pes \cap {m, m + 1} /\ Pes[m].start \in Pes[m].start .. Pes[m].stop
    BY DEF ArriveContext
  <2> QED
    BY <1>1, <2>1 DEF Intact, ArriveContext
<1>3. ASSUME NEW c, Current(c) PROVE c = m
  <2>1. c \in DOMAIN Pes /\ Pes[c].start < next /\ ~(c < m)
    BY <1>2, <1>3 DEF Current
  <2>2. ~(m < c)
    BY <1>1, <2>1 DEF ArriveContext
  <2> QED
    BY <2>1, <2>2 DEF ArriveContext
<1> QED
  BY <1>1, <1>2, <1>3

(* Whenever the end of an intact PES packet is passed, it is complete.     *)
LEMMA SendsOrWaits ==
  ASSUME ParserInv, AssemblesOne, kind \notin Framed, Fits, Arrive
  PROVE  \/ /\ UNCHANGED <<sent, sequence>>
            /\ \A m \in DOMAIN Pes :
                 Intact(m) /\ next' > Pes[m].stop + 1 => next > Pes[m].stop + 1
         \/ \E c, made : Current(c) /\ Sends(c, made)
<1>1. ArriveContext /\ ParsePes
  BY Arriving
<1>2. CASE ~startup /\ Assembled
  <2>1. PICK c \in DOMAIN Pes : Current(c) /\ Filling(c)
    BY <1>2 DEF AssemblesOne
  <2>2. SendPayload(Assembling)
    BY <1>1, <1>2 DEF ParsePes
  <2>3. next \in 1 .. Len(Marks)
    BY <1>1 DEF ArriveContext
  <2>4. \E made : Sends(c, made)
    BY <1>2, <2>1, <2>2, <2>3, SendsParts
  <2> QED
    BY <2>1, <2>4
<1>3. CASE ~(~startup /\ Assembled)
  <2>1. UNCHANGED <<sent, sequence>>
    BY <1>1, <1>3 DEF ParsePes
  <2>2. ASSUME NEW m \in DOMAIN Pes, Intact(m), next' > Pes[m].stop + 1, ~(next > Pes[m].stop + 1)
        PROVE  FALSE
    <3>1. /\ next = Pes[m].stop + 1 /\ Pusi /\ Pes[m].start < next /\ Pes[m].start \notin gone
          /\ \A c : Current(c) => c = m
      BY <1>1, <2>2, PassesCurrent
    <3>2. ~startup
      BY <3>1 DEF AssemblesOne, NothingYet
    <3>3. Current(m) /\ Filling(m)
      BY <3>1, <3>2 DEF AssemblesOne
    <3> DEFINE s == Pes[m].start
               t == Pes[m].stop
    <3>4. s \in Nat /\ t \in Nat /\ s <= t /\ next \in Nat
      BY <1>1 DEF ArriveContext
    <3>5. /\ length = IF Pes[m].sized THEN t + 1 - s ELSE 0
          /\ buffer # <<>>
          /\ \A v \in s .. (next - 1) :
               v + 1 - s <= BufferSize /\ (\A u \in s .. v : u \notin gone) =>
                 Len(buffer) >= v + 1 - s
      BY <3>3 DEF Filling
    <3>6. t + 1 - s <= BufferSize
      BY DEF Fits
    <3>7. \A u \in s .. t : u \notin gone
      <4>1. m \in DOMAIN Pes \cap {m, m + 1}
        OBVIOUS
      <4> QED
        BY <2>2, <4>1 DEF Intact
    <3>8. t \in s .. (next - 1)
      BY <3>1, <3>4
    <3>9. Len(buffer) >= t + 1 - s
      BY <3>5, <3>6, <3>7, <3>8
    <3>10. Assembled
      <4>1. CASE length = 0
        BY <3>1, <3>5, <4>1 DEF Assembled
      <4>2. CASE length # 0
        <5>1. length = t + 1 - s
          BY <3>5, <4>2
        <5> QED
          BY <3>9, <4>2, <5>1 DEF Assembled
      <4> QED
        BY <4>1, <4>2
    <3> QED
      BY <1>3, <3>2, <3>10
  <2> QED
    BY <2>1, <2>2
<1> QED
  BY <1>2, <1>3

LEMMA ArriveSentApart ==
  ASSUME ArriveContext, SentApart,
         UNCHANGED sent \/ \E c, made : Current(c) /\ Sends(c, made)
  PROVE  SentApart'
<1>1. Pes' = Pes /\ gone' = gone
  BY Rigid DEF ArriveContext
<1>2. SUFFICES ASSUME NEW m \in DOMAIN Pes, Pes[m].start \notin gone, Pes[m].start < next',
                      NEW i \in 1 .. Len(sent')
               PROVE  Before(i, Pes[m].start)' \/ (From(i, Pes[m].start)' /\ next' > Pes[m].stop + 1)
  BY <1>1 DEF SentApart, Before, From
<1>3. /\ Pes[m].start \in Nat /\ Pes[m].stop \in Nat /\ Pes[m].start <= Pes[m].stop /\ m \in Nat
      /\ next \in Nat /\ next' \in Nat /\ next < next'
  BY DEF ArriveContext
<1>4. CASE Pes[m].start < next
  <2>1. \A k \in 1 .. Len(sent) :
          Before(k, Pes[m].start) \/ (From(k, Pes[m].start) /\ next > Pes[m].stop + 1)
    BY <1>2, <1>4 DEF SentApart
  <2>2. CASE UNCHANGED sent
    BY <1>1, <1>3, <2>1, <2>2 DEF Before, From
  <2>3. CASE \E c, made : Current(c) /\ Sends(c, made)
    <3>1. PICK c, made : Current(c) /\ Sends(c, made)
      BY <2>3
    <3>2. CASE i \in 1 .. Len(sent)
      <4>1. sent'[i] = sent[i]
        BY <3>1, <3>2 DEF Sends
      <4> QED
        BY <1>1, <1>3, <2>1, <3>2, <4>1 DEF Before, From
    <3>3. CASE i \notin 1 .. Len(sent)
      <4>1. PICK k \in 1 .. Len(made) : sent'[i] = made[k]
        <5>1. i - Len(sent) \in 1 .. Len(made) /\ Len(sent) + (i - Len(sent)) = i
          BY <3>1, <3>3 DEF Sends, ArriveContext
        <5> QED
          BY <3>1, <5>1 DEF Sends
      <4>2. \A j \in 1 .. Len(made[k].data) : made[k].data[j] \in Pes[c].start .. (next - 1)
        BY <3>1 DEF Sends
      <4>3. c \in DOMAIN Pes /\ ~(c < m) /\ next > Pes[c].stop
        BY <1>2, <1>4, <3>1 DEF Current, Sends
      <4>4. /\ c \in Nat /\ Pes[c].start \in Nat /\ Pes[c].stop \in Nat /\ Pes[c].start <= Pes[c].stop
            /\ (m < c => Pes[m].stop < Pes[c].start)
        BY <4>3 DEF ArriveContext
      <4>5. Pes[m].start <= Pes[c].start /\ next' > Pes[m].stop + 1
        <5>1. CASE m = c
          BY <1>3, <4>3, <4>4, <5>1
        <5>2. CASE m < c
          BY <1>3, <4>3, <4>4, <5>2
        <5> QED
          BY <1>3, <4>3, <4>4, <5>1, <5>2
      <4>6. From(i, Pes[m].start)'
        <5>1. ASSUME NEW v \in Pes[c].start .. (next - 1) PROVE v >= Pes[m].start
          BY <1>3, <4>4, <4>5
        <5>2. \A j \in 1 .. Len(made[k].data) : made[k].data[j] >= Pes[m].start
          BY <4>2, <5>1
        <5> QED
          BY <1>1, <4>1, <5>2 DEF From
      <4> QED
        BY <4>5, <4>6
    <3> QED
      BY <3>2, <3>3
  <2> QED
    BY <2>2, <2>3 DEF ArriveContext
<1>5. CASE ~(Pes[m].start < next)
  <2>1. Pes[m].start = next
    <3>1. next <= Pes[m].start /\ Pes[m].start <= LastOfPacket
      BY <1>2, <1>3, <1>5 DEF ArriveContext
    <3> QED
      BY <3>1, NoStartInside DEF ArriveContext
  <2>2. \A j \in 1 .. Len(sent'[i].data) : sent'[i].data[j] < next
    <3>1. CASE i \in 1 .. Len(sent) /\ sent'[i] = sent[i]
      BY <1>3, <3>1 DEF ArriveContext
    <3>2. CASE UNCHANGED sent
      BY <1>3, <3>2 DEF ArriveContext
    <3>3. ASSUME NEW c, NEW made, Current(c), Sends(c, made)
          PROVE  \A j \in 1 .. Len(sent'[i].data) : sent'[i].data[j] < next
      <4>1. CASE i \in 1 .. Len(sent)
        BY <3>1, <3>3, <4>1 DEF Sends
      <4>2. CASE i \notin 1 .. Len(sent)
        <5>1. i - Len(sent) \in 1 .. Len(made) /\ Len(sent) + (i - Len(sent)) = i
          BY <3>3, <4>2 DEF Sends, ArriveContext
        <5>2. PICK k \in 1 .. Len(made) : sent'[i] = made[k]
          BY <3>3, <5>1 DEF Sends
        <5>3. Pes[c].start \in Nat
          BY <3>3 DEF Current, ArriveContext
        <5>4. \A j \in 1 .. Len(made[k].data) : made[k].data[j] \in Pes[c].start .. (next - 1)
          BY <3>3 DEF Sends
        <5> QED
          BY <1>3, <5>2, <5>3, <5>4
      <4> QED
        BY <4>1, <4>2
    <3> QED
      BY <3>2, <3>3
  <2>3. Before(i, Pes[m].start)'
    BY <1>1, <2>1, <2>2 DEF Before
  <2> QED
    BY <2>3
<1> QED
  BY <1>4, <1>5

LEMMA ArriveGenuine ==
  ASSUME ArriveContext, Genuine,
         UNCHANGED sent \/ \E c, made : Current(c) /\ Sends(c, made), kind \notin Framed
  PROVE  Genuine'
<1>1. /\ Pes' = Pes /\ Owed' = Owed /\ gone' = gone
      /\ \A u : PesOf(u)' = PesOf(u)
  BY Rigid DEF ArriveContext
<1>2. \A n : Intact(n)' <=> Intact(n)
  BY <1>1 DEF Intact
<1>3. CASE UNCHANGED sent
  <2>1. \A i, o : Is(i, o)' <=> Is(i, o)
    BY <1>3 DEF Is
  <2> QED
    BY <1>1, <1>2, <1>3, <2>1 DEF Genuine
<1>4. ASSUME NEW c, NEW made, Current(c), Sends(c, made)
      PROVE  Genuine'
  <2> SUFFICES ASSUME NEW i \in 1 .. Len(sent')
               PROVE  (\E o \in Owed : sent'[i].data = Units(o[1], o[2]))
                        \/ ~Intact(PesOf(sent'[i].data[1]))
    BY <1>1, <1>2 DEF Genuine, Is
  <2>1. CASE i \in 1 .. Len(sent)
    <3>1. sent'[i] = sent[i]
      BY <1>4, <2>1 DEF Sends
    <3> QED
      BY <2>1, <3>1 DEF Genuine, Is
  <2>2. CASE i \notin 1 .. Len(sent) /\ Intact(PesOf(sent'[i].data[1]))
    <3>1. i - Len(sent) \in 1 .. Len(made) /\ Len(sent) + (i - Len(sent)) = i
      BY <1>4, <2>2 DEF Sends, ArriveContext
    <3>2. PICK k \in 1 .. Len(made) : sent'[i] = made[k]
      BY <1>4, <3>1 DEF Sends
    <3>3. c \in DOMAIN Pes /\ Pes[c].start \in Nat
      BY <1>4 DEF Current, ArriveContext
    <3>4. made[k].data[1] \in Pes[c].start .. (next - 1)
      <4>1. 1 \in 1 .. Len(made[k].data)
        BY <1>4 DEF Sends
      <4> QED
        BY <1>4, <4>1 DEF Sends
    <3>5. PesOf(made[k].data[1]) = c
      <4>1. PICK u : u = made[k].data[1]
        OBVIOUS
      <4>2. u \in Nat /\ Pes[c].start <= u /\ u < next /\ Intact(PesOf(u))
        BY <2>2, <3>2, <3>3, <3>4, <4>1 DEF ArriveContext
      <4>3. next \in 1 .. (Len(Marks) + 1)
        BY DEF ArriveContext
      <4> QED
        BY <1>4, <4>1, <4>2, <4>3, IntactIsCurrent DEF ArriveContext
    <3>6. \E o \in InPes(Pes[c]) : made[k].data = Units(o[1], o[2])
      BY <1>4, <2>2, <3>2, <3>5 DEF Sends
    <3>7. InPes(Pes[c]) \subseteq Owed
      BY <3>3 DEF Owed
    <3> QED
      BY <3>2, <3>6, <3>7
  <2> QED
    BY <2>1, <2>2
<1> QED
  BY <1>3, <1>4

LEMMA ArriveInOrder ==
  ASSUME ArriveContext, SentApart, SentInOrder,
         UNCHANGED sent \/ \E c, made : Current(c) /\ Sends(c, made)
  PROVE  SentInOrder'
<1>1. /\ Pes' = Pes /\ gone' = gone /\ \A u : PesOf(u)' = PesOf(u)
  BY Rigid DEF ArriveContext
<1>2. \A n : Intact(n)' <=> Intact(n)
  BY <1>1 DEF Intact
<1>3. CASE UNCHANGED sent
  BY <1>1, <1>2, <1>3 DEF SentInOrder
<1>4. ASSUME NEW c, NEW made, Current(c), Sends(c, made)
      PROVE  SentInOrder'
  <2> SUFFICES ASSUME NEW i \in 1 .. Len(sent'), NEW j \in 1 .. Len(sent'), i < j
               PROVE  \/ sent'[i].data[1] < sent'[j].data[1]
                      \/ ~Intact(PesOf(sent'[i].data[1])) /\ ~Intact(PesOf(sent'[j].data[1]))
    BY <1>1, <1>2 DEF SentInOrder
  <2>0. /\ Len(sent) \in Nat /\ Len(made) \in Nat /\ Len(sent') = Len(sent) + Len(made)
        /\ \A k \in 1 .. Len(sent) : sent'[k] = sent[k]
        /\ \A k \in 1 .. Len(made) : sent'[Len(sent) + k] = made[k]
    BY <1>4 DEF Sends, ArriveContext
  <2>1. CASE j \in 1 .. Len(sent)
    <3>1. i \in 1 .. Len(sent)
      BY <2>0, <2>1
    <3>2. sent'[i] = sent[i] /\ sent'[j] = sent[j]
      BY <2>0, <2>1, <3>1
    <3> QED
      BY <2>1, <3>1, <3>2 DEF SentInOrder
  <2>2. CASE i \notin 1 .. Len(sent)
    <3> DEFINE L == Len(sent)
               k == i - L
               l == j - L
    <3>1. k \in 1 .. Len(made) /\ l \in 1 .. Len(made) /\ k < l /\ L + k = i /\ L + l = j
      BY <2>0, <2>2
    <3> HIDE DEF L, k, l
    <3>2. sent'[i] = made[k] /\ sent'[j] = made[l]
      BY <2>0, <3>1 DEF L
    <3>3. made[k].data[1] < made[l].data[1]
      BY <1>4, <3>1 DEF Sends
    <3> QED
      BY <3>2, <3>3
  <2>3. CASE i \in 1 .. Len(sent) /\ j \notin 1 .. Len(sent)
    <3>1. j - Len(sent) \in 1 .. Len(made) /\ Len(sent) + (j - Len(sent)) = j
      BY <2>0, <2>3
    <3>2. PICK k \in 1 .. Len(made) : sent'[j] = made[k]
      BY <2>0, <3>1
    <3>3. sent'[i] = sent[i]
      BY <2>0, <2>3
    <3>4. /\ c \in DOMAIN Pes /\ Pes[c].start \in Nat /\ Pes[c].start < next /\ Pes[c].start \notin gone
      BY <1>4 DEF Current, ArriveContext
    <3>5. PICK u, v : u = sent[i].data[1] /\ v = made[k].data[1]
      OBVIOUS
    <3>6. u \in 1 .. (next - 1) /\ 1 \in 1 .. Len(sent[i].data)
      BY <2>3, <3>5 DEF ArriveContext
    <3>7. v \in Pes[c].start .. (next - 1)
      <4>1. 1 \in 1 .. Len(made[k].data)
        BY <1>4 DEF Sends
      <4> QED
        BY <1>4, <3>5, <4>1 DEF Sends
    <3>8. CASE Before(i, Pes[c].start)
      <4>1. u < Pes[c].start
        BY <3>5, <3>6, <3>8 DEF Before
      <4>2. u < v
        BY <3>4, <3>6, <3>7, <4>1
      <4> QED
        BY <3>2, <3>3, <3>5, <4>2
    <3>9. CASE From(i, Pes[c].start) /\ next > Pes[c].stop + 1
      <4>1. u >= Pes[c].start
        BY <3>5, <3>6, <3>9 DEF From
      <4>2. ~Intact(c)
        <5>1. Pes[c].stop \in Nat /\ next \in Nat /\ next # Pes[c].stop + 1
          BY <3>4, <3>9 DEF ArriveContext
        <5> QED
          BY <1>4, <5>1 DEF Sends
      <4>3. \A w \in {u, v} : w \in Nat /\ Pes[c].start <= w /\ w < next
        BY <3>4, <3>6, <3>7, <4>1 DEF ArriveContext
      <4>4. next \in 1 .. (Len(Marks) + 1)
        BY DEF ArriveContext
      <4>5. \A w \in {u, v} : ~Intact(PesOf(w))
        BY <1>4, <4>2, <4>3, <4>4, IntactIsCurrent DEF ArriveContext
      <4> QED
        BY <3>2, <3>3, <3>5, <4>5
    <3> QED
      BY <2>3, <3>4, <3>8, <3>9 DEF SentApart
  <2> QED
    BY <2>1, <2>2, <2>3
<1> QED
  BY <1>3, <1>4

\* An intact PES packet whose end is passed by this TS packet, and no sooner.
Passes(m) == Intact(m) /\ next' > Pes[m].stop + 1 /\ ~(next > Pes[m].stop + 1)

LEMMA ArriveHeaderSeen ==
  ASSUME ArriveContext, HeaderSeen, sequence \in BOOLEAN,
         \/ UNCHANGED sequence /\ \A m \in DOMAIN Pes : ~Passes(m)
         \/ \E c, made : Current(c) /\ Sends(c, made)
  PROVE  HeaderSeen'
<1>1. Pes' = Pes /\ Marks' = Marks /\ gone' = gone /\ kind' = kind
  BY Rigid DEF ArriveContext
<1>2. \A n : (Intact(n)' <=> Intact(n)) /\ (HeaderIn(n)' <=> HeaderIn(n))
  BY <1>1 DEF Intact, HeaderIn
<1>3. SUFFICES ASSUME kind = "mpeg2", NEW n \in DOMAIN Pes, Intact(n), HeaderIn(n), next' > Pes[n].stop + 1
               PROVE  sequence'
  BY <1>1, <1>2 DEF HeaderSeen
<1>4. CASE next > Pes[n].stop + 1
  <2>1. sequence
    BY <1>3, <1>4 DEF HeaderSeen
  <2> QED
    BY <2>1 DEF Sends
<1>5. CASE ~(next > Pes[n].stop + 1)
  <2>1. Passes(n)
    BY <1>3, <1>5 DEF Passes
  <2>2. PICK c, made : Current(c) /\ Sends(c, made)
    BY <2>1
  <2>3. c = n
    BY <1>3, <1>5, <2>2, PassesCurrent
  <2> QED
    BY <1>3, <2>2, <2>3 DEF Sends
<1> QED
  BY <1>4, <1>5

LEMMA ArriveDelivered ==
  ASSUME ArriveContext, SentApart, Delivered, HeaderSeen,
         \/ UNCHANGED <<sent, sequence>> /\ \A m \in DOMAIN Pes : ~Passes(m)
         \/ \E c, made : Current(c) /\ Sends(c, made)
  PROVE  Delivered'
<1>1. /\ Pes' = Pes /\ Marks' = Marks /\ gone' = gone /\ kind' = kind
      /\ \A p : InPes(p)' = InPes(p)
  BY Rigid DEF ArriveContext
<1>2. \A n : (Intact(n)' <=> Intact(n)) /\ (HeaderIn(n)' <=> HeaderIn(n))
  BY <1>1 DEF Intact, HeaderIn
<1>3. ASSUME NEW m \in DOMAIN Pes, Intact(m), next' > Pes[m].stop + 1, NEW o \in InPes(Pes[m]),
             kind = "mpeg2" => \E n \in 1 .. m : Intact(n) /\ HeaderIn(n)
      PROVE  \E i \in 1 .. Len(sent') :
               /\ sent'[i].data = Units(o[1], o[2])
               /\ \A j \in 1 .. Len(sent') : sent'[j].data = Units(o[1], o[2]) => j = i
  <2>0. /\ o[1] \in Nat /\ o[2] \in Nat /\ o[1] <= o[2]
        /\ Pes[m].start <= o[1] /\ o[2] <= Pes[m].stop
    BY <1>3, OwedInPes DEF ArriveContext
  <2>1. Units(o[1], o[2])[1] = o[1]
    <3>1. o[1] <= o[2] + 1 /\ 1 \in 1 .. (o[2] + 1 - o[1]) /\ o[1] + 1 - 1 = o[1]
      BY <2>0
    <3> QED
      BY <2>0, <3>1, UnitsProperties
  <2>2. /\ Pes[m].start \in Nat /\ Pes[m].stop \in Nat /\ Pes[m].start <= Pes[m].stop /\ m \in Nat
        /\ next \in Nat
    BY DEF ArriveContext
  <2>3. Pes[m].start \notin gone
    <3>1. m \in DOMAIN Pes \cap {m, m + 1} /\ Pes[m].start \in Pes[m].start .. Pes[m].stop
      BY <2>2
    <3> QED
      BY <1>3, <3>1 DEF Intact
  <2>4. CASE next > Pes[m].stop + 1
    <3>1. PICK i \in 1 .. Len(sent) :
            Is(i, o) /\ \A j \in 1 .. Len(sent) : Is(j, o) => j = i
      BY <1>3, <2>4 DEF Delivered
    <3>2. CASE UNCHANGED sent
      BY <3>1, <3>2 DEF Is
    <3>3. ASSUME NEW c, NEW made, Current(c), Sends(c, made)
          PROVE  /\ i \in 1 .. Len(sent') /\ sent'[i].data = Units(o[1], o[2])
                 /\ \A j \in 1 .. Len(sent') : sent'[j].data = Units(o[1], o[2]) => j = i
      <4>0. /\ Len(sent) \in Nat /\ Len(made) \in Nat /\ Len(sent') = Len(sent) + Len(made)
            /\ \A k \in 1 .. Len(sent) : sent'[k] = sent[k]
            /\ \A k \in 1 .. Len(made) : sent'[Len(sent) + k] = made[k]
        BY <3>3 DEF Sends, ArriveContext
      <4>1. m # c
        <5>1. next # Pes[m].stop + 1
          BY <2>2, <2>4
        <5> QED
          BY <1>3, <3>3, <5>1 DEF Sends
      <4>2. m < c
        <5>1. c \in DOMAIN Pes /\ c \in Nat /\ Pes[m].start < next
          BY <2>2, <2>4, <3>3 DEF Current, ArriveContext
        <5>2. ~(c < m)
          BY <2>3, <3>3, <5>1 DEF Current
        <5> QED
          BY <2>2, <4>1, <5>1, <5>2
      <4>3. Pes[m].stop < Pes[c].start /\ Pes[c].start \in Nat
        BY <3>3, <4>2 DEF Current, ArriveContext
      <4>4. ASSUME NEW j \in 1 .. Len(sent'), j \notin 1 .. Len(sent),
                   sent'[j].data = Units(o[1], o[2])
            PROVE  FALSE
        <5>1. j - Len(sent) \in 1 .. Len(made) /\ Len(sent) + (j - Len(sent)) = j
          BY <4>0, <4>4
        <5>2. PICK k \in 1 .. Len(made) : sent'[j] = made[k]
          BY <4>0, <5>1
        <5>3. made[k].data[1] \in Pes[c].start .. (next - 1)
          <6>1. 1 \in 1 .. Len(made[k].data)
            BY <3>3 DEF Sends
          <6> QED
            BY <3>3, <6>1 DEF Sends
        <5>4. made[k].data[1] = o[1]
          BY <2>1, <4>4, <5>2
        <5> QED
          BY <2>0, <2>2, <4>3, <5>3, <5>4
      <4>5. i \in 1 .. Len(sent') /\ sent'[i] = sent[i]
        BY <4>0
      <4>6. \A j \in 1 .. Len(sent) : sent'[j] = sent[j]
        BY <4>0
      <4> QED
        BY <3>1, <4>4, <4>5, <4>6 DEF Is
    <3> QED
      BY <3>2, <3>3
  <2>5. CASE ~(next > Pes[m].stop + 1)
    <3>1. /\ next = Pes[m].stop + 1 /\ Pes[m].start < next
          /\ \A c : Current(c) => c = m
      BY <1>3, <2>5, PassesCurrent
    <3>2. Passes(m)
      BY <1>3, <2>5 DEF Passes
    <3>3. PICK made : Sends(m, made)
      BY <3>1, <3>2
    <3>4. kind = "mpeg2" => sequence'
      <4> SUFFICES ASSUME kind = "mpeg2" PROVE sequence'
        OBVIOUS
      <4>1. PICK n \in 1 .. m : Intact(n) /\ HeaderIn(n)
        BY <1>3
      <4>2. CASE n = m
        BY <1>3, <3>3, <4>1, <4>2 DEF Sends
      <4>3. CASE n # m
        <5>1. n < m /\ n \in DOMAIN Pes
          <6>1. DOMAIN Pes = 1 .. Len(Pes) /\ Len(Pes) \in Nat
            BY Row DEF ArriveContext
          <6> QED
            BY <2>2, <4>3, <6>1
        <5>2. Pes[n].stop < Pes[m].start /\ Pes[n].stop \in Nat
          BY <5>1 DEF ArriveContext
        <5>3. next > Pes[n].stop + 1
          BY <2>2, <3>1, <5>2
        <5>4. sequence
          BY <4>1, <5>1, <5>3 DEF HeaderSeen
        <5> QED
          BY <3>3, <5>4 DEF Sends
      <4> QED
        BY <4>2, <4>3
    <3>5. PICK k \in 1 .. Len(made) : made[k].data = Units(o[1], o[2])
      BY <1>3, <3>3, <3>4 DEF Sends
    <3>6. /\ Len(sent) \in Nat /\ Len(made) \in Nat /\ Len(sent') = Len(sent) + Len(made)
          /\ \A i \in 1 .. Len(sent) : sent'[i] = sent[i]
          /\ \A i \in 1 .. Len(made) : sent'[Len(sent) + i] = made[i]
      BY <3>3 DEF Sends, ArriveContext
    <3>7. ASSUME NEW j \in 1 .. Len(sent'), sent'[j].data = Units(o[1], o[2])
          PROVE  j = Len(sent) + k
      <4>1. sent'[j].data[1] = o[1]
        BY <2>1, <3>7
      <4>2. j \notin 1 .. Len(sent)
        <5> SUFFICES ASSUME j \in 1 .. Len(sent) PROVE FALSE
          OBVIOUS
        <5>1. sent[j].data[1] = o[1] /\ 1 \in 1 .. Len(sent[j].data)
          BY <3>6, <4>1 DEF ArriveContext
        <5>2. ~Before(j, Pes[m].start)
          BY <2>0, <2>2, <5>1 DEF Before
        <5> QED
          BY <2>3, <2>5, <3>1, <5>2 DEF SentApart
      <4>3. j - Len(sent) \in 1 .. Len(made) /\ Len(sent) + (j - Len(sent)) = j
        BY <3>6, <4>2
      <4>4. PICK l \in 1 .. Len(made) : l = j - Len(sent)
        BY <4>3
      <4>5. made[l].data[1] = o[1] /\ made[k].data[1] = o[1]
        BY <2>1, <3>5, <3>6, <4>1, <4>3, <4>4
      <4>6. ~(k < l) /\ ~(l < k)
        <5>1. (k < l => made[k].data[1] < made[l].data[1]) /\ (l < k => made[l].data[1] < made[k].data[1])
          BY <3>3 DEF Sends
        <5> QED
          BY <2>0, <4>5, <5>1
      <4>7. l \in Nat /\ k \in Nat
        BY <3>6
      <4>8. l = k
        BY <4>6, <4>7
      <4> QED
        BY <4>3, <4>4, <4>8
    <3>8. Len(sent) + k \in 1 .. Len(sent') /\ sent'[Len(sent) + k] = made[k]
      BY <3>6
    <3> QED
      BY <3>5, <3>7, <3>8
  <2> QED
    BY <2>4, <2>5
<1> SUFFICES ASSUME NEW m \in DOMAIN Pes', Intact(m)', next' > Pes'[m].stop + 1,
                    NEW o \in InPes(Pes[m])',
                    (kind = "mpeg2" => \E n \in 1 .. m : Intact(n) /\ HeaderIn(n))'
             PROVE  (\E i \in 1 .. Len(sent) : Is(i, o) /\ \A j \in 1 .. Len(sent) : Is(j, o) => j = i)'
  BY DEF Delivered
<1>4. /\ m \in DOMAIN Pes /\ Intact(m) /\ next' > Pes[m].stop + 1
      /\ o \in InPes(Pes[m])
      /\ kind = "mpeg2" => \E n \in 1 .. m : Intact(n) /\ HeaderIn(n)
  BY <1>1, <1>2
<1> QED
  BY <1>3, <1>4 DEF Is

LEMMA ArrivePes ==
  ASSUME ParserInv, PesInv, Fits, kind \notin Framed, Arrive
  PROVE  (AssemblesOne /\ SentApart /\ Delivered /\ Genuine /\ SentInOrder /\ HeaderSeen)'
<1>1. AssemblesOne /\ SentApart /\ Delivered /\ Genuine /\ SentInOrder /\ HeaderSeen
  BY DEF PesInv
<1>2. ArriveContext /\ sequence \in BOOLEAN
  BY Arriving DEF ParserInv, ParserTypeOK
<1>3. \/ UNCHANGED <<sent, sequence>> /\ \A m \in DOMAIN Pes : ~Passes(m)
      \/ \E c, made : Current(c) /\ Sends(c, made)
  BY <1>1, SendsOrWaits DEF Passes
<1>4. AssemblesOne'
  BY <1>1, ArriveAssembles
<1>5. SentApart' /\ Genuine' /\ SentInOrder'
  BY <1>1, <1>2, <1>3, ArriveSentApart, ArriveGenuine, ArriveInOrder
<1>6. Delivered'
  BY <1>1, <1>2, <1>3, ArriveDelivered
<1>7. HeaderSeen'
  BY <1>1, <1>2, <1>3, ArriveHeaderSeen
<1> QED
  BY <1>4, <1>5, <1>6, <1>7

LEMMA PesStep == ParserInv /\ PesInv /\ [ParserNext]_parserVars => PesInv'
<1> SUFFICES ASSUME ParserInv, PesInv, [ParserNext]_parserVars, (kind \notin Framed /\ Fits)'
             PROVE  (AssemblesOne /\ SentApart /\ Delivered /\ Genuine /\ SentInOrder /\ HeaderSeen)'
  BY DEF PesInv
<1>1. kind' = kind
  BY DEF ParserNext, Arrive, LosePacket, parserVars
<1>2. kind \notin Framed /\ Fits
  BY <1>1, Rigid
<1>3. CASE UNCHANGED parserVars
  <2>1. AssemblesOne /\ SentApart /\ Delivered /\ Genuine /\ SentInOrder /\ HeaderSeen
    BY <1>2 DEF PesInv
  <2>2. /\ Pes' = Pes /\ Marks' = Marks /\ Owed' = Owed
        /\ \A u : PesOf(u)' = PesOf(u)
        /\ \A p : InPes(p)' = InPes(p)
    BY <1>1, Rigid
  <2>3. UNCHANGED <<kind, next, buffer, startup, length, curPTS, sequence, sent, gone>>
    BY <1>3 DEF parserVars
  <2>4. \A n : (Intact(n)' <=> Intact(n)) /\ (HeaderIn(n)' <=> HeaderIn(n))
    BY <2>2, <2>3 DEF Intact, HeaderIn
  <2>5. \A i, o : Is(i, o)' <=> Is(i, o)
    BY <2>3 DEF Is
  <2>6. AssemblesOne'
    BY <2>1, <2>2, <2>3 DEF AssemblesOne, NothingYet, Current, Filling
  <2>7. SentApart'
    BY <2>1, <2>2, <2>3 DEF SentApart, Before, From
  <2>8. Delivered'
    <3> SUFFICES ASSUME NEW m \in DOMAIN Pes', Intact(m)', next' > Pes'[m].stop + 1,
                        NEW o \in InPes(Pes[m])',
                        (kind = "mpeg2" => \E n \in 1 .. m : Intact(n) /\ HeaderIn(n))'
                 PROVE  (\E i \in 1 .. Len(sent) : Is(i, o) /\ \A j \in 1 .. Len(sent) : Is(j, o) => j = i)'
      BY DEF Delivered
    <3>1. /\ m \in DOMAIN Pes /\ Intact(m) /\ next > Pes[m].stop + 1
          /\ o \in InPes(Pes[m])
          /\ kind = "mpeg2" => \E n \in 1 .. m : Intact(n) /\ HeaderIn(n)
      BY <2>2, <2>3, <2>4
    <3>2. \E i \in 1 .. Len(sent) : Is(i, o) /\ \A j \in 1 .. Len(sent) : Is(j, o) => j = i
      BY <2>1, <3>1 DEF Delivered
    <3> QED
      BY <2>3, <2>5, <3>2
  <2>9. Genuine'
    BY <2>1, <2>2, <2>3, <2>4, <2>5 DEF Genuine
  <2>10. SentInOrder'
    BY <2>1, <2>2, <2>3, <2>4 DEF SentInOrder
  <2>11. HeaderSeen'
    BY <2>1, <2>2, <2>3, <2>4 DEF HeaderSeen
  <2> QED
    BY <2>6, <2>7, <2>8, <2>9, <2>10, <2>11
<1>4. CASE Arrive
  BY <1>2, <1>4, ArrivePes
<1>5. CASE LosePacket
  BY <1>2, <1>5, LosePacketPes
<1> QED
  BY <1>3, <1>4, <1>5 DEF ParserNext

LEMMA PesWholeAndOnce ==
  ASSUME Fits, ParserInv, PesInv, kind \notin Framed
  PROVE  WholeAndOnce
<1>0. /\ AssemblesOne /\ Delivered /\ Genuine /\ SentInOrder
      /\ kind \in DOMAIN Broadcasts /\ next \in Nat
  BY Row DEF PesInv, ParserInv, ParserTypeOK
<1>1. Owed = UNION {InPes(Pes[n]) : n \in DOMAIN Pes}
  BY DEF Owed
<1>2. ASSUME NEW o \in Owed
      PROVE  /\ o[1] \in Nat /\ o[2] \in Nat /\ o[1] <= o[2]
             /\ Units(o[1], o[2])[1] = o[1]
             /\ PesOf(o[1]) \in DOMAIN Pes /\ o \in InPes(Pes[PesOf(o[1])])
             /\ Pes[PesOf(o[1])].start <= o[1] /\ o[2] <= Pes[PesOf(o[1])].stop
  <2>1. PICK m \in DOMAIN Pes : o \in InPes(Pes[m])
    BY <1>1
  <2>2. /\ o[1] \in Nat /\ o[2] \in Nat /\ o[1] <= o[2]
        /\ Pes[m].start <= o[1] /\ o[2] <= Pes[m].stop /\ PesOf(o[1]) = m
    BY <1>0, <2>1, OwedInPes
  <2>3. Units(o[1], o[2])[1] = o[1]
    <3>1. o[1] <= o[2] + 1 /\ 1 \in 1 .. (o[2] + 1 - o[1]) /\ o[1] + 1 - 1 = o[1]
      BY <2>2
    <3> QED
      BY <2>2, <3>1, UnitsProperties
  <2> QED
    BY <2>1, <2>2, <2>3
<1>3. DOMAIN sent = 1 .. Len(sent)
  BY LenProperties DEF ParserInv, ParserTypeOK
<1>4. ASSUME NEW o \in Owed, Spared(o), ~Waits(o) PROVE Cardinality({i \in DOMAIN sent : Is(i, o)}) = 1
  <2>1. PICK m \in DOMAIN Pes : m = PesOf(o[1])
    BY <1>2
  <2>2. /\ o[1] \in Nat /\ o[2] \in Nat /\ o[1] <= o[2] /\ o \in InPes(Pes[m])
        /\ Pes[m].start <= o[1] /\ o[2] <= Pes[m].stop
    BY <1>2, <2>1
  <2>3. Intact(m) /\ (kind = "mpeg2" => \E n \in 1 .. m : Intact(n) /\ HeaderIn(n))
    BY <1>4, <2>1 DEF Spared, HeaderIn
  <2>4. /\ Pes[m].start \in Nat /\ Pes[m].stop \in Nat /\ Pes[m].start <= Pes[m].stop /\ m \in Nat
    BY <1>0, Row
  <2>5. next > Pes[m].stop + 1
    <3> SUFFICES ASSUME ~(next > Pes[m].stop + 1) PROVE FALSE
      OBVIOUS
    <3>1. o[2] < next /\ ~\E i \in DOMAIN buffer : buffer[i] = o[2]
      BY <1>0, <1>4, <2>2 DEF Waits
    <3>2. m \in DOMAIN Pes \cap {m, m + 1}
      OBVIOUS
    <3>3. \A u \in Pes[m].start .. Pes[m].stop : u \notin gone
      BY <2>3, <3>2 DEF Intact
    <3>4. Pes[m].start \notin gone /\ Pes[m].start < next
      BY <1>0, <2>2, <2>4, <3>1, <3>3
    <3>5. ~startup
      BY <1>0, <3>4 DEF AssemblesOne, NothingYet
    <3>6. PICK c \in DOMAIN Pes : Current(c) /\ Filling(c)
      BY <1>0, <3>5 DEF AssemblesOne
    <3>7. c \in Nat /\ Pes[c].start \in Nat /\ Pes[c].start < next /\ ~(c < m)
          /\ (m < c => Pes[m].stop < Pes[c].start)
      BY <1>0, <3>4, <3>6, Row DEF Current
    <3>8. c = m
      <4>1. ~(m < c)
        BY <1>0, <2>4, <3>7
      <4> QED
        BY <2>4, <3>7, <4>1
    <3>9. o[2] \in Pes[m].start .. (next - 1) /\ o[2] + 1 - Pes[m].start <= BufferSize
      <4>1. Pes[m].stop + 1 - Pes[m].start <= BufferSize
        BY <1>0 DEF Fits
      <4> QED
        BY <1>0, <2>2, <2>4, <3>1, <4>1, Parameters
    <3>10. \A u \in Pes[m].start .. o[2] : u \notin gone
      BY <2>2, <2>4, <3>3
    <3>11. /\ Len(buffer) >= o[2] + 1 - Pes[m].start
           /\ \A i \in 1 .. (o[2] + 1 - Pes[m].start) : buffer[i] = Pes[m].start + i - 1
      BY <3>6, <3>8, <3>9, <3>10 DEF Filling
    <3>12. DOMAIN buffer = 1 .. Len(buffer) /\ Len(buffer) \in Nat
      BY LenProperties DEF ParserInv, ParserTypeOK
    <3> DEFINE i == o[2] + 1 - Pes[m].start
    <3>13. i \in 1 .. (o[2] + 1 - Pes[m].start) /\ i \in 1 .. Len(buffer)
           /\ Pes[m].start + i - 1 = o[2]
      BY <2>2, <2>4, <3>9, <3>11, <3>12
    <3> QED
      BY <3>1, <3>11, <3>12, <3>13
  <2>6. PICK i \in 1 .. Len(sent) : Is(i, o) /\ \A j \in 1 .. Len(sent) : Is(j, o) => j = i
    BY <1>0, <2>2, <2>3, <2>5 DEF Delivered
  <2>7. {j \in DOMAIN sent : Is(j, o)} = {i}
    BY <1>3, <2>6
  <2> QED
    BY <2>7, FS_Singleton
<1>5. SparedOnce
  BY <1>4 DEF SparedOnce
<1>6. OnlyOwedOrSpoilt
  BY <1>0, <1>3 DEF OnlyOwedOrSpoilt, Genuine, Spoilt
<1>7. InBroadcastOrder
  <2> SUFFICES ASSUME NEW i \in DOMAIN sent, NEW j \in DOMAIN sent, NEW o \in Owed, NEW q \in Owed,
                      Is(i, o), Is(j, q), i < j
               PROVE  o[1] <= q[1] \/ (~Spared(o) /\ ~Spared(q))
    BY DEF InBroadcastOrder
  <2>1. sent[i].data[1] = o[1] /\ sent[j].data[1] = q[1]
    BY <1>2 DEF Is
  <2>2. o[1] < q[1] \/ (~Intact(PesOf(o[1])) /\ ~Intact(PesOf(q[1])))
    BY <1>0, <1>3, <2>1 DEF SentInOrder
  <2> QED
    BY <1>2, <2>2 DEF Spared
<1> QED
  BY <1>5, <1>6, <1>7 DEF WholeAndOnce

(* Parsers of PES packets -- teletext and H264 as they are, subtitles       *)
(* without their frame, MPEG2 video in pictures -- send what losses spare   *)
(* once and as it was broadcast, in its order, and nothing else unless a    *)
(* loss spoils it (demuxer_PES.c, demuxer_MPEGVideo.c,                      *)
(* demuxer_Subtitle.c), however long the broadcast, whatever its TS packets *)
(* and however many of them are lost, if its PES packets fit the buffer.    *)
THEOREM PacketsWholeAndOnce == ParserSpec => [](kind \notin Framed /\ Fits => WholeAndOnce)
<1>1. ParserInit => ParserInv /\ PesInv
  BY InitParserInv, InitPesInv
<1>2. ParserInv /\ PesInv /\ [ParserNext]_parserVars => ParserInv' /\ PesInv'
  BY ParserStep, PesStep
<1>3. ParserInv /\ PesInv => (kind \notin Framed /\ Fits => WholeAndOnce)
  BY PesWholeAndOnce
<1> QED
  BY <1>1, <1>2, <1>3, PTL DEF ParserSpec

(***************************************************************************)
(* Parsers of frames, as long as nothing is lost: what is in the buffer is *)
(* the row of units from the start of a frame on, and all frames before it *)
(* were sent.                                                              *)
(***************************************************************************)
\* A broadcast of frames, one behind the other.
Tiled ==
  /\ Len(Marks) > 0 => Marks[1].is = "frame"
  /\ \A u \in DOMAIN Marks : Marks[u].is = "frame" =>
       /\ u + Marks[u].size <= Len(Marks) => Marks[u + Marks[u].size].is = "frame"
       /\ \A v \in DOMAIN Marks : u < v /\ v < u + Marks[u].size => Marks[v].is # "frame"

SentBefore(a) ==
  /\ \A o \in Frames : o[1] < a =>
       /\ o[2] < a
       /\ \E i \in 1 .. Len(sent) : Is(i, o) /\ \A j \in 1 .. Len(sent) : Is(j, o) => j = i
  /\ \A i \in 1 .. Len(sent) : \E o \in Frames : Is(i, o) /\ o[2] < a
  /\ \A i, j \in 1 .. Len(sent) : i < j => sent[i].data[1] < sent[j].data[1]

AlignedAt(a) ==
  /\ buffer = Units(a, next - 1)
  /\ a <= Len(Marks) => Marks[a].is = "frame"
  /\ SentBefore(a)

FramesInv ==
  kind \in Framed /\ Tiled /\ gone = {} =>
    (startup => next = 1) /\ \E a \in 1 .. next : AlignedAt(a)

LEMMA UnitsConcat ==
  ASSUME NEW a \in Nat, NEW n \in Nat, NEW m \in Nat, a <= n, n <= m + 1
  PROVE  Units(a, n - 1) \o Units(n, m) = Units(a, m)
<1>1. /\ Len(Units(a, n - 1)) = n - a /\ Len(Units(n, m)) = m + 1 - n /\ Len(Units(a, m)) = m + 1 - a
      /\ Units(a, n - 1) \in Seq(Nat) /\ Units(n, m) \in Seq(Nat) /\ Units(a, m) \in Seq(Nat)
      /\ \A i \in 1 .. (n - a) : Units(a, n - 1)[i] = a + i - 1
      /\ \A i \in 1 .. (m + 1 - n) : Units(n, m)[i] = n + i - 1
      /\ \A i \in 1 .. (m + 1 - a) : Units(a, m)[i] = a + i - 1
  BY DEF Units
<1> DEFINE s == Units(a, n - 1)
           t == Units(n, m)
           w == Units(a, m)
<1> HIDE DEF s, t, w
<1>2. /\ s \o t \in Seq(Nat) /\ Len(s \o t) = Len(s) + Len(t)
      /\ \A i \in 1 .. Len(s) + Len(t) : (s \o t)[i] = IF i <= Len(s) THEN s[i] ELSE t[i - Len(s)]
  BY <1>1, ConcatProperties DEF s, t
<1>3. /\ Len(s) = n - a /\ Len(t) = m + 1 - n /\ Len(w) = m + 1 - a /\ w \in Seq(Nat)
      /\ \A i \in 1 .. (n - a) : s[i] = a + i - 1
      /\ \A i \in 1 .. (m + 1 - n) : t[i] = n + i - 1
      /\ \A i \in 1 .. (m + 1 - a) : w[i] = a + i - 1
  BY <1>1 DEF s, t, w
<1>4. Len(s \o t) = Len(w)
  BY <1>2, <1>3
<1>5. ASSUME NEW i \in 1 .. Len(w) PROVE (s \o t)[i] = w[i]
  <2>1. i \in 1 .. Len(s) + Len(t) /\ i \in Nat
    BY <1>3
  <2>2. CASE i <= Len(s)
    <3>1. i \in 1 .. (n - a) /\ i \in 1 .. (m + 1 - a)
      BY <1>3, <2>2
    <3> QED
      BY <1>2, <1>3, <2>1, <2>2, <3>1
  <2>3. CASE ~(i <= Len(s))
    <3>1. /\ i - Len(s) \in 1 .. (m + 1 - n) /\ i \in 1 .. (m + 1 - a)
          /\ n + (i - Len(s)) - 1 = a + i - 1
      BY <1>3, <2>3
    <3> QED
      BY <1>2, <1>3, <2>1, <2>3, <3>1
  <2> QED
    BY <2>2, <2>3
<1>6. s \o t = w
  BY <1>2, <1>3, <1>4, <1>5, SeqEqual
<1> QED
  BY <1>6 DEF s, t, w

LEMMA UnitsFrom ==
  ASSUME NEW a \in Nat, NEW b \in Nat, a <= b + 1, NEW n \in 0 .. (b + 1 - a)
  PROVE  Cut(Units(a, b), n) = Units(a + n, b)
<1>1. /\ Units(a, b) \in Seq(Nat) /\ Len(Units(a, b)) = b + 1 - a
      /\ \A i \in 1 .. (b + 1 - a) : Units(a, b)[i] = a + i - 1
  BY DEF Units
<1>2. /\ Units(a + n, b) \in Seq(Nat) /\ Len(Units(a + n, b)) = b + 1 - (a + n)
      /\ \A i \in 1 .. (b + 1 - (a + n)) : Units(a + n, b)[i] = (a + n) + i - 1
  BY DEF Units
<1> DEFINE s == Units(a, b)
           t == Units(a + n, b)
           L == b + 1 - a
<1>3. Cut(s, n) = SubSeq(s, n + 1, L)
  BY <1>1 DEF Cut
<1> HIDE DEF s, t, L
<1>4. L \in Nat /\ n \in 0 .. L /\ L = b + 1 - a /\ Len(s) = L /\ s \in Seq(Nat)
      /\ \A i \in 1 .. L : s[i] = a + i - 1
  BY <1>1 DEF s, L
<1>5. n + 1 \in 1 .. Len(s) + 1 /\ L \in 0 .. Len(s)
  BY <1>4
<1>6. /\ SubSeq(s, n + 1, L) \in Seq(Nat)
      /\ Len(SubSeq(s, n + 1, L)) = IF n + 1 <= L THEN L + 1 - (n + 1) ELSE 0
      /\ \A i \in 1 .. (L + 1 - (n + 1)) : SubSeq(s, n + 1, L)[i] = s[n + 1 + i - 1]
  BY <1>4, <1>5, PartIn
<1>7. Len(SubSeq(s, n + 1, L)) = L - n
  BY <1>4, <1>6
<1>8. /\ t \in Seq(Nat) /\ Len(t) = L - n
      /\ \A i \in 1 .. (L - n) : t[i] = a + n + i - 1
  BY <1>2, <1>4 DEF t
<1>9. ASSUME NEW i \in 1 .. (L - n) PROVE SubSeq(s, n + 1, L)[i] = t[i]
  <2>1. i \in 1 .. (L + 1 - (n + 1)) /\ n + 1 + i - 1 \in 1 .. L
    BY <1>4
  <2>2. SubSeq(s, n + 1, L)[i] = a + (n + 1 + i - 1) - 1
    BY <1>4, <1>6, <2>1
  <2>3. a + (n + 1 + i - 1) - 1 = a + n + i - 1
    BY <1>4
  <2> QED
    BY <1>8, <2>2, <2>3
<1>10. SubSeq(s, n + 1, L) = t
  BY <1>6, <1>7, <1>8, <1>9, SeqEqual
<1> QED
  BY <1>3, <1>10 DEF s, t

LEMMA FramesAre ==
  ASSUME kind \in DOMAIN Broadcasts
  PROVE  /\ \A o \in Frames :
              /\ o[1] \in 1 .. Len(Marks) /\ o[1] \in Nat /\ o[2] \in Nat /\ o[1] <= o[2]
              /\ Marks[o[1]].is = "frame" /\ o[2] = o[1] + Marks[o[1]].size - 1
              /\ Units(o[1], o[2])[1] = o[1]
         /\ \A u \in 1 .. Len(Marks) : Marks[u].is = "frame" =>
              <<u, u + Marks[u].size - 1>> \in Frames
<1>1. DOMAIN Marks = 1 .. Len(Marks) /\ Len(Marks) \in Nat
  BY Row
<1>2. ASSUME NEW o \in Frames
      PROVE  /\ o[1] \in 1 .. Len(Marks) /\ o[1] \in Nat /\ o[2] \in Nat /\ o[1] <= o[2]
             /\ Marks[o[1]].is = "frame" /\ o[2] = o[1] + Marks[o[1]].size - 1
             /\ Units(o[1], o[2])[1] = o[1]
  <2>1. PICK u \in 1 .. Len(Marks) : Marks[u].is = "frame" /\ o = <<u, u + Marks[u].size - 1>>
    BY <1>1 DEF Frames
  <2>2. Marks[u].size \in Nat /\ Marks[u].size > 0
    <3>1. Marks[u].size \in Nat /\ Marks[u].size > HeaderSize
      BY <2>1, Row
    <3> QED
      BY <3>1, Parameters
  <2>3. o[1] = u /\ o[2] = u + Marks[u].size - 1
    BY <2>1
  <2>4. o[1] \in Nat /\ o[2] \in Nat /\ o[1] <= o[2]
    BY <1>1, <2>2, <2>3
  <2>5. Units(o[1], o[2])[1] = o[1]
    <3>1. o[1] <= o[2] + 1 /\ 1 \in 1 .. (o[2] + 1 - o[1]) /\ o[1] + 1 - 1 = o[1]
      BY <2>4
    <3> QED
      BY <2>4, <3>1, UnitsProperties
  <2> QED
    BY <2>1, <2>3, <2>4, <2>5
<1>3. \A u \in 1 .. Len(Marks) : Marks[u].is = "frame" => <<u, u + Marks[u].size - 1>> \in Frames
  BY <1>1 DEF Frames
<1> QED
  BY <1>2, <1>3

FramesContext ==
  /\ kind \in DOMAIN Broadcasts /\ next \in 1 .. Len(Marks) /\ next \in Nat /\ Len(Marks) \in Nat
  /\ kind' = kind /\ LastOfPacket \in Nat /\ next <= LastOfPacket /\ next' = LastOfPacket + 1
  /\ Data = Units(next, LastOfPacket) /\ Len(Data) = LastOfPacket + 1 - next
  /\ Len(Data) <= Payload

LEMMA FramesArriving ==
  ASSUME ParserInv, kind \in Framed, Arrive
  PROVE  FramesContext /\ ParseFrames
<1>1. /\ kind \in DOMAIN Broadcasts /\ next \in 1 .. Len(Marks) /\ next \in Nat /\ Len(Marks) \in Nat
  <2>1. kind \in DOMAIN Broadcasts /\ next \in 1 .. (Len(Marks) + 1)
    BY DEF ParserInv, ParserTypeOK
  <2>2. Len(Marks) \in Nat
    BY <2>1, Row
  <2> QED
    BY <2>1, <2>2 DEF Arrive
<1>2. /\ LastOfPacket \in Nat /\ next <= LastOfPacket
      /\ Len(Data) = LastOfPacket + 1 - next
  <2>1. LastOfPacket \in next .. Len(Marks) /\ Len(Data) = LastOfPacket + 1 - next
    BY <1>1, NextPacket
  <2> QED
    BY <1>1, <2>1
<1>3. Len(Data) <= Payload
  <2>1. LastOfPacket <= next + Payload - 1
    <3>1. Pes[PesOf(next)].stop \in Nat
      BY <1>1, NextPacket, Row
    <3> QED
      BY <1>1, <3>1, Parameters DEF LastOfPacket, Least
  <2> QED
    BY <1>1, <1>2, <2>1, Parameters
<1> QED
  BY <1>1, <1>2, <1>3 DEF Arrive, FramesContext, Data

(* The first TS packet that arrives starts a PES packet.                   *)
LEMMA FirstStarts ==
  ASSUME kind \in DOMAIN Broadcasts, Len(Marks) \in Nat \ {0}, next = 1
  PROVE  Pusi
<1>1. next \in 1 .. Len(Marks)
  OBVIOUS
<1>2. PesOf(next) \in DOMAIN Pes /\ Pes[PesOf(next)].start <= next
  BY <1>1, NextPacket
<1>3. Pes[PesOf(next)].start \in Nat \ {0}
  BY <1>2, Row
<1> QED
  BY <1>2, <1>3 DEF Pusi

LEMMA PutAll ==
  ASSUME FramesContext, startup \in BOOLEAN, startup => next = 1,
         NEW rest, NEW pts, PutData(rest, pts), gone' = {}
  PROVE  ~startup' /\ buffer' = rest \o Data /\ gone = {}
<1>1. ~startup'
  <2>1. startup => Pusi
    <3>1. Len(Marks) \in Nat \ {0}
      BY DEF FramesContext
    <3> QED
      BY <3>1, FirstStarts DEF FramesContext
  <2> QED
    BY <2>1 DEF PutData
<1>2. ~Overflow(rest)
  <2>1. 1 \in DOMAIN Data
    <3>1. Units(next, LastOfPacket) = [i \in 1 .. (LastOfPacket + 1 - next) |-> next + i - 1]
      BY DEF Units
    <3>2. 1 \in 1 .. (LastOfPacket + 1 - next)
      BY DEF FramesContext
    <3> QED
      BY <3>1, <3>2 DEF FramesContext
  <2>2. Elements(Data) # {}
    BY <2>1 DEF Elements
  <2> QED
    BY <1>1, <2>2 DEF PutData
<1>3. buffer' = Filled(rest) /\ gone' = gone
  BY <1>1, <1>2 DEF PutData
<1> QED
  BY <1>1, <1>2, <1>3 DEF Filled

(* What a parser of frames does with a buffer that starts with a frame.    *)
LEMMA FrameTaken ==
  ASSUME ParserInv, FramesContext, ParseFrames, NEW a \in 1 .. next, AlignedAt(a)
  PROVE  \/ /\ a <= Len(Marks) /\ Marks[a].size \in Nat \ {0} /\ a + Marks[a].size <= next
            /\ sent' = Append(sent, [data |-> Units(a, a + Marks[a].size - 1), pts |-> curPTS])
            /\ PutData(Units(a + Marks[a].size, next - 1), PtsAdd(curPTS, Duration))
         \/ /\ UNCHANGED sent /\ PutData(buffer, curPTS)
            /\ \/ Len(buffer) = 0 \/ Len(buffer) < Margin
               \/ a < next /\ Marks[a].size > Len(buffer)
<1>1. /\ a \in Nat /\ next \in Nat /\ next <= Len(Marks) /\ Len(Marks) \in Nat
      /\ buffer = Units(a, next - 1) /\ (a <= Len(Marks) => Marks[a].is = "frame")
  BY DEF AlignedAt, FramesContext
<1>2. /\ Len(buffer) = next - a /\ \A i \in 1 .. (next - a) : buffer[i] = a + i - 1
  <2> DEFINE t == next - 1
  <2>1. t \in Nat /\ a <= t + 1 /\ t + 1 - a = next - a
    BY <1>1
  <2>2. buffer = Units(a, t)
    BY <1>1
  <2> HIDE DEF t
  <2>3. /\ Len(Units(a, t)) = t + 1 - a
        /\ \A i \in 1 .. (t + 1 - a) : Units(a, t)[i] = a + i - 1
    BY <1>1, <2>1, UnitsProperties
  <2> QED
    BY <2>1, <2>2, <2>3
<1>3. a < next => buffer[1] = a /\ Marks[a].is = "frame" /\ Marks[a].size \in Nat /\ Marks[a].size > HeaderSize
  <2> SUFFICES ASSUME a < next
               PROVE  buffer[1] = a /\ Marks[a].is = "frame" /\ Marks[a].size \in Nat /\ Marks[a].size > HeaderSize
    OBVIOUS
  <2>1. 1 \in 1 .. (next - a) /\ a + 1 - 1 = a /\ a \in 1 .. Len(Marks)
    BY <1>1
  <2>2. Marks[a].size \in Nat /\ Marks[a].size > HeaderSize
    BY <1>1, <2>1, Row DEF FramesContext
  <2> QED
    BY <1>1, <1>2, <2>1, <2>2
<1>4. CASE Complete /\ SendFrame /\ PutData(Taken(FrameSize(0)), PtsAdd(curPTS, Duration))
  <2>1. /\ buffer # <<>> /\ FrameSize(0) \in 1 .. Len(buffer) /\ FrameSize(0) = Marks[buffer[1]].size
    BY <1>4, CompleteFrame
  <2>2. a < next
    BY <1>1, <1>2, <2>1
  <2> DEFINE z == Marks[a].size
  <2>3. FrameSize(0) = z /\ z \in 1 .. (next - a) /\ z \in Nat \ {0}
    BY <1>1, <1>2, <1>3, <2>1, <2>2, Parameters
  <2> HIDE DEF z
  <2>4. a + z <= next /\ a <= Len(Marks)
    BY <1>1, <2>2, <2>3
  <2>5. SubSeq(buffer, 1, z) = Units(a, a + z - 1)
    <3> DEFINE t == next - 1
    <3>1. t \in Nat /\ a <= t /\ z \in 1 .. (t + 1 - a) /\ 1 \in 1 .. (t + 1 - a) /\ 1 <= z
      BY <1>1, <2>2, <2>3
    <3>2. SubSeq(Units(a, t), 1, z) = Units(a + 1 - 1, a + z - 1)
      <4> HIDE DEF t
      <4> QED
        BY <1>1, <3>1, UnitsPart
    <3>3. a + 1 - 1 = a
      BY <1>1
    <3> QED
      BY <1>1, <3>2, <3>3
  <2>6. Taken(z) = Units(a + z, next - 1)
    <3>1. next - 1 \in Nat /\ a <= next - 1 + 1 /\ z \in 0 .. (next - 1 + 1 - a)
      BY <1>1, <2>3
    <3> QED
      BY <1>1, <3>1, UnitsFrom DEF Taken
  <2> QED
    BY <1>4, <2>3, <2>4, <2>5, <2>6 DEF SendFrame, z
<1>5. CASE InSync /\ ~Complete /\ PutData(buffer, curPTS) /\ UNCHANGED sent
  <2>1. Len(Got) > HeaderSize /\ Len(Got) < FrameSize(0)
    <3>1. Len(Got) > HeaderSize /\ ~(FrameSize(0) > 0 /\ Len(Got) >= FrameSize(0))
      BY <1>5 DEF InSync, Complete
    <3>2. Len(Got) \in Nat
      BY <1>1, <1>2, OffsetWithinBuffer
    <3>3. Got = buffer
      BY <1>1, <1>2, <3>1, OffsetWithinBuffer, Parameters
    <3>4. a < next
      BY <1>1, <1>2, <3>1, <3>3, Parameters
    <3>5. FrameSize(0) \in Nat /\ FrameSize(0) > HeaderSize
      BY <1>3, <3>3, <3>4 DEF FrameSize
    <3> QED
      BY <3>1, <3>2, <3>5, Parameters
  <2>2. Got = buffer
    BY <1>1, <1>2, <2>1, OffsetWithinBuffer, Parameters
  <2>3. a < next
    BY <1>1, <1>2, <2>1, <2>2, Parameters
  <2>4. FrameSize(0) = Marks[a].size
    BY <1>3, <2>2, <2>3 DEF FrameSize
  <2>5. Marks[a].size > Len(buffer)
    BY <1>1, <1>2, <1>3, <2>1, <2>2, <2>3, <2>4
  <2> QED
    BY <1>5, <2>3, <2>5
<1>6. CASE ~InSync /\ PutData(Cut(buffer, FindAlignmentOffset), curPTS) /\ UNCHANGED sent
  <2>1. ~(Len(Got) > HeaderSize)
    <3> SUFFICES ASSUME Len(Got) > HeaderSize PROVE FALSE
      OBVIOUS
    <3>1. Got = buffer
      BY <1>1, <1>2, OffsetWithinBuffer, Parameters
    <3>2. a < next
      BY <1>1, <1>2, <3>1, Parameters
    <3>3. Aligned(0)
      BY <1>3, <3>1, <3>2 DEF Aligned
    <3> QED
      BY <1>6, <3>3 DEF InSync
  <2>2. FindAlignmentOffset = 0
    <3>1. Len(Got) \in Nat
      BY <1>1, <1>2, OffsetWithinBuffer
    <3>2. Places = {}
      <4>1. \A o \in 0 .. (Len(Got) - 1) : ~(o + HeaderSize < Len(Got))
        BY <2>1, <3>1, Parameters
      <4> QED
        BY <4>1 DEF Places
    <3> QED
      BY <3>2 DEF FindAlignmentOffset
  <2>3. Cut(buffer, 0) = buffer
    <3>1. next - 1 \in Nat /\ a <= next - 1 + 1 /\ 0 \in 0 .. (next - 1 + 1 - a) /\ a + 0 = a
      BY <1>1
    <3> QED
      BY <1>1, <3>1, UnitsFrom
  <2>4. Len(buffer) = 0 \/ Len(buffer) < Margin \/ (a < next /\ Marks[a].size > Len(buffer))
    <3>1. CASE Got = buffer
      <4>1. CASE a < next
        <5>1. Len(buffer) <= HeaderSize
          BY <1>1, <1>2, <2>1, <3>1, Parameters
        <5> QED
          BY <1>1, <1>2, <1>3, <4>1, <5>1, Parameters
      <4>2. CASE ~(a < next)
        BY <1>1, <1>2, <4>2
      <4> QED
        BY <4>1, <4>2
    <3>2. CASE Got # buffer
      <4>1. ~(Len(buffer) >= Margin)
        BY <3>2 DEF Got
      <4> QED
        BY <1>1, <1>2, <4>1, Parameters
    <3> QED
      BY <3>1, <3>2
  <2> QED
    BY <1>6, <2>2, <2>3, <2>4
<1> QED
  BY <1>4, <1>5, <1>6 DEF ParseFrames

(* The frame at a is sent behind all frames before it.                     *)
LEMMA FrameSent ==
  ASSUME ParserInv, Tiled, NEW a \in Nat \ {0}, a <= Len(Marks), Marks[a].is = "frame", SentBefore(a),
         kind' = kind, Marks[a].size \in Nat \ {0},
         NEW pts, sent' = Append(sent, [data |-> Units(a, a + Marks[a].size - 1), pts |-> pts])
  PROVE  SentBefore(a + Marks[a].size)'
<1> DEFINE b == a + Marks[a].size
           L == Len(sent)
           f == <<a, b - 1>>
           new == [data |-> Units(a, b - 1), pts |-> pts]
<1>0. Frames' = Frames /\ Marks' = Marks /\ kind \in DOMAIN Broadcasts
  BY DEF Frames, Marks, ParserInv, ParserTypeOK
<1>1. /\ L \in Nat /\ Len(sent') = L + 1 /\ sent'[L + 1] = new
      /\ \A i \in 1 .. L : sent'[i] = sent[i] /\ i # L + 1
  <2>1. sent \in Seq([data : Seq(1 .. (next - 1)) \ {<<>>}, pts : Stamps])
    BY DEF ParserInv, ParserTypeOK
  <2>2. L \in Nat /\ sent' = Append(sent, new)
    BY <2>1, LenProperties
  <2> HIDE DEF new
  <2>3. Len(sent') = L + 1 /\ sent'[L + 1] = new /\ \A i \in 1 .. L : sent'[i] = sent[i]
    BY <2>1, <2>2, AppendProperties
  <2> QED
    BY <2>2, <2>3
<1>2. /\ \A o \in Frames :
              /\ o[1] \in 1 .. Len(Marks) /\ o[1] \in Nat /\ o[2] \in Nat /\ o[1] <= o[2]
              /\ Marks[o[1]].is = "frame" /\ o[2] = o[1] + Marks[o[1]].size - 1
              /\ Units(o[1], o[2])[1] = o[1]
      /\ f \in Frames
  <2>1. a \in 1 .. Len(Marks)
    BY <1>0, Row
  <2> QED
    BY <1>0, <2>1, FramesAre
<1>3. f[1] = a /\ f[2] = b - 1 /\ new.data = Units(a, b - 1) /\ new.data[1] = a /\ b \in Nat /\ a < b
  <2>1. f[1] = a /\ f[2] = b - 1 /\ new.data = Units(a, b - 1)
    OBVIOUS
  <2>2. Units(f[1], f[2])[1] = f[1]
    BY <1>2
  <2> QED
    BY <2>1, <2>2
<1> HIDE DEF f, new, b, L
<1>4. ASSUME NEW i \in 1 .. L, NEW o \in Frames, sent[i].data = Units(o[1], o[2]) PROVE o[1] < a
  <2>1. PICK q \in Frames : Is(i, q) /\ q[2] < a
    BY DEF SentBefore, L
  <2>2. Units(q[1], q[2])[1] = Units(o[1], o[2])[1]
    BY <1>4, <2>1 DEF Is
  <2>3. q[1] = o[1] /\ q[1] <= q[2] /\ q[1] \in Nat /\ q[2] \in Nat
    BY <1>2, <2>2
  <2> QED
    BY <2>1, <2>3
<1>5. ASSUME NEW o \in Frames, o[1] < b
      PROVE  /\ o[2] < b
             /\ \E i \in 1 .. Len(sent') :
                  /\ sent'[i].data = Units(o[1], o[2])
                  /\ \A j \in 1 .. Len(sent') : sent'[j].data = Units(o[1], o[2]) => j = i
  <2>1. CASE o[1] < a
    <3>1. PICK i \in 1 .. L : o[2] < a /\ Is(i, o) /\ \A j \in 1 .. L : Is(j, o) => j = i
      BY <2>1 DEF SentBefore, L
    <3>2. new.data # Units(o[1], o[2])
      BY <1>2, <1>3, <2>1
    <3>3. ASSUME NEW j \in 1 .. Len(sent'), sent'[j].data = Units(o[1], o[2]) PROVE j = i
      <4>1. j \in 1 .. L
        BY <1>1, <3>2, <3>3
      <4> QED
        BY <1>1, <3>1, <3>3, <4>1 DEF Is
    <3>4. i \in 1 .. Len(sent') /\ sent'[i].data = Units(o[1], o[2])
      BY <1>1, <3>1 DEF Is
    <3>5. o[2] < b
      BY <1>2, <1>3, <3>1
    <3> QED
      BY <3>3, <3>4, <3>5
  <2>2. CASE o[1] = a
    <3>1. o[2] = b - 1
      BY <1>2, <2>2 DEF b
    <3>2. o[2] < b
      BY <1>3, <3>1
    <3>3. L + 1 \in 1 .. Len(sent') /\ sent'[L + 1].data = Units(o[1], o[2])
      BY <1>1, <1>3, <2>2, <3>1
    <3>4. ASSUME NEW j \in 1 .. Len(sent'), sent'[j].data = Units(o[1], o[2]) PROVE j = L + 1
      <4> SUFFICES ASSUME j # L + 1 PROVE FALSE
        OBVIOUS
      <4>1. j \in 1 .. L
        BY <1>1
      <4>2. sent[j].data = Units(o[1], o[2])
        BY <1>1, <3>4, <4>1
      <4>3. o[1] < a
        BY <1>4, <4>1, <4>2
      <4> QED
        BY <2>2, <4>3
    <3> QED
      BY <3>2, <3>3, <3>4
  <2>3. CASE ~(o[1] < a) /\ o[1] # a
    <3>1. a < o[1] /\ o[1] < a + Marks[a].size /\ o[1] \in DOMAIN Marks /\ a \in DOMAIN Marks
      BY <1>0, <1>2, <1>5, <2>3, Row DEF b
    <3>2. Marks[o[1]].is # "frame"
      BY <3>1 DEF Tiled
    <3> QED
      BY <1>2, <3>2
  <2> QED
    BY <2>1, <2>2, <2>3
<1>6. ASSUME NEW i \in 1 .. Len(sent') PROVE \E o \in Frames : sent'[i].data = Units(o[1], o[2]) /\ o[2] < b
  <2>1. CASE i \in 1 .. L
    <3>1. PICK o \in Frames : Is(i, o) /\ o[2] < a
      BY <2>1 DEF SentBefore, L
    <3>2. o[2] < b /\ sent'[i].data = Units(o[1], o[2])
      BY <1>1, <1>2, <1>3, <2>1, <3>1 DEF Is
    <3> QED
      BY <3>2
  <2>2. CASE i = L + 1
    BY <1>1, <1>2, <1>3, <2>2
  <2> QED
    BY <1>1, <2>1, <2>2
<1>7. ASSUME NEW i \in 1 .. Len(sent'), NEW j \in 1 .. Len(sent'), i < j
      PROVE  sent'[i].data[1] < sent'[j].data[1]
  <2>1. i \in 1 .. L
    BY <1>1, <1>7
  <2>2. CASE j \in 1 .. L
    BY <1>1, <1>7, <2>1, <2>2 DEF SentBefore, L
  <2>3. CASE j = L + 1
    <3>1. PICK o \in Frames : Is(i, o) /\ o[2] < a
      BY <2>1 DEF SentBefore, L
    <3>2. sent[i].data = Units(o[1], o[2])
      BY <3>1 DEF Is
    <3>3. o[1] < a
      BY <1>4, <2>1, <3>2
    <3> QED
      BY <1>1, <1>2, <1>3, <2>1, <2>3, <3>2, <3>3
  <2> QED
    BY <1>1, <2>2, <2>3
<1> QED
  BY <1>0, <1>5, <1>6, <1>7 DEF SentBefore, Is, b

LEMMA FramesArrive ==
  ASSUME ParserInv, FramesInv, kind \in Framed, Tiled, Arrive, gone' = {}
  PROVE  ~startup' /\ \E b \in 1 .. next' : AlignedAt(b)'
<1>1. FramesContext /\ ParseFrames
  BY FramesArriving
<1>2. startup \in BOOLEAN /\ Frames' = Frames /\ Marks' = Marks
  BY <1>1 DEF ParserInv, ParserTypeOK, FramesContext, Frames, Marks
<1>3. gone = {}
  <2>1. gone \subseteq gone'
    BY <1>1 DEF ParseFrames, PutData
  <2> QED
    BY <2>1
<1>4. startup => next = 1
  BY <1>3 DEF FramesInv
<1>5. PICK a \in 1 .. next : AlignedAt(a)
  BY <1>3 DEF FramesInv
<1>6. /\ next \in Nat /\ LastOfPacket \in Nat /\ next <= LastOfPacket /\ next' = LastOfPacket + 1
      /\ Data = Units(next, LastOfPacket) /\ Len(Marks) \in Nat /\ next <= Len(Marks) /\ a \in Nat \ {0}
      /\ kind' = kind
  BY <1>1 DEF FramesContext
<1>7. ASSUME NEW b \in Nat, b <= next, buffer' = Units(b, next - 1) \o Data
      PROVE  buffer' = Units(b, next' - 1)
  <2>1. Units(b, next - 1) \o Units(next, LastOfPacket) = Units(b, LastOfPacket)
    <3>1. next <= LastOfPacket + 1
      BY <1>6
    <3> QED
      BY <1>6, <1>7, <3>1, UnitsConcat
  <2>2. next' - 1 = LastOfPacket
    BY <1>6
  <2> QED
    BY <1>6, <1>7, <2>1, <2>2
<1>8. CASE /\ a <= Len(Marks) /\ Marks[a].size \in Nat \ {0} /\ a + Marks[a].size <= next
           /\ sent' = Append(sent, [data |-> Units(a, a + Marks[a].size - 1), pts |-> curPTS])
           /\ PutData(Units(a + Marks[a].size, next - 1), PtsAdd(curPTS, Duration))
  <2>1. PICK b \in Nat : b = a + Marks[a].size
    BY <1>6, <1>8
  <2>2. b <= next /\ b \in 1 .. next'
    BY <1>6, <1>8, <2>1
  <2>3. ~startup' /\ buffer' = Units(b, next - 1) \o Data
    BY <1>1, <1>2, <1>4, <1>8, <2>1, PutAll
  <2>4. buffer' = Units(b, next' - 1)
    BY <1>7, <2>2, <2>3
  <2>5. b <= Len(Marks) => Marks[b].is = "frame"
    <3>1. a \in DOMAIN Marks /\ Marks[a].is = "frame"
      <4>1. a \in 1 .. Len(Marks)
        BY <1>6, <1>8
      <4> QED
        BY <1>1, <1>5, <1>8, <4>1, Row DEF AlignedAt, FramesContext
    <3> QED
      BY <2>1, <3>1 DEF Tiled
  <2>6. SentBefore(b)'
    <3>1. SentBefore(a) /\ Marks[a].is = "frame"
      BY <1>5, <1>8 DEF AlignedAt
    <3>2. SentBefore(a + Marks[a].size)'
      BY <1>6, <1>8, <3>1, FrameSent
    <3>3. a + Marks'[a].size = b
      BY <1>2, <2>1
    <3> QED
      BY <3>2, <3>3 DEF SentBefore
  <2>7. AlignedAt(b)'
    BY <1>2, <2>4, <2>5, <2>6 DEF AlignedAt
  <2> QED
    BY <2>2, <2>3, <2>7
<1>9. CASE UNCHANGED sent /\ PutData(buffer, curPTS)
  <2>1. ~startup' /\ buffer' = buffer \o Data
    BY <1>1, <1>2, <1>4, <1>9, PutAll
  <2>2. buffer' = Units(a, next' - 1)
    <3>1. a \in Nat /\ a <= next /\ buffer = Units(a, next - 1)
      BY <1>5, <1>6 DEF AlignedAt
    <3> QED
      BY <1>7, <2>1, <3>1
  <2>3. AlignedAt(a)'
    BY <1>2, <1>5, <1>9, <2>2 DEF AlignedAt, SentBefore, Is
  <2>4. a \in 1 .. next'
    BY <1>6
  <2> QED
    BY <2>1, <2>3, <2>4
<1> QED
  BY <1>1, <1>5, <1>8, <1>9, FrameTaken

LEMMA FramesStep == ParserInv /\ FramesInv /\ [ParserNext]_parserVars => FramesInv'
<1> SUFFICES ASSUME ParserInv, FramesInv, [ParserNext]_parserVars, (kind \in Framed /\ Tiled /\ gone = {})'
             PROVE  ((startup => next = 1) /\ \E a \in 1 .. next : AlignedAt(a))'
  BY DEF FramesInv
<1>1. kind' = kind
  BY DEF ParserNext, Arrive, LosePacket, parserVars
<1>2. kind \in Framed /\ Tiled /\ gone' = {} /\ Marks' = Marks /\ Frames' = Frames
  BY <1>1 DEF Tiled, Frames, Marks
<1>3. CASE UNCHANGED parserVars
  <2>1. UNCHANGED <<kind, next, buffer, startup, sent, gone>>
    BY <1>3 DEF parserVars
  <2>2. (startup => next = 1) /\ \E a \in 1 .. next : AlignedAt(a)
    BY <1>2, <2>1 DEF FramesInv
  <2> QED
    BY <1>2, <2>1, <2>2 DEF AlignedAt, SentBefore, Is
<1>4. CASE Arrive
  BY <1>2, <1>4, FramesArrive
<1>5. CASE LosePacket
  <2>1. next \in 1 .. Len(Marks) /\ kind \in DOMAIN Broadcasts
    <3>1. next \in 1 .. (Len(Marks) + 1) /\ kind \in DOMAIN Broadcasts
      BY DEF ParserInv, ParserTypeOK
    <3>2. Len(Marks) \in Nat
      BY <3>1, Row
    <3> QED
      BY <1>5, <3>1, <3>2 DEF LosePacket
  <2>2. LastOfPacket \in next .. Len(Marks) /\ next \in next .. LastOfPacket
    BY <2>1, NextPacket
  <2> QED
    BY <1>2, <1>5, <2>2 DEF LosePacket
<1> QED
  BY <1>3, <1>4, <1>5 DEF ParserNext

LEMMA InitFramesInv == ParserInit => FramesInv
<1> SUFFICES ASSUME ParserInit, kind \in Framed, Tiled PROVE \E a \in 1 .. next : AlignedAt(a)
  BY DEF FramesInv, ParserInit
<1>1. next = 1 /\ buffer = <<>> /\ sent = <<>> /\ kind \in DOMAIN Broadcasts
  BY DEF ParserInit
<1>2. \A o \in Frames : ~(o[1] < 1)
  <2>1. \A o \in Frames : o[1] \in 1 .. Len(Marks)
    BY <1>1, FramesAre
  <2> QED
    BY <2>1
<1>3. SentBefore(1)
  BY <1>1, <1>2 DEF SentBefore
<1>4. Units(1, next - 1) = <<>>
  <2>1. Units(1, 0) \in Seq(Nat) /\ Len(Units(1, 0)) = 0
    BY DEF Units
  <2>2. Units(1, 0) = <<>>
    BY <2>1, EmptySeq
  <2> QED
    BY <1>1, <2>2
<1>5. 1 <= Len(Marks) => Marks[1].is = "frame"
  <2>1. Len(Marks) \in Nat
    BY <1>1, Row
  <2> QED
    BY <2>1 DEF Tiled
<1> QED
  BY <1>1, <1>3, <1>4, <1>5 DEF AlignedAt

LEMMA FramesWhole ==
  ASSUME ParserInv, FramesInv, kind \in Framed, Tiled, gone = {}
  PROVE  WholeAndOnce
<1>1. PICK a \in 1 .. next : AlignedAt(a)
  BY DEF FramesInv
<1>2. /\ next \in Nat /\ a \in Nat \ {0} /\ a <= next /\ kind \in DOMAIN Broadcasts
      /\ buffer = Units(a, next - 1) /\ SentBefore(a) /\ Owed = Frames /\ DOMAIN sent = 1 .. Len(sent)
  <2>1. kind \in DOMAIN Broadcasts /\ next \in Nat
    BY Row DEF ParserInv, ParserTypeOK
  <2>2. DOMAIN sent = 1 .. Len(sent)
    BY LenProperties DEF ParserInv, ParserTypeOK
  <2> QED
    BY <1>1, <2>1, <2>2 DEF AlignedAt, Owed
<1>3. \A o \in Frames : /\ o[1] \in Nat /\ o[2] \in Nat /\ o[1] <= o[2]
                        /\ Units(o[1], o[2])[1] = o[1]
  BY <1>2, FramesAre
<1>4. ASSUME NEW o \in Frames, ~Waits(o) PROVE Cardinality({i \in DOMAIN sent : Is(i, o)}) = 1
  <2>1. o[1] < a
    <3> SUFFICES ASSUME ~(o[1] < a) PROVE FALSE
      OBVIOUS
    <3>1. o[2] < next /\ ~\E i \in DOMAIN buffer : buffer[i] = o[2]
      BY <1>2, <1>3, <1>4 DEF Waits
    <3> DEFINE t == next - 1
               i == o[2] + 1 - a
    <3>2. t \in Nat /\ a <= t + 1 /\ i \in 1 .. (t + 1 - a) /\ a + i - 1 = o[2]
      BY <1>2, <1>3, <3>1
    <3>3. buffer = Units(a, t)
      BY <1>2
    <3> HIDE DEF t, i
    <3>4. DOMAIN Units(a, t) = 1 .. (t + 1 - a) /\ Units(a, t)[i] = a + i - 1
      BY <3>2 DEF Units
    <3> QED
      BY <3>1, <3>2, <3>3, <3>4
  <2>2. PICK i \in 1 .. Len(sent) : Is(i, o) /\ \A j \in 1 .. Len(sent) : Is(j, o) => j = i
    BY <1>2, <2>1 DEF SentBefore
  <2>3. {j \in DOMAIN sent : Is(j, o)} = {i}
    BY <1>2, <2>2
  <2> QED
    BY <2>3, FS_Singleton
<1>5. SparedOnce
  BY <1>2, <1>4 DEF SparedOnce
<1>6. OnlyOwedOrSpoilt
  BY <1>2 DEF OnlyOwedOrSpoilt, SentBefore
<1>7. InBroadcastOrder
  <2> SUFFICES ASSUME NEW i \in DOMAIN sent, NEW j \in DOMAIN sent, NEW o \in Frames, NEW q \in Frames,
                      Is(i, o), Is(j, q), i < j
               PROVE  o[1] <= q[1]
    BY <1>2 DEF InBroadcastOrder
  <2>1. sent[i].data[1] = o[1] /\ sent[j].data[1] = q[1]
    BY <1>3 DEF Is
  <2>2. sent[i].data[1] < sent[j].data[1]
    BY <1>2 DEF SentBefore
  <2> QED
    BY <1>3, <2>1, <2>2
<1> QED
  BY <1>5, <1>6, <1>7 DEF WholeAndOnce

(* Parsers of frames -- MPEG2 audio, AC3, ADTS -- send every frame once,   *)
(* as it was broadcast and in order, and nothing else, also what looks     *)
(* like a frame inside of one (parser.c), however long the broadcast and   *)
(* however its TS packets and PES packets divide it, as long as no TS      *)
(* packet is lost and the buffer does not overflow.                        *)
THEOREM FramesWholeAndOnce ==
  ParserSpec => [](kind \in Framed /\ Tiled /\ gone = {} => WholeAndOnce)
<1>1. ParserInit => ParserInv /\ FramesInv
  BY InitParserInv, InitFramesInv
<1>2. ParserInv /\ FramesInv /\ [ParserNext]_parserVars => ParserInv' /\ FramesInv'
  BY ParserStep, FramesStep
<1>3. ParserInv /\ FramesInv => (kind \in Framed /\ Tiled /\ gone = {} => WholeAndOnce)
  BY FramesWhole
<1> QED
  BY <1>1, <1>2, <1>3, PTL DEF ParserSpec

(***************************************************************************)
(* When the buffer of frames cannot overflow.                              *)
(***************************************************************************)
Roomy ==
  /\ Margin + Payload <= BufferSize + 1
  /\ \A u \in DOMAIN Marks : Marks[u].is = "frame" =>
       Payload <= Marks[u].size /\ Marks[u].size + Payload <= BufferSize + 1

\* Only a lost TS packet leaves a gap.
NoGap == kind \in Framed /\ Tiled /\ Roomy /\ lost = 0 => gone = {}

LEMMA FramesFit ==
  ASSUME ParserInv, FramesInv, kind \in Framed, Tiled, Roomy, gone = {}, Arrive
  PROVE  gone' = {}
<1>1. FramesContext /\ ParseFrames
  BY FramesArriving
<1>2. PICK a \in 1 .. next : AlignedAt(a)
  BY DEF FramesInv
<1>3. /\ next \in Nat /\ a \in Nat \ {0} /\ a <= next /\ Len(Marks) \in Nat /\ next <= Len(Marks)
      /\ Len(Data) \in Nat /\ Len(Data) <= Payload /\ Payload \in Nat \ {0} /\ BufferSize \in Nat
      /\ Margin \in Nat
  BY <1>1, <1>2, Parameters DEF FramesContext
<1>4. \A b \in 1 .. next : Len(Units(b, next - 1)) = next - b
  BY <1>3 DEF Units
<1>5. Len(buffer) = next - a /\ Len(buffer) <= BufferSize
  BY <1>2, <1>4 DEF AlignedAt, ParserInv, ParserTypeOK
<1>6. ASSUME NEW rest, NEW pts, PutData(rest, pts), ~Overflow(rest) PROVE gone' = {}
  BY <1>6 DEF PutData
<1>7. ASSUME NEW u \in 1 .. Len(Marks), Marks[u].is = "frame"
      PROVE  /\ Marks[u].size \in Nat /\ Payload <= Marks[u].size
             /\ Marks[u].size + Payload <= BufferSize + 1
  <2>1. u \in DOMAIN Marks /\ Marks[u].size \in Nat
    BY <1>1, Row DEF FramesContext
  <2> QED
    BY <1>7, <2>1 DEF Roomy
<1>8. a <= Len(Marks) => a \in 1 .. Len(Marks) /\ Marks[a].is = "frame"
  BY <1>2, <1>3 DEF AlignedAt
<1>9. CASE /\ a <= Len(Marks) /\ Marks[a].size \in Nat \ {0} /\ a + Marks[a].size <= next
           /\ PutData(Units(a + Marks[a].size, next - 1), PtsAdd(curPTS, Duration))
  <2>1. PICK b \in Nat : b = a + Marks[a].size
    BY <1>3, <1>9
  <2>2. Len(Units(b, next - 1)) = next - b /\ b >= a + Payload
    <3>1. b \in 1 .. next
      BY <1>3, <1>9, <2>1
    <3>2. Marks[a].size \in Nat /\ Payload <= Marks[a].size
      BY <1>7, <1>8, <1>9
    <3>3. Len(Units(b, next - 1)) = next - b
      BY <1>4, <3>1
    <3>4. \A s \in Nat : Payload <= s => a + s >= a + Payload
      BY <1>3
    <3>5. a + Marks[a].size >= a + Payload
      BY <3>2, <3>4
    <3> QED
      BY <2>1, <3>3, <3>5
  <2>3. ~Overflow(Units(b, next - 1))
    BY <1>3, <1>5, <2>1, <2>2 DEF Overflow
  <2> QED
    BY <1>6, <1>9, <2>1, <2>3
<1>10. CASE /\ PutData(buffer, curPTS)
            /\ \/ Len(buffer) = 0 \/ Len(buffer) < Margin
               \/ a < next /\ Marks[a].size > Len(buffer)
  <2>1. CASE Len(buffer) = 0
    <3>1. Payload <= BufferSize
      <4>1. 1 \in 1 .. Len(Marks) /\ Marks[1].is = "frame"
        BY <1>3 DEF Tiled
      <4>2. /\ Marks[1].size \in Nat /\ Payload <= Marks[1].size
            /\ Marks[1].size + Payload <= BufferSize + 1
        BY <1>7, <4>1
      <4> QED
        BY <1>3, <4>2
    <3>2. ~Overflow(buffer)
      BY <1>3, <2>1, <3>1 DEF Overflow
    <3> QED
      BY <1>6, <1>10, <3>2
  <2>2. CASE Len(buffer) < Margin
    <3>1. ~Overflow(buffer)
      BY <1>3, <1>5, <2>2 DEF Overflow, Roomy
    <3> QED
      BY <1>6, <1>10, <3>1
  <2>3. CASE a < next /\ Marks[a].size > Len(buffer)
    <3>1. Marks[a].size \in Nat /\ Marks[a].size + Payload <= BufferSize + 1
      BY <1>3, <1>7, <1>8, <2>3
    <3>2. ~Overflow(buffer)
      BY <1>3, <1>5, <2>3, <3>1 DEF Overflow
    <3> QED
      BY <1>6, <1>10, <3>2
  <2> QED
    BY <1>10, <2>1, <2>2, <2>3
<1> QED
  BY <1>1, <1>2, <1>9, <1>10, FrameTaken

(* With frames of at least a TS packet and room for the longest one and a  *)
(* TS packet, one frame for each TS packet is enough: as long as no TS     *)
(* packet is lost, the buffer has never overflown, no unit is gone, and    *)
(* every frame is sent once, whole and in order, or waits in the buffer    *)
(* (parser.c, ringbuffer.c).                                               *)
THEOREM BufferSuffices ==
  ParserSpec => [](kind \in Framed /\ Tiled /\ Roomy /\ lost = 0 => gone = {} /\ WholeAndOnce)
<1>1. ParserInit => ParserInv /\ FramesInv /\ NoGap
  <2>1. ParserInit => NoGap
    BY DEF ParserInit, NoGap
  <2> QED
    BY <2>1, InitParserInv, InitFramesInv
<1>2. ParserInv /\ FramesInv /\ NoGap /\ [ParserNext]_parserVars => NoGap'
  <2> SUFFICES ASSUME ParserInv, FramesInv, NoGap, [ParserNext]_parserVars,
                      (kind \in Framed /\ Tiled /\ Roomy /\ lost = 0)'
               PROVE  gone' = {}
    BY DEF NoGap
  <2>1. kind' = kind
    BY DEF ParserNext, Arrive, LosePacket, parserVars
  <2>2. kind \in Framed /\ Tiled /\ Roomy /\ lost' = 0
    BY <2>1 DEF Tiled, Roomy, Marks
  <2>3. CASE UNCHANGED parserVars
    BY <2>2, <2>3 DEF parserVars, NoGap
  <2>4. CASE Arrive
    <3>1. lost = 0
      BY <2>2, <2>4 DEF Arrive
    <3>2. gone = {}
      BY <2>2, <3>1 DEF NoGap
    <3> QED
      BY <2>2, <2>4, <3>2, FramesFit
  <2>5. CASE LosePacket
    <3>1. lost \in Nat /\ lost' = lost + 1
      BY <2>5, Parameters DEF LosePacket, ParserInv, ParserTypeOK
    <3> QED
      BY <2>2, <3>1
  <2> QED
    BY <2>3, <2>4, <2>5 DEF ParserNext
<1>3. ParserInv /\ FramesInv /\ [ParserNext]_parserVars => ParserInv' /\ FramesInv'
  BY ParserStep, FramesStep
<1>4. ParserInv /\ FramesInv /\ NoGap =>
        (kind \in Framed /\ Tiled /\ Roomy /\ lost = 0 => gone = {} /\ WholeAndOnce)
  BY FramesWhole DEF NoGap
<1> QED
  BY <1>1, <1>2, <1>3, <1>4, PTL DEF ParserSpec
-----------------------------------------------------------------------------
(***************************************************************************)
(* Time stamps rise, whatever is lost.                                     *)
(***************************************************************************)
\* A time stamp as PtsAdd reads it.
Ticks(pts) == IF pts = NoPts THEN 0 ELSE pts

\* No PES packet starts so late that a frame for each unit of the broadcast
\* would take its time stamp over the modulus.
Unwrapped == \A n \in DOMAIN Pes : Ticks(Pes[n].pts) + Duration * Len(Marks) < Modulus

StampsInv ==
  kind \in Framed /\ Unwrapped =>
    /\ Ticks(curPTS) + Duration * (Len(Marks) + 1 - next) < Modulus
    /\ \A i \in 1 .. Len(sent) : sent[i].pts + Duration <= curPTS
    /\ \A i, j \in 1 .. Len(sent) : i < j => sent[i].pts + Duration <= sent[j].pts

LEMMA Times ==
  ASSUME NEW d \in Nat, NEW m \in Nat, NEW n \in Nat
  PROVE  /\ d * m \in Nat
         /\ m <= n => d * m <= d * n
         /\ m < n => d * m + d <= d * n
<1>1. d * m \in Nat /\ d * n \in Nat
  OBVIOUS
<1>2. ASSUME m <= n PROVE d * m <= d * n
  <2>1. PICK k \in Nat : n = m + k
    BY <1>2
  <2>2. d * (m + k) = d * m + d * k /\ d * k \in Nat
    OBVIOUS
  <2> QED
    BY <1>1, <2>1, <2>2
<1>3. ASSUME m < n PROVE d * m + d <= d * n
  <2>1. PICK k \in Nat : n = m + 1 + k
    <3>1. n - m - 1 \in Nat /\ n = m + 1 + (n - m - 1)
      BY <1>3
    <3> QED
      BY <3>1
  <2>2. d * (m + 1 + k) = d * m + d + d * k /\ d * k \in Nat
    OBVIOUS
  <2> QED
    BY <1>1, <2>1, <2>2
<1> QED
  BY <1>1, <1>2, <1>3

LEMMA TickTypes ==
  ASSUME NEW pts \in Stamps
  PROVE  Ticks(pts) \in Nat /\ pts <= Ticks(pts) /\ pts \in Int
BY DEF Ticks, Stamps, NoPts

LEMMA AddsUp ==
  ASSUME NEW a \in Nat, NEW m \in Nat, a < m PROVE a % m = a
OBVIOUS

(* As much time is left for the frames that can still come.                *)
LEMMA InitStamps == ParserInit => StampsInv
<1> SUFFICES ASSUME ParserInit, Unwrapped
             PROVE  Ticks(curPTS) + Duration * (Len(Marks) + 1 - next) < Modulus
  <2>1. ParserInit => Len(sent) = 0
    BY DEF ParserInit
  <2> QED
    BY <2>1 DEF StampsInv
<1>1. Ticks(curPTS) = 0 /\ next = 1 /\ kind \in DOMAIN Broadcasts
  BY DEF ParserInit, Ticks
<1>2. Len(Marks) \in Nat
  BY <1>1, Row
<1>3. Duration * Len(Marks) < Modulus
  <2>1. CASE Len(Marks) = 0
    BY <2>1, Parameters
  <2>2. CASE Len(Marks) # 0
    <3>1. 1 \in 1 .. Len(Marks)
      BY <1>2, <2>2
    <3>2. PesOf(1) \in DOMAIN Pes
      BY <1>1, <3>1, UnitsPes
    <3>3. Ticks(Pes[PesOf(1)].pts) \in Nat
      BY <1>1, <3>2, Row, TickTypes
    <3>4. Duration * Len(Marks) \in Nat
      BY <1>2, Parameters, Times
    <3> QED
      BY <3>2, <3>3, <3>4, Parameters DEF Unwrapped
  <2> QED
    BY <2>1, <2>2
<1>4. Len(Marks) + 1 - 1 = Len(Marks) /\ Duration * Len(Marks) \in Nat
  BY <1>2, Parameters, Times
<1> QED
  BY <1>1, <1>3, <1>4

\* What PutData makes of the time stamp pts.
LEMMA PutStamp ==
  ASSUME ParserInv, FramesContext, Unwrapped, NEW rest, NEW pts \in Stamps, PutData(rest, pts),
         Ticks(pts) + Duration * (Len(Marks) + 1 - next') < Modulus
  PROVE  /\ curPTS' \in Stamps /\ pts <= curPTS'
         /\ Ticks(curPTS') + Duration * (Len(Marks) + 1 - next') < Modulus
<1> DEFINE p == Pes[PesOf(next)].pts
<1>1. p \in Stamps /\ Ticks(p) + Duration * Len(Marks) < Modulus /\ next' \in Nat /\ next' > next
      /\ Len(Marks) \in Nat /\ next' <= Len(Marks) + 1 /\ next \in Nat \ {0}
  <2>1. PesOf(next) \in DOMAIN Pes /\ kind \in DOMAIN Broadcasts /\ LastOfPacket \in next .. Len(Marks)
    BY NextPacket DEF FramesContext
  <2> QED
    BY <2>1, Row DEF FramesContext, Unwrapped
<1>2. HeaderPts(pts) = IF p = 0 THEN pts ELSE p
  BY DEF HeaderPts
<1> HIDE DEF p
<1>3. curPTS' = pts \/ (curPTS' = p /\ pts <= p)
  <2>1. curPTS' = IF Pusi THEN Greatest(pts, HeaderPts(pts)) ELSE pts
    BY DEF PutData, NewPts
  <2>2. pts \in Int /\ p \in Int
    BY <1>1, TickTypes
  <2> QED
    BY <1>2, <2>1, <2>2 DEF Greatest
<1>4. Ticks(p) + Duration * (Len(Marks) + 1 - next') < Modulus
  <2> DEFINE m == Len(Marks) + 1 - next'
  <2>1. m \in Nat /\ m <= Len(Marks)
    BY <1>1
  <2> HIDE DEF m
  <2>2. Duration * m <= Duration * Len(Marks) /\ Duration * m \in Nat /\ Duration * Len(Marks) \in Nat
    BY <1>1, <2>1, Times, Parameters
  <2>3. Ticks(p) \in Nat
    BY <1>1, TickTypes
  <2>4. Ticks(p) + Duration * m < Modulus
    BY <1>1, <2>2, <2>3, Parameters
  <2> QED
    BY <2>4 DEF m
<1>5. pts \in Int
  BY TickTypes
<1> QED
  BY <1>1, <1>3, <1>4, <1>5

LEMMA StampsArrive ==
  ASSUME ParserInv, StampsInv, kind \in Framed, Unwrapped, Arrive
  PROVE  (/\ Ticks(curPTS) + Duration * (Len(Marks) + 1 - next) < Modulus
          /\ \A i \in 1 .. Len(sent) : sent[i].pts + Duration <= curPTS
          /\ \A i, j \in 1 .. Len(sent) : i < j => sent[i].pts + Duration <= sent[j].pts)'
<1>1. FramesContext /\ ParseFrames /\ Marks' = Marks
  BY FramesArriving DEF FramesContext, Marks
<1>2. /\ curPTS \in Stamps /\ Ticks(curPTS) \in Nat /\ curPTS \in Int /\ curPTS <= Ticks(curPTS)
      /\ sent \in Seq([data : Seq(1 .. (next - 1)) \ {<<>>}, pts : Stamps]) /\ Len(sent) \in Nat
      /\ Duration \in Nat /\ Modulus \in Nat \ {0}
  <2>1. curPTS \in Stamps /\ sent \in Seq([data : Seq(1 .. (next - 1)) \ {<<>>}, pts : Stamps])
    BY DEF ParserInv, ParserTypeOK
  <2> QED
    BY <2>1, TickTypes, LenProperties, Parameters
<1>3. /\ next \in Nat /\ next' \in Nat /\ next < next' /\ next' <= Len(Marks) + 1 /\ Len(Marks) \in Nat
  <2>1. LastOfPacket \in next .. Len(Marks)
    BY <1>1, NextPacket DEF FramesContext
  <2> QED
    BY <1>1, <2>1 DEF FramesContext
<1> DEFINE m == Len(Marks) + 1 - next
           k == Len(Marks) + 1 - next'
<1>4. m \in Nat /\ k \in Nat /\ k < m
  BY <1>3
<1> HIDE DEF m, k
<1>5. /\ Ticks(curPTS) + Duration * m < Modulus
      /\ Duration * m \in Nat /\ Duration * k \in Nat /\ Duration * k + Duration <= Duration * m
      /\ Duration * k <= Duration * m
  <2>1. /\ Duration * m \in Nat /\ Duration * k \in Nat /\ Duration * k + Duration <= Duration * m
        /\ Duration * k <= Duration * m
    BY <1>2, <1>4, Times
  <2> QED
    BY <2>1 DEF StampsInv, m
<1>6. /\ \A i \in 1 .. Len(sent) : sent[i].pts \in Int /\ sent[i].pts + Duration <= curPTS
      /\ \A i, j \in 1 .. Len(sent) : i < j => sent[i].pts + Duration <= sent[j].pts
  <2>1. ASSUME NEW i \in 1 .. Len(sent) PROVE sent[i].pts \in Int
    <3>1. sent[i] \in [data : Seq(1 .. (next - 1)) \ {<<>>}, pts : Stamps]
      BY <1>2, ElementOfSeq
    <3>2. sent[i].pts \in Stamps
      BY <3>1
    <3> QED
      BY <3>2, TickTypes
  <2> QED
    BY <2>1 DEF StampsInv
<1>7. CASE Complete /\ SendFrame /\ PutData(Taken(FrameSize(0)), PtsAdd(curPTS, Duration))
  <2>1. PtsAdd(curPTS, Duration) = Ticks(curPTS) + Duration
    <3>1. Ticks(curPTS) + Duration \in Nat /\ Ticks(curPTS) + Duration < Modulus
      BY <1>2, <1>5
    <3>2. (Ticks(curPTS) + Duration) % Modulus = Ticks(curPTS) + Duration
      BY <1>2, <3>1, AddsUp
    <3> QED
      BY <3>2 DEF PtsAdd, Ticks
  <2> DEFINE pts == PtsAdd(curPTS, Duration)
  <2>2. pts \in Stamps
    BY <1>1, <1>2, StampTypes DEF FramesContext
  <2>3. pts \in Int /\ curPTS + Duration <= pts /\ pts \in Nat
    BY <1>2, <2>1
  <2>4. Ticks(pts) = pts
    BY <2>3 DEF Ticks, NoPts
  <2>5. Ticks(pts) + Duration * k < Modulus
    BY <1>2, <1>5, <2>1, <2>4
  <2> HIDE DEF pts
  <2>6. /\ curPTS' \in Stamps /\ pts <= curPTS'
        /\ Ticks(curPTS') + Duration * k < Modulus
    <3>1. Ticks(pts) + Duration * (Len(Marks) + 1 - next') < Modulus
      BY <2>5 DEF k
    <3>2. PutData(Taken(FrameSize(0)), pts)
      BY <1>7 DEF pts
    <3> QED
      BY <1>1, <2>2, <3>1, <3>2, PutStamp DEF k
  <2>7. /\ Len(sent') = Len(sent) + 1 /\ sent'[Len(sent) + 1].pts = curPTS
        /\ \A i \in 1 .. Len(sent) : sent'[i] = sent[i]
    <3> DEFINE new == [data |-> SubSeq(buffer, 1, FrameSize(0)), pts |-> curPTS]
    <3>1. sent' = Append(sent, new) /\ new.pts = curPTS
      BY <1>7 DEF SendFrame
    <3> HIDE DEF new
    <3> QED
      BY <1>2, <3>1, AppendProperties
  <2>8. curPTS' \in Int /\ curPTS + Duration <= curPTS'
    BY <1>2, <2>3, <2>6, TickTypes
  <2>9. ASSUME NEW i \in 1 .. Len(sent') PROVE sent'[i].pts + Duration <= curPTS'
    <3>1. CASE i = Len(sent) + 1
      BY <2>7, <2>8, <3>1
    <3>2. CASE i \in 1 .. Len(sent)
      <4>1. sent[i].pts \in Int /\ sent[i].pts + Duration <= curPTS /\ curPTS <= curPTS'
        BY <1>2, <1>6, <2>8, <3>2
      <4>2. sent'[i].pts = sent[i].pts
        BY <2>7, <3>2
      <4> QED
        BY <1>2, <2>8, <4>1, <4>2
    <3> QED
      BY <1>2, <2>7, <3>1, <3>2
  <2>10. ASSUME NEW i \in 1 .. Len(sent'), NEW j \in 1 .. Len(sent'), i < j
         PROVE  sent'[i].pts + Duration <= sent'[j].pts
    <3>1. i \in 1 .. Len(sent)
      BY <1>2, <2>7, <2>10
    <3>2. CASE j = Len(sent) + 1
      BY <1>6, <2>7, <3>1, <3>2
    <3>3. CASE j \in 1 .. Len(sent)
      BY <1>6, <2>7, <2>10, <3>1, <3>3
    <3> QED
      BY <1>2, <2>7, <3>2, <3>3
  <2> QED
    BY <1>1, <2>6, <2>9, <2>10 DEF k
<1>8. ASSUME NEW rest, PutData(rest, curPTS), UNCHANGED sent
      PROVE  /\ Ticks(curPTS') + Duration * (Len(Marks) + 1 - next') < Modulus
             /\ \A i \in 1 .. Len(sent') : sent'[i].pts + Duration <= curPTS'
             /\ \A i, j \in 1 .. Len(sent') : i < j => sent'[i].pts + Duration <= sent'[j].pts
  <2>1. Ticks(curPTS) + Duration * (Len(Marks) + 1 - next') < Modulus
    <3>1. Ticks(curPTS) + Duration * k < Modulus
      BY <1>2, <1>5
    <3> QED
      BY <3>1 DEF k
  <2>2. /\ curPTS' \in Stamps /\ curPTS <= curPTS'
        /\ Ticks(curPTS') + Duration * (Len(Marks) + 1 - next') < Modulus
    BY <1>1, <1>2, <1>8, <2>1, PutStamp
  <2>3. curPTS' \in Int
    BY <2>2, TickTypes
  <2>4. ASSUME NEW i \in 1 .. Len(sent) PROVE sent[i].pts + Duration <= curPTS'
    BY <1>2, <1>6, <2>2, <2>3
  <2> QED
    BY <1>6, <1>8, <2>2, <2>4
<1> QED
  BY <1>1, <1>7, <1>8 DEF ParseFrames

LEMMA StampsStep == ParserInv /\ StampsInv /\ [ParserNext]_parserVars => StampsInv'
<1> SUFFICES ASSUME ParserInv, StampsInv, [ParserNext]_parserVars, (kind \in Framed /\ Unwrapped)'
             PROVE  (/\ Ticks(curPTS) + Duration * (Len(Marks) + 1 - next) < Modulus
                     /\ \A i \in 1 .. Len(sent) : sent[i].pts + Duration <= curPTS
                     /\ \A i, j \in 1 .. Len(sent) : i < j => sent[i].pts + Duration <= sent[j].pts)'
  BY DEF StampsInv
<1>1. kind' = kind
  BY DEF ParserNext, Arrive, LosePacket, parserVars
<1>2. kind \in Framed /\ Unwrapped /\ Marks' = Marks
  BY <1>1 DEF Unwrapped, Pes, Marks
<1>3. CASE UNCHANGED parserVars
  BY <1>2, <1>3 DEF parserVars, StampsInv
<1>4. CASE Arrive
  BY <1>2, <1>4, StampsArrive
<1>5. CASE LosePacket
  <2>1. next \in 1 .. Len(Marks) /\ kind \in DOMAIN Broadcasts /\ Len(Marks) \in Nat
    <3>1. next \in 1 .. (Len(Marks) + 1) /\ kind \in DOMAIN Broadcasts
      BY DEF ParserInv, ParserTypeOK
    <3>2. Len(Marks) \in Nat
      BY <3>1, Row
    <3> QED
      BY <1>5, <3>1, <3>2 DEF LosePacket
  <2>2. LastOfPacket \in next .. Len(Marks) /\ next' = LastOfPacket + 1
    BY <1>5, <2>1, NextPacket DEF LosePacket
  <2> DEFINE m == Len(Marks) + 1 - next
             k == Len(Marks) + 1 - next'
  <2>3. m \in Nat /\ k \in Nat /\ k <= m
    BY <2>1, <2>2
  <2>4. Ticks(curPTS) + Duration * m < Modulus
    BY <1>2 DEF StampsInv
  <2> HIDE DEF m, k
  <2>5. Duration * k <= Duration * m /\ Duration * k \in Nat /\ Duration * m \in Nat
    BY <2>3, Times, Parameters
  <2>6. Ticks(curPTS) \in Nat
    BY TickTypes DEF ParserInv, ParserTypeOK
  <2>7. Ticks(curPTS) + Duration * k < Modulus
    BY <2>4, <2>5, <2>6, Parameters
  <2>8. UNCHANGED <<curPTS, sent>>
    BY <1>5 DEF LosePacket
  <2> QED
    BY <1>2, <2>7, <2>8 DEF k, StampsInv
<1> QED
  BY <1>3, <1>4, <1>5 DEF ParserNext

(* Whatever is lost, the frames that are sent have time stamps that rise   *)
(* by the duration of a frame at least (parser.c: PutData, Parse), where   *)
(* the broadcast ends before they can start over.                          *)
THEOREM TimeStampsRise == ParserSpec => [](kind \in Framed /\ Unwrapped => TimesRise)
<1>1. ParserInit => ParserInv /\ StampsInv
  BY InitParserInv, InitStamps
<1>2. ParserInv /\ StampsInv /\ [ParserNext]_parserVars => ParserInv' /\ StampsInv'
  BY ParserStep, StampsStep
<1>3. ParserInv /\ StampsInv => (kind \in Framed /\ Unwrapped => TimesRise)
  <2> SUFFICES ASSUME ParserInv, StampsInv, kind \in Framed, Unwrapped,
                      NEW i \in DOMAIN sent, NEW j \in DOMAIN sent, j = i + 1
               PROVE  sent[i].pts + Duration <= sent[j].pts
    BY DEF TimesRise
  <2>1. DOMAIN sent = 1 .. Len(sent) /\ Len(sent) \in Nat
    BY LenProperties DEF ParserInv, ParserTypeOK
  <2>2. i < j
    BY <2>1
  <2> QED
    BY <2>1, <2>2 DEF StampsInv
<1> QED
  BY <1>1, <1>2, <1>3, PTL DEF ParserSpec
-----------------------------------------------------------------------------
(***************************************************************************)
(* Numbers that start over.                                                *)
(***************************************************************************)
LEMMA Remainder ==
  ASSUME NEW a \in Nat, NEW m \in Nat \ {0}
  PROVE  a % m \in 0 .. (m - 1) /\ \E k \in Nat : a = m * k + (a % m)
<1>1. a % m \in 0 .. (m - 1)
  OBVIOUS
<1>2. a \div m \in Nat /\ a = m * (a \div m) + (a % m)
  OBVIOUS
<1> QED
  BY <1>1, <1>2

LEMMA RemainderIs ==
  ASSUME NEW m \in Nat \ {0}, NEW k \in Nat, NEW r \in 0 .. (m - 1)
  PROVE  (m * k + r) % m = r
<1> DEFINE a == m * k + r
<1>1. a \in Nat
  OBVIOUS
<1> HIDE DEF a
<1>2. PICK j \in Nat : a = m * j + (a % m)
  BY <1>1, Remainder
<1>3. a % m \in 0 .. (m - 1)
  BY <1>1, Remainder
<1>4. PICK s \in 0 .. (m - 1) : s = a % m
  BY <1>3
<1>5. m * j + s = m * k + r
  BY <1>2, <1>4 DEF a
<1>6. ~(j < k)
  <2> SUFFICES ASSUME j < k PROVE FALSE
    OBVIOUS
  <2>1. PICK i \in Nat : k = j + 1 + i
    <3>1. k - j - 1 \in Nat /\ k = j + 1 + (k - j - 1)
      OBVIOUS
    <3> QED
      BY <3>1
  <2>2. m * (j + 1 + i) = m * j + m + m * i /\ m * i \in Nat /\ m * j \in Nat
    OBVIOUS
  <2> QED
    BY <1>5, <2>1, <2>2
<1>7. ~(k < j)
  <2> SUFFICES ASSUME k < j PROVE FALSE
    OBVIOUS
  <2>1. PICK i \in Nat : j = k + 1 + i
    <3>1. j - k - 1 \in Nat /\ j = k + 1 + (j - k - 1)
      OBVIOUS
    <3> QED
      BY <3>1
  <2>2. m * (k + 1 + i) = m * k + m + m * i /\ m * i \in Nat /\ m * k \in Nat
    OBVIOUS
  <2> QED
    BY <1>5, <2>1, <2>2
<1>8. j = k
  BY <1>6, <1>7
<1>9. m * k \in Nat
  OBVIOUS
<1>10. r = s
  BY <1>5, <1>8, <1>9
<1> QED
  BY <1>4, <1>10 DEF a

LEMMA RemainderPlus ==
  ASSUME NEW m \in Nat \ {0}, NEW x \in Nat, NEW y \in Nat
  PROVE  ((x % m) + y) % m = (x + y) % m
<1>1. PICK k \in Nat : x = m * k + (x % m)
  BY Remainder
<1>2. PICK r \in 0 .. (m - 1) : r = x % m
  BY Remainder
<1>3. r + y \in Nat
  OBVIOUS
<1>4. PICK j \in Nat : r + y = m * j + ((r + y) % m)
  BY <1>3, Remainder
<1>5. PICK s \in 0 .. (m - 1) : s = (r + y) % m
  BY <1>3, Remainder
<1>6. x + y = m * (k + j) + s
  <2>1. m * (k + j) = m * k + m * j /\ m * k \in Nat /\ m * j \in Nat
    OBVIOUS
  <2> QED
    BY <1>1, <1>2, <1>4, <1>5, <2>1
<1>7. (m * (k + j) + s) % m = s
  <2>1. k + j \in Nat
    OBVIOUS
  <2> QED
    BY <2>1, RemainderIs
<1> QED
  BY <1>2, <1>5, <1>6, <1>7

LEMMA RemainderDiff ==
  ASSUME NEW m \in Nat \ {0}, NEW x \in Nat, NEW y \in Nat
  PROVE  (((x + y) % m) + m - (x % m)) % m <= y
<1>1. PICK k \in Nat : x = m * k + (x % m)
  BY Remainder
<1>2. PICK r \in 0 .. (m - 1) : r = x % m
  BY Remainder
<1>3. x + y \in Nat
  OBVIOUS
<1>4. PICK j \in Nat : x + y = m * j + ((x + y) % m)
  BY <1>3, Remainder
<1>5. PICK s \in 0 .. (m - 1) : s = (x + y) % m
  BY <1>3, Remainder
<1>6. m * k \in Nat /\ m * j \in Nat /\ x = m * k + r /\ x + y = m * j + s
  BY <1>1, <1>2, <1>4, <1>5
<1> DEFINE n == s + m - r
<1>7. CASE j <= k
  <2>1. PICK i \in Nat : k = j + i
    <3>1. k - j \in Nat /\ k = j + (k - j)
      BY <1>7
    <3> QED
      BY <3>1
  <2>2. m * (j + i) = m * j + m * i /\ m * i \in Nat
    OBVIOUS
  <2>3. m * k = m * j + m * i
    BY <2>1, <2>2
  <2>4. s = r + y + m * i
    BY <1>6, <2>2, <2>3
  <2>5. n = m * 1 + (s - r) /\ s - r \in 0 .. (m - 1)
    BY <2>2, <2>4
  <2>6. (m * 1 + (s - r)) % m = s - r
    BY <2>5, RemainderIs
  <2>7. i = 0
    <3> SUFFICES ASSUME i # 0 PROVE FALSE
      OBVIOUS
    <3>1. PICK h \in Nat : i = h + 1
      <4>1. i - 1 \in Nat /\ i = (i - 1) + 1
        OBVIOUS
      <4> QED
        BY <4>1
    <3>2. m * (h + 1) = m * h + m /\ m * h \in Nat
      OBVIOUS
    <3> QED
      BY <2>4, <3>1, <3>2
  <2>8. m * 0 = 0
    OBVIOUS
  <2>9. s - r = y
    BY <2>4, <2>7, <2>8
  <2>10. n % m = y
    BY <2>5, <2>6, <2>9
  <2> QED
    BY <1>2, <1>5, <2>10
<1>8. CASE k < j
  <2>1. PICK i \in Nat : j = k + 1 + i
    <3>1. j - k - 1 \in Nat /\ j = k + 1 + (j - k - 1)
      BY <1>8
    <3> QED
      BY <3>1
  <2>2. m * (k + 1 + i) = m * k + m + m * i /\ m * i \in Nat
    OBVIOUS
  <2>3. n + m * i = y
    BY <1>6, <2>1, <2>2
  <2>4. n \in Nat /\ n <= y
    BY <2>2, <2>3
  <2>5. n % m <= n
    <3> HIDE DEF n
    <3>1. PICK h \in Nat : n = m * h + (n % m)
      BY <2>4, Remainder
    <3>2. m * h \in Nat /\ n % m \in 0 .. (m - 1)
      BY <2>4, Remainder
    <3> QED
      BY <3>1, <3>2
  <2>6. n % m \in 0 .. (m - 1)
    <3> HIDE DEF n
    <3> QED
      BY <2>4, Remainder
  <2>7. n % m <= y
    <3> HIDE DEF n
    <3> QED
      BY <2>4, <2>5, <2>6
  <2> QED
    BY <1>2, <1>5, <2>7
<1> QED
  BY <1>7, <1>8

(***************************************************************************)
(* When a frame is sent.  It has the time stamp it is due at, or that of   *)
(* one of the frames behind it that can wait when a PES packet starts.     *)
(***************************************************************************)
LEMMA CountAdds ==
  ASSUME NEW a \in Nat, NEW b \in Nat, NEW c \in Nat, a <= b, b <= c
  PROVE  /\ FramesFrom(a, b) \in Nat
         /\ FramesFrom(a, c) = FramesFrom(a, b) + FramesFrom(b, c)
<1> DEFINE S(x, y) == {u \in x .. (y - 1) : Marks[u].is = "frame"}
<1>1. ASSUME NEW x \in Nat, NEW y \in Nat PROVE IsFiniteSet(S(x, y))
  <2>1. IsFiniteSet(x .. (y - 1))
    <3>1. x \in Int /\ y - 1 \in Int
      OBVIOUS
    <3> QED
      BY <3>1, FS_Interval
  <2> QED
    BY <2>1, FS_Subset
<1>2. S(a, c) = S(a, b) \cup S(b, c)
  OBVIOUS
<1>3. S(a, b) \cap S(b, c) = {}
  OBVIOUS
<1>4. FramesFrom(a, b) = Cardinality(S(a, b)) /\ FramesFrom(b, c) = Cardinality(S(b, c))
      /\ FramesFrom(a, c) = Cardinality(S(a, c))
  BY DEF FramesFrom
<1>5. IsFiniteSet(S(a, b)) /\ IsFiniteSet(S(b, c))
  BY <1>1
<1> HIDE DEF S
<1>6. /\ Cardinality(S(a, b)) \in Nat /\ Cardinality(S(b, c)) \in Nat
      /\ Cardinality(S(a, b) \cup S(b, c)) =
           Cardinality(S(a, b)) + Cardinality(S(b, c)) - Cardinality(S(a, b) \cap S(b, c))
  BY <1>5, FS_CardinalityType, FS_Union
<1>7. Cardinality(S(a, b) \cap S(b, c)) = 0
  BY <1>3, FS_EmptySet
<1> QED
  BY <1>2, <1>4, <1>6, <1>7

(* In a broadcast of frames one starts from the start of one on, up to its *)
(* end.                                                                    *)
LEMMA OneFrame ==
  ASSUME kind \in DOMAIN Broadcasts, Tiled, NEW a \in 1 .. Len(Marks), Marks[a].is = "frame",
         a + Marks[a].size <= Len(Marks) + 1
  PROVE  FramesFrom(a, a + Marks[a].size) = 1
<1>1. /\ Marks[a].size \in Nat /\ Marks[a].size > 0 /\ Len(Marks) \in Nat
      /\ DOMAIN Marks = 1 .. Len(Marks)
  <2>1. /\ Marks[a].size \in Nat /\ Marks[a].size > HeaderSize /\ Len(Marks) \in Nat
        /\ DOMAIN Marks = 1 .. Len(Marks)
    BY Row
  <2> QED
    BY <2>1, Parameters
<1> DEFINE b == a + Marks[a].size
<1>2. {u \in a .. (b - 1) : Marks[u].is = "frame"} = {a}
  <2>1. ASSUME NEW u \in a .. (b - 1), u # a PROVE Marks[u].is # "frame"
    <3>1. u \in DOMAIN Marks /\ a < u /\ u < b /\ a \in DOMAIN Marks
      BY <1>1, <2>1
    <3> QED
      BY <3>1 DEF Tiled
  <2>2. a \in a .. (b - 1)
    BY <1>1
  <2> QED
    BY <2>1, <2>2
<1> QED
  BY <1>2, FS_Singleton DEF FramesFrom

\* What is left in the buffer when a TS packet arrives: less than Get
\* returns, or less than a frame.
Short(n) ==
  n = 0 \/ n < Margin \/ \E u \in DOMAIN Marks : Marks[u].is = "frame" /\ n < Marks[u].size

\* When the first frame of the broadcast is due at t, a frame with so many
\* before it is due at:
DueAfter(t, frames) == (t + Duration * frames) % Modulus

\* Each PES packet has the time stamp of the first frame that starts in it, or
\* none; the first one has one.
Stamped(t) ==
  \A n \in DOMAIN Pes :
    \/ Pes[n].pts = DueAfter(t, FramesFrom(1, Pes[n].start))
    \/ Pes[n].pts = NoPts /\ Pes[n].start # 1

\* Frames are as long as a TS packet at least, PES packets have their time
\* stamps where they have one, and no more frames start in what is left than
\* are said to wait.
Punctual ==
  /\ \A u \in DOMAIN Marks : Marks[u].is = "frame" => Payload <= Marks[u].size
  /\ \E t \in 1 .. (Modulus - 1) : Stamped(t)
  /\ \A a \in DOMAIN Marks : \A n \in 0 .. BufferSize :
       Marks[a].is = "frame" /\ a + n <= Len(Marks) /\ Short(n) =>
         FramesFrom(a, a + n) <= Broadcasts[kind].waiting

\* A time stamp is that of a unit, or of one of the frames that can wait.
OnTime(t, pts, u) ==
  \E l \in 0 .. Broadcasts[kind].waiting : pts = DueAfter(t, FramesFrom(1, u) + l)

Front == next - Len(buffer)

ArrivesShort == \E r \in 0 .. Len(buffer) : Short(r) /\ Len(buffer) <= r + Payload

TimeInv ==
  kind \in Framed /\ Tiled /\ Punctual /\ gone = {} =>
    /\ ArrivesShort
    /\ \A t \in 1 .. (Modulus - 1) : Stamped(t) =>
         /\ IF next = 1 THEN curPTS = NoPts ELSE OnTime(t, curPTS, Front)
         /\ \A i \in 1 .. Len(sent) : \A o \in Frames : Is(i, o) => OnTime(t, sent[i].pts, o[1])

LEMMA ShortBelow ==
  ASSUME NEW m \in Nat, NEW n \in Nat, m <= n, Short(n), kind \in DOMAIN Broadcasts
  PROVE  Short(m)
<1>1. ASSUME NEW u \in DOMAIN Marks, Marks[u].is = "frame", n < Marks[u].size PROVE m < Marks[u].size
  <2>1. Marks[u].size \in Nat
    BY Row
  <2> QED
    BY <1>1, <2>1
<1> QED
  BY <1>1, Parameters DEF Short

(* The next frame is due when this one ends.                               *)
LEMMA DueNext ==
  ASSUME NEW t \in Nat, NEW n \in Nat
  PROVE  /\ DueAfter(t, n) \in 0 .. (Modulus - 1)
         /\ PtsAdd(DueAfter(t, n), Duration) = DueAfter(t, n + 1)
<1> DEFINE d == Duration * n
<1>1. d \in Nat /\ Duration * (n + 1) = d + Duration /\ Duration \in Nat
  BY Parameters
<1> HIDE DEF d
<1>2. DueAfter(t, n) = (t + d) % Modulus /\ DueAfter(t, n + 1) = (t + (d + Duration)) % Modulus
  BY <1>1 DEF DueAfter, d
<1>3. t + d \in Nat /\ t + (d + Duration) = (t + d) + Duration
  BY <1>1
<1>4. DueAfter(t, n) \in 0 .. (Modulus - 1)
  BY <1>2, <1>3, Parameters, Remainder
<1>5. (((t + d) % Modulus) + Duration) % Modulus = ((t + d) + Duration) % Modulus
  BY <1>1, <1>3, Parameters, RemainderPlus
<1>6. DueAfter(t, n) # NoPts
  BY <1>4, Parameters DEF NoPts
<1>7. PtsAdd(DueAfter(t, n), Duration) = (DueAfter(t, n) + Duration) % Modulus
  BY <1>6 DEF PtsAdd
<1> QED
  BY <1>2, <1>3, <1>4, <1>5, <1>7

\* What PutData makes of the time stamp of the first frame that is left.
LEMMA StampOnTime ==
  ASSUME ParserInv, FramesContext, Punctual, NEW t \in 1 .. (Modulus - 1), Stamped(t),
         NEW a \in 1 .. next, Marks[a].is = "frame", next - a <= BufferSize, Short(next - a),
         NEW rest, NEW pts \in Stamps, PutData(rest, pts),
         IF next = 1 THEN pts = NoPts ELSE OnTime(t, pts, a)
  PROVE  OnTime(t, curPTS', a)
<1> DEFINE p == Pes[PesOf(next)].pts
           waiting == Broadcasts[kind].waiting
<1>1. /\ kind \in DOMAIN Broadcasts /\ next \in 1 .. Len(Marks) /\ next \in Nat \ {0} /\ a \in Nat \ {0}
      /\ a <= next /\ Len(Marks) \in Nat /\ next <= Len(Marks) /\ DOMAIN Marks = 1 .. Len(Marks)
      /\ BufferSize \in Nat
  BY Row, Parameters DEF FramesContext
<1>2. /\ PesOf(next) \in DOMAIN Pes /\ p \in Stamps
      /\ Pusi => p = DueAfter(t, FramesFrom(1, next)) \/ (p = NoPts /\ next # 1)
  <2>1. PesOf(next) \in DOMAIN Pes
    BY <1>1, NextPacket
  <2>2. /\ p \in Stamps
        /\ \/ p = DueAfter(t, FramesFrom(1, Pes[PesOf(next)].start))
           \/ p = NoPts /\ Pes[PesOf(next)].start # 1
    BY <1>1, <2>1, Row DEF Stamped
  <2> QED
    BY <2>1, <2>2 DEF Pusi
<1>3. waiting \in Nat
  BY <1>1, ParserAssumption DEF IsBroadcast
<1>4. Pusi /\ p # NoPts => OnTime(t, p, a)
  <2> SUFFICES ASSUME Pusi, p # NoPts PROVE OnTime(t, p, a)
    OBVIOUS
  <2> DEFINE l == FramesFrom(a, next)
  <2>1. l \in Nat /\ FramesFrom(1, next) = FramesFrom(1, a) + l
    <3>1. 1 \in Nat /\ 1 <= a
      BY <1>1
    <3>2. FramesFrom(1, next) = FramesFrom(1, a) + FramesFrom(a, next)
      BY <1>1, <3>1, CountAdds
    <3>3. FramesFrom(a, next) \in Nat
      BY <1>1, CountAdds
    <3> QED
      BY <3>2, <3>3
  <2>2. l <= waiting
    <3>1. a \in DOMAIN Marks /\ next - a \in 0 .. BufferSize /\ a + (next - a) = next
      BY <1>1
    <3>2. FramesFrom(a, a + (next - a)) <= Broadcasts[kind].waiting
      BY <1>1, <3>1 DEF Punctual
    <3> QED
      BY <3>1, <3>2
  <2>3. l \in 0 .. waiting
    BY <1>3, <2>1, <2>2
  <2> QED
    BY <1>2, <2>1, <2>3 DEF OnTime
<1>5. curPTS' = pts \/ (Pusi /\ curPTS' = p /\ p # NoPts)
  <2>1. p = NoPts => Greatest(pts, p) = pts
    BY Parameters DEF Greatest, Stamps, NoPts
  <2> QED
    BY <2>1 DEF PutData, NewPts, Greatest, HeaderPts
<1>6. CASE next # 1
  BY <1>4, <1>5, <1>6
<1>7. CASE next = 1
  <2>1. Pusi
    BY <1>1, <1>7, FirstStarts
  <2>2. p = t
    <3>0. p = DueAfter(t, FramesFrom(1, next))
      BY <1>2, <1>7, <2>1
    <3>1. FramesFrom(1, next) = 0
      <4>1. {u \in 1 .. (1 - 1) : Marks[u].is = "frame"} = {}
        OBVIOUS
      <4> QED
        BY <1>7, <4>1, FS_EmptySet DEF FramesFrom
    <3>2. t + Duration * 0 = t /\ t \in Nat /\ t < Modulus /\ Modulus \in Nat
      BY Parameters
    <3>3. t % Modulus = t
      BY <3>2
    <3> QED
      BY <3>0, <3>1, <3>2, <3>3 DEF DueAfter
  <2>3. curPTS' = p
    <3>1. curPTS' = Greatest(pts, HeaderPts(pts))
      BY <2>1 DEF PutData, NewPts
    <3>2. HeaderPts(pts) = p
      BY <2>2 DEF HeaderPts
    <3>3. pts = NoPts
      BY <1>7
    <3>4. ~(pts > p)
      BY <2>2, <3>3 DEF NoPts
    <3> QED
      BY <3>1, <3>2, <3>4 DEF Greatest
  <2>4. p # NoPts
    BY <2>2 DEF NoPts
  <2> QED
    BY <1>4, <2>1, <2>3, <2>4
<1> QED
  BY <1>6, <1>7

(* Behind what is left the TS packet is put.                               *)
LEMMA RestOnTime ==
  ASSUME ParserInv, FramesContext, startup => next = 1, Punctual, gone' = {},
         NEW a \in 1 .. next, a <= Len(Marks) => Marks[a].is = "frame", Short(next - a),
         next - a <= BufferSize, NEW pts \in Stamps, PutData(Units(a, next - 1), pts)
  PROVE  /\ Len(buffer') = next' - a
         /\ \E r \in 0 .. Len(buffer') : Short(r) /\ Len(buffer') <= r + Payload
         /\ next' # 1
         /\ \A t \in 1 .. (Modulus - 1) :
              /\ Stamped(t)
              /\ IF next = 1 THEN pts = NoPts ELSE OnTime(t, pts, a)
              => OnTime(t, curPTS', a)
<1>1. /\ next \in Nat \ {0} /\ a \in Nat /\ a <= next /\ next <= Len(Marks) /\ Len(Marks) \in Nat
      /\ LastOfPacket \in Nat /\ next <= LastOfPacket /\ next' = LastOfPacket + 1
      /\ Len(Data) = LastOfPacket + 1 - next /\ Len(Data) <= Payload /\ Payload \in Nat
  BY Parameters DEF FramesContext
<1>2. buffer' = Units(a, next - 1) \o Data
  BY PutAll DEF ParserInv, ParserTypeOK
<1>3. buffer' = Units(a, LastOfPacket)
  <2>1. next <= LastOfPacket + 1 /\ Data = Units(next, LastOfPacket)
    BY <1>1 DEF FramesContext
  <2> QED
    BY <1>1, <1>2, <2>1, UnitsConcat
<1>4. Len(buffer') = next' - a
  <2>1. Len(Units(a, LastOfPacket)) = LastOfPacket + 1 - a
    BY <1>1, UnitsProperties
  <2> QED
    BY <1>1, <1>3, <2>1
<1>5. next - a \in 0 .. Len(buffer') /\ Len(buffer') <= (next - a) + Payload
  BY <1>1, <1>4
<1>6. next' # 1
  BY <1>1
<1>7. Marks[a].is = "frame"
  BY <1>1
<1> QED
  BY <1>4, <1>5, <1>6, <1>7, StampOnTime

LEMMA TimesArrive ==
  ASSUME ParserInv, FramesInv, TimeInv, kind \in Framed, Tiled, Punctual, Arrive, gone' = {}
  PROVE  /\ \E r \in 0 .. Len(buffer') : Short(r) /\ Len(buffer') <= r + Payload
         /\ next' # 1
         /\ \A t \in 1 .. (Modulus - 1) : Stamped(t) =>
              /\ OnTime(t, curPTS', next' - Len(buffer'))
              /\ \A i \in 1 .. Len(sent') : \A o \in Frames :
                   sent'[i].data = Units(o[1], o[2]) => OnTime(t, sent'[i].pts, o[1])
<1>1. FramesContext /\ ParseFrames
  BY FramesArriving
<1>2. gone = {}
  <2>1. gone \subseteq gone'
    BY <1>1 DEF ParseFrames, PutData
  <2> QED
    BY <2>1
<1>3. startup => next = 1
  BY <1>2 DEF FramesInv
<1>4. PICK a \in 1 .. next : AlignedAt(a)
  BY <1>2 DEF FramesInv
<1>5. /\ kind \in DOMAIN Broadcasts /\ next \in Nat \ {0} /\ next <= Len(Marks) /\ Len(Marks) \in Nat
      /\ a \in Nat \ {0} /\ a <= next /\ buffer = Units(a, next - 1) /\ Marks[a].is = "frame"
      /\ Payload \in Nat \ {0} /\ a \in 1 .. Len(Marks) /\ DOMAIN Marks = 1 .. Len(Marks)
      /\ curPTS \in Stamps
  <2>1. /\ kind \in DOMAIN Broadcasts /\ next \in Nat \ {0} /\ next <= Len(Marks) /\ Len(Marks) \in Nat
        /\ a \in Nat \ {0} /\ a <= next
    BY <1>1 DEF FramesContext
  <2>2. a \in 1 .. Len(Marks) /\ a <= Len(Marks)
    BY <2>1
  <2> QED
    BY <1>4, <2>1, <2>2, Row, Parameters DEF AlignedAt, ParserInv, ParserTypeOK
<1>6. Len(buffer) = next - a /\ next - a \in 0 .. BufferSize /\ Front = a
  <2>1. Len(Units(a, next - 1)) = next - a
    <3>1. next - 1 \in Nat /\ a <= next - 1 + 1 /\ next - 1 + 1 - a = next - a
      BY <1>5
    <3> QED
      BY <1>5, <3>1, UnitsProperties
  <2>2. Len(buffer) <= BufferSize
    BY DEF ParserInv, ParserTypeOK
  <2> QED
    BY <1>5, <2>1, <2>2, Parameters DEF Front
<1>7. /\ ArrivesShort
      /\ \A t \in 1 .. (Modulus - 1) : Stamped(t) =>
           /\ IF next = 1 THEN curPTS = NoPts ELSE OnTime(t, curPTS, a)
           /\ \A i \in 1 .. Len(sent) : \A o \in Frames : Is(i, o) => OnTime(t, sent[i].pts, o[1])
  BY <1>2, <1>6 DEF TimeInv
<1>8. CASE /\ Marks[a].size \in Nat \ {0} /\ a + Marks[a].size <= next
           /\ sent' = Append(sent, [data |-> Units(a, a + Marks[a].size - 1), pts |-> curPTS])
           /\ PutData(Units(a + Marks[a].size, next - 1), PtsAdd(curPTS, Duration))
  <2> DEFINE pts == PtsAdd(curPTS, Duration)
             new == [data |-> Units(a, a + Marks[a].size - 1), pts |-> curPTS]
  <2>1. PICK b \in Nat : b = a + Marks[a].size
    BY <1>5, <1>8
  <2>2. b \in 1 .. next /\ next # 1 /\ a < b /\ Payload <= Marks[a].size /\ next - b <= BufferSize
    <3>1. Payload <= Marks[a].size
      BY <1>5 DEF Punctual
    <3>2. b \in 1 .. next /\ next # 1 /\ a < b
      BY <1>5, <1>8, <2>1
    <3>3. next - b <= BufferSize
      BY <1>5, <1>6, <3>2, Parameters
    <3> QED
      BY <3>1, <3>2, <3>3
  <2>3. b <= Len(Marks) => Marks[b].is = "frame"
    BY <1>5, <2>1 DEF Tiled
  <2>4. Short(next - b)
    <3>1. PICK r \in 0 .. Len(buffer) : Short(r) /\ Len(buffer) <= r + Payload
      BY <1>7 DEF ArrivesShort
    <3>2. Payload <= b - a
      BY <1>5, <1>8, <2>1, <2>2
    <3>3. r \in Nat /\ next - b \in Nat /\ next - b <= r
      BY <1>5, <1>6, <2>2, <3>1, <3>2
    <3> QED
      BY <1>5, <3>1, <3>3, ShortBelow
  <2>5. pts \in Stamps /\ PutData(Units(b, next - 1), pts)
    BY <1>1, <1>5, <1>8, <2>1, StampTypes DEF FramesContext
  <2>6. FramesFrom(1, b) = FramesFrom(1, a) + 1 /\ FramesFrom(1, a) \in Nat
    <3>1. FramesFrom(a, b) = 1
      <4>1. a + Marks[a].size <= Len(Marks) + 1
        BY <1>5, <2>1, <2>2
      <4> QED
        BY <1>5, <2>1, <4>1, OneFrame
    <3>2. 1 \in Nat /\ 1 <= a /\ a <= b
      BY <1>5, <2>2
    <3> QED
      BY <1>5, <3>1, <3>2, CountAdds
  <2>7. ASSUME NEW t \in 1 .. (Modulus - 1), OnTime(t, curPTS, a) PROVE OnTime(t, pts, b)
    <3>1. PICK l \in 0 .. Broadcasts[kind].waiting : curPTS = DueAfter(t, FramesFrom(1, a) + l)
      BY <2>7 DEF OnTime
    <3>2. /\ FramesFrom(1, a) + l \in Nat /\ t \in Nat
          /\ (FramesFrom(1, a) + l) + 1 = FramesFrom(1, b) + l
      BY <2>6
    <3>3. pts = DueAfter(t, FramesFrom(1, b) + l)
      BY <3>1, <3>2, DueNext
    <3> QED
      BY <3>3 DEF OnTime
  <2>8. /\ Len(sent') = Len(sent) + 1 /\ sent'[Len(sent) + 1] = new /\ Len(sent) \in Nat
        /\ \A i \in 1 .. Len(sent) : sent'[i] = sent[i]
    <3>1. sent \in Seq([data : Seq(1 .. (next - 1)) \ {<<>>}, pts : Stamps])
      BY DEF ParserInv, ParserTypeOK
    <3>2. sent' = Append(sent, new)
      BY <1>8
    <3> HIDE DEF new
    <3> QED
      BY <3>1, <3>2, AppendProperties, LenProperties
  <2>9. new.pts = curPTS /\ \A o \in Frames : new.data = Units(o[1], o[2]) => o[1] = a
    <3>1. <<a, a + Marks[a].size - 1>> \in Frames
      BY <1>5, FramesAre
    <3>2. Units(a, a + Marks[a].size - 1)[1] = a
      BY <1>5, <3>1, FramesAre
    <3> QED
      BY <1>5, <3>2, FramesAre
  <2> HIDE DEF pts, new
  <2>10. /\ Len(buffer') = next' - b
         /\ \E r \in 0 .. Len(buffer') : Short(r) /\ Len(buffer') <= r + Payload
         /\ next' # 1
         /\ \A t \in 1 .. (Modulus - 1) :
              Stamped(t) /\ OnTime(t, pts, b) => OnTime(t, curPTS', b)
    BY <1>1, <1>3, <2>2, <2>3, <2>4, <2>5, RestOnTime
  <2>11. next' - Len(buffer') = b
    BY <1>1, <2>1, <2>10 DEF FramesContext
  <2>12. ASSUME NEW t \in 1 .. (Modulus - 1), Stamped(t)
         PROVE  /\ OnTime(t, curPTS', b)
                /\ \A i \in 1 .. Len(sent') : \A o \in Frames :
                     sent'[i].data = Units(o[1], o[2]) => OnTime(t, sent'[i].pts, o[1])
    <3>1. OnTime(t, curPTS, a)
      BY <1>7, <2>2, <2>12
    <3>2. OnTime(t, curPTS', b)
      BY <2>7, <2>10, <2>12, <3>1
    <3>3. ASSUME NEW i \in 1 .. Len(sent'), NEW o \in Frames, sent'[i].data = Units(o[1], o[2])
          PROVE  OnTime(t, sent'[i].pts, o[1])
      <4>1. CASE i \in 1 .. Len(sent)
        BY <1>7, <2>8, <2>12, <3>3, <4>1 DEF Is
      <4>2. CASE i = Len(sent) + 1
        BY <2>8, <2>9, <3>1, <3>3, <4>2
      <4> QED
        BY <2>8, <4>1, <4>2
    <3> QED
      BY <3>2, <3>3
  <2> QED
    BY <2>10, <2>11, <2>12
<1>9. CASE /\ UNCHANGED sent /\ PutData(buffer, curPTS)
           /\ \/ Len(buffer) = 0 \/ Len(buffer) < Margin
              \/ a < next /\ Marks[a].size > Len(buffer)
  <2>1. Short(next - a)
    <3>1. CASE Len(buffer) = 0 \/ Len(buffer) < Margin
      BY <1>6, <3>1 DEF Short
    <3>2. CASE Marks[a].size > Len(buffer)
      <4>1. Marks[a].size \in Nat
        BY <1>5, Row
      <4>2. next - a < Marks[a].size
        BY <1>6, <3>2, <4>1
      <4> QED
        BY <1>5, <4>2 DEF Short
    <3> QED
      BY <1>9, <3>1, <3>2
  <2>2. /\ Len(buffer') = next' - a
        /\ \E r \in 0 .. Len(buffer') : Short(r) /\ Len(buffer') <= r + Payload
        /\ next' # 1
        /\ \A t \in 1 .. (Modulus - 1) :
             /\ Stamped(t)
             /\ IF next = 1 THEN curPTS = NoPts ELSE OnTime(t, curPTS, a)
             => OnTime(t, curPTS', a)
    <3>1. PutData(Units(a, next - 1), curPTS) /\ next - a <= BufferSize
      BY <1>5, <1>6, <1>9
    <3> QED
      BY <1>1, <1>3, <1>5, <2>1, <3>1, RestOnTime
  <2>3. next' - Len(buffer') = a
    BY <1>1, <1>5, <2>2 DEF FramesContext
  <2> QED
    BY <1>7, <1>9, <2>2, <2>3 DEF Is
<1> QED
  BY <1>1, <1>4, <1>8, <1>9, FrameTaken

LEMMA TimesStep ==
  ParserInv /\ FramesInv /\ TimeInv /\ [ParserNext]_parserVars => TimeInv'
<1> SUFFICES ASSUME ParserInv, FramesInv, TimeInv, [ParserNext]_parserVars,
                    (kind \in Framed /\ Tiled /\ Punctual /\ gone = {})'
             PROVE  (/\ ArrivesShort
                     /\ \A t \in 1 .. (Modulus - 1) : Stamped(t) =>
                          /\ IF next = 1 THEN curPTS = NoPts ELSE OnTime(t, curPTS, Front)
                          /\ \A i \in 1 .. Len(sent) : \A o \in Frames :
                               Is(i, o) => OnTime(t, sent[i].pts, o[1]))'
  BY DEF TimeInv
<1>1. kind' = kind
  BY DEF ParserNext, Arrive, LosePacket, parserVars
<1>2. /\ Marks' = Marks /\ Pes' = Pes /\ Frames' = Frames
      /\ kind \in Framed /\ Tiled /\ gone' = {}
  BY <1>1 DEF Tiled, Frames, Marks, Pes
<1>3. Punctual /\ \A t \in 1 .. (Modulus - 1) : Stamped(t)' => Stamped(t)
  BY <1>1, <1>2 DEF Punctual, Stamped, Short, FramesFrom
<1>4. CASE UNCHANGED parserVars
  <2>1. UNCHANGED <<next, buffer, curPTS, sent, gone>>
    BY <1>4 DEF parserVars
  <2>2. /\ ArrivesShort
        /\ \A t \in 1 .. (Modulus - 1) : Stamped(t) =>
             /\ IF next = 1 THEN curPTS = NoPts ELSE OnTime(t, curPTS, Front)
             /\ \A i \in 1 .. Len(sent) : \A o \in Frames : Is(i, o) => OnTime(t, sent[i].pts, o[1])
    BY <1>2, <1>3, <2>1 DEF TimeInv
  <2> QED
    BY <1>1, <1>2, <1>3, <2>1, <2>2 DEF ArrivesShort, Short, OnTime, Front, FramesFrom, Is
<1>5. CASE Arrive
  <2>1. /\ \E r \in 0 .. Len(buffer') : Short(r) /\ Len(buffer') <= r + Payload
        /\ next' # 1
        /\ \A t \in 1 .. (Modulus - 1) : Stamped(t) =>
             /\ OnTime(t, curPTS', next' - Len(buffer'))
             /\ \A i \in 1 .. Len(sent') : \A o \in Frames :
                  sent'[i].data = Units(o[1], o[2]) => OnTime(t, sent'[i].pts, o[1])
    BY <1>2, <1>3, <1>5, TimesArrive
  <2> QED
    BY <1>1, <1>2, <1>3, <2>1 DEF ArrivesShort, Short, OnTime, Front, FramesFrom, Is
<1>6. CASE LosePacket
  <2>1. next \in 1 .. Len(Marks) /\ kind \in DOMAIN Broadcasts
    <3>1. next \in 1 .. (Len(Marks) + 1) /\ kind \in DOMAIN Broadcasts
      BY DEF ParserInv, ParserTypeOK
    <3>2. Len(Marks) \in Nat
      BY <3>1, Row
    <3> QED
      BY <1>6, <3>1, <3>2 DEF LosePacket
  <2>2. LastOfPacket \in next .. Len(Marks) /\ next \in next .. LastOfPacket
    BY <2>1, NextPacket
  <2> QED
    BY <1>2, <1>6, <2>2 DEF LosePacket
<1> QED
  BY <1>4, <1>5, <1>6 DEF ParserNext

LEMMA InitTimes == ParserInit => TimeInv
<1> SUFFICES ASSUME ParserInit PROVE TimeInv
  OBVIOUS
<1>1. next = 1 /\ curPTS = NoPts /\ Len(buffer) = 0 /\ Len(sent) = 0
  BY DEF ParserInit
<1>2. ArrivesShort
  BY <1>1, Parameters DEF ArrivesShort, Short
<1> QED
  BY <1>1, <1>2 DEF TimeInv

(* A time stamp of a frame that can wait is no further ahead.              *)
LEMMA LeadOfWaiting ==
  ASSUME NEW t \in 1 .. (Modulus - 1), NEW n \in Nat, NEW w \in Nat, NEW l \in 0 .. w
  PROVE  (DueAfter(t, n + l) + Modulus - DueAfter(t, n)) % Modulus <= Duration * w
<1> DEFINE x == t + Duration * n
           y == Duration * l
<1>1. /\ Duration \in Nat /\ Duration * n \in Nat /\ y \in Nat /\ l \in Nat
      /\ Duration * (n + l) = Duration * n + y
  BY Parameters
<1>2. Duration * l <= Duration * w /\ Duration * w \in Nat
  BY <1>1, Times
<1>3. x \in Nat /\ t + Duration * (n + l) = x + y
  <2>1. t \in Nat
    OBVIOUS
  <2> HIDE DEF y
  <2> QED
    BY <1>1, <2>1
<1>4. DueAfter(t, n + l) = (x + y) % Modulus /\ DueAfter(t, n) = x % Modulus
  BY <1>3 DEF DueAfter
<1>5. (((x + y) % Modulus) + Modulus - (x % Modulus)) % Modulus <= y
  <2> HIDE DEF x, y
  <2> QED
    BY <1>1, <1>3, Parameters, RemainderDiff
<1>6. (DueAfter(t, n + l) + Modulus - DueAfter(t, n)) % Modulus \in Nat
  <2>1. /\ DueAfter(t, n + l) \in 0 .. (Modulus - 1) /\ DueAfter(t, n) \in 0 .. (Modulus - 1)
        /\ Modulus \in Nat \ {0}
    <3>1. n + l \in Nat /\ t \in Nat
      OBVIOUS
    <3> QED
      BY <3>1, DueNext, Parameters
  <2>2. DueAfter(t, n + l) + Modulus - DueAfter(t, n) \in Nat
    BY <2>1
  <2>3. ASSUME NEW a \in Nat PROVE a % Modulus \in Nat
    BY <2>1
  <2> QED
    BY <2>2, <2>3
<1>7. (DueAfter(t, n + l) + Modulus - DueAfter(t, n)) % Modulus <= y
  BY <1>4, <1>5
<1> HIDE DEF x
<1> QED
  BY <1>1, <1>2, <1>6, <1>7

(* The frames of a broadcast are due where the first one is due at t.      *)
LEMMA DueIs ==
  ASSUME kind \in DOMAIN Broadcasts, NEW t \in 1 .. (Modulus - 1), Stamped(t), NEW o \in Frames,
         Dated(o) # {}
  PROVE  Due(o) = DueAfter(t, FramesFrom(1, o[1])) /\ FramesFrom(1, o[1]) \in Nat
<1> DEFINE last == CHOOSE n \in Dated(o) : \A m \in Dated(o) : m <= n
           p == Pes[last]
           before == FramesFrom(1, p.start)
           within == FramesFrom(p.start, o[1])
<1>1. o[1] \in 1 .. Len(Marks) /\ o[1] \in Nat
  BY FramesAre
<1>2. /\ last \in DOMAIN Pes /\ p.start <= o[1] /\ p.start \in Nat /\ 1 <= p.start
      /\ p.pts # NoPts
  <2>1. last \in DOMAIN Pes /\ p.start <= o[1] /\ p.pts # NoPts
    <3>1. DOMAIN Pes = 1 .. Len(Pes) /\ Len(Pes) \in Nat
      BY Row
    <3>2. Dated(o) \subseteq 1 .. Len(Pes) /\ Dated(o) \subseteq Nat
      BY <3>1 DEF Dated
    <3>3. IsFiniteSet(Dated(o))
      <4>1. Len(Pes) \in Int /\ 1 \in Int
        BY <3>1
      <4>2. IsFiniteSet(1 .. Len(Pes))
        BY <4>1, FS_Interval
      <4> QED
        BY <3>2, <4>2, FS_Subset
    <3>4. \E n \in Dated(o) : \A m \in Dated(o) : m <= n
      BY <3>2, <3>3, GreatestMember
    <3>5. last \in Dated(o)
      BY <3>4
    <3> HIDE DEF last
    <3> QED
      BY <3>5 DEF Dated
  <2> HIDE DEF last
  <2>2. p.start \in Nat \ {0}
    BY <2>1, Row
  <2> QED
    BY <2>1, <2>2
<1>3. before \in Nat /\ within \in Nat /\ FramesFrom(1, o[1]) = before + within
  <2>1. PICK u \in Nat : u = p.start
    BY <1>2
  <2>2. 1 \in Nat /\ 1 <= u /\ u <= o[1] /\ o[1] <= o[1]
    BY <1>1, <1>2, <2>1
  <2> HIDE DEF p
  <2>3. FramesFrom(1, o[1]) = FramesFrom(1, u) + FramesFrom(u, o[1])
    BY <1>1, <2>2, CountAdds
  <2>4. FramesFrom(1, u) \in Nat /\ FramesFrom(u, o[1]) \in Nat
    BY <1>1, <2>2, CountAdds
  <2> QED
    BY <2>1, <2>3, <2>4
<1>4. p.pts = DueAfter(t, before)
  BY <1>2 DEF Stamped
<1>5. Due(o) = PtsAdd(p.pts, Duration * within)
  BY DEF Due
<1> HIDE DEF before, within, p, last
<1> DEFINE d == Duration * before
           e == Duration * within
<1>6. d \in Nat /\ e \in Nat /\ Duration * (before + within) = d + e /\ t \in Nat
  BY <1>3, Parameters
<1>7. p.pts = (t + d) % Modulus /\ p.pts # NoPts
  <2>1. p.pts = (t + d) % Modulus
    BY <1>4 DEF DueAfter
  <2>2. p.pts \in 0 .. (Modulus - 1)
    BY <1>3, <1>4, <1>6, DueNext
  <2> QED
    BY <2>1, <2>2, Parameters DEF NoPts
<1> HIDE DEF d, e
<1>8. Due(o) = (((t + d) % Modulus) + e) % Modulus
  BY <1>5, <1>7 DEF PtsAdd, e
<1>9. t + d \in Nat /\ t + (d + e) = (t + d) + e
  BY <1>6
<1>10. (((t + d) % Modulus) + e) % Modulus = ((t + d) + e) % Modulus
  BY <1>6, <1>9, Parameters, RemainderPlus
<1>11. DueAfter(t, before + within) = (t + (d + e)) % Modulus
  BY <1>6 DEF DueAfter
<1> QED
  BY <1>3, <1>8, <1>9, <1>10, <1>11

(* Where PES packets have their time stamps, or none, no frame has that of *)
(* an earlier one, and none is further ahead than the frames that wait in  *)
(* the buffer when a PES packet starts (parser.c: PutData takes the time   *)
(* stamp of a PES packet before the frames of the one before it are sent), *)
(* also when time stamps start over.                                       *)
THEOREM FramesOnTime == ParserSpec => [](kind \in Framed /\ Tiled /\ Punctual => RightTime)
<1>1. ParserInit => ParserInv /\ FramesInv /\ TimeInv
  BY InitParserInv, InitFramesInv, InitTimes
<1>2. ParserInv /\ FramesInv /\ TimeInv /\ [ParserNext]_parserVars =>
        ParserInv' /\ FramesInv' /\ TimeInv'
  BY ParserStep, FramesStep, TimesStep
<1>3. ParserInv /\ FramesInv /\ TimeInv => (kind \in Framed /\ Tiled /\ Punctual => RightTime)
  <2> SUFFICES ASSUME ParserInv, TimeInv, kind \in Framed, Tiled, Punctual, gone = {},
                      NEW i \in DOMAIN sent, NEW o \in Frames, Is(i, o), Dated(o) # {}
               PROVE  Lead(i, o) <= Duration * Broadcasts[kind].waiting
    BY DEF RightTime
  <2>1. DOMAIN sent = 1 .. Len(sent) /\ kind \in DOMAIN Broadcasts
    BY LenProperties DEF ParserInv, ParserTypeOK
  <2>2. PICK t \in 1 .. (Modulus - 1) : Stamped(t)
    BY DEF Punctual
  <2>3. OnTime(t, sent[i].pts, o[1])
    BY <2>1, <2>2 DEF TimeInv
  <2>4. PICK l \in 0 .. Broadcasts[kind].waiting : sent[i].pts = DueAfter(t, FramesFrom(1, o[1]) + l)
    BY <2>3 DEF OnTime
  <2>5. Due(o) = DueAfter(t, FramesFrom(1, o[1])) /\ FramesFrom(1, o[1]) \in Nat
    BY <2>1, <2>2, DueIs
  <2>6. Broadcasts[kind].waiting \in Nat
    BY <2>1, ParserAssumption DEF IsBroadcast
  <2> QED
    BY <2>4, <2>5, <2>6, LeadOfWaiting DEF Lead
<1> QED
  BY <1>1, <1>2, <1>3, PTL DEF ParserSpec
-----------------------------------------------------------------------------
(***************************************************************************)
(* Frames are sent in order, whatever is lost.                             *)
(***************************************************************************)
Ahead(s, t) == \A x \in 1 .. Len(s) : \A y \in 1 .. Len(t) : s[x] < t[y]

NothingTwice == \A i, j \in 1 .. Len(sent) : i < j => Ahead(sent[i].data, sent[j].data)

OrderInv ==
  kind \in Framed => NothingTwice /\ \A i \in 1 .. Len(sent) : Ahead(sent[i].data, buffer)

\* What was sent is ahead of what is left, and of the TS packet behind it.
LEMMA PutAhead ==
  ASSUME ParserInv, next \in 1 .. Len(Marks), NEW rest \in Seq(1 .. (next - 1)), NEW pts,
         PutData(rest, pts), NEW s \in Seq(1 .. (next - 1)), Ahead(s, rest)
  PROVE  Ahead(s, buffer')
<1>1. /\ next \in Nat /\ Len(s) \in Nat /\ Len(rest) \in Nat /\ Len(Data) \in Nat
      /\ \A x \in 1 .. Len(s) : s[x] \in Nat /\ s[x] < next
      /\ \A y \in 1 .. Len(Data) : Data[y] \in Nat /\ Data[y] >= next
      /\ Data \in Seq(Nat) /\ rest \in Seq(Nat)
  <2>1. /\ kind \in DOMAIN Broadcasts /\ next \in Nat /\ next - 1 \in Nat
    BY Row DEF ParserInv, ParserTypeOK
  <2>2. LastOfPacket \in Nat /\ Data \in Seq(next .. LastOfPacket)
    BY <2>1, NextPacket
  <2>3. next .. LastOfPacket \subseteq Nat /\ 1 .. (next - 1) \subseteq Nat
    BY <2>1
  <2>4. Data \in Seq(Nat) /\ rest \in Seq(Nat)
    BY <2>2, <2>3, SeqMonotonic
  <2>5. ASSUME NEW x \in 1 .. Len(s) PROVE s[x] \in Nat /\ s[x] < next
    <3>1. s[x] \in 1 .. (next - 1)
      BY ElementOfSeq
    <3> QED
      BY <2>1, <3>1
  <2>6. ASSUME NEW y \in 1 .. Len(Data) PROVE Data[y] \in Nat /\ Data[y] >= next
    <3>1. Data[y] \in next .. LastOfPacket
      BY <2>2, ElementOfSeq
    <3> QED
      BY <2>1, <2>2, <3>1
  <2> QED
    BY <2>1, <2>2, <2>4, <2>5, <2>6, LenProperties
<1>2. \/ buffer' = rest
      \/ buffer' = <<>>
      \/ buffer' = rest \o Data
  BY DEF PutData, Filled
<1>3. CASE buffer' = rest
  BY <1>3
<1>4. CASE buffer' = <<>>
  <2>1. Len(buffer') = 0
    BY <1>4
  <2> QED
    BY <2>1 DEF Ahead
<1>5. CASE buffer' = rest \o Data
  <2>1. /\ Len(buffer') = Len(rest) + Len(Data)
        /\ \A i \in 1 .. Len(rest) + Len(Data) :
             buffer'[i] = IF i <= Len(rest) THEN rest[i] ELSE Data[i - Len(rest)]
    BY <1>1, <1>5, ConcatProperties
  <2>2. ASSUME NEW x \in 1 .. Len(s), NEW y \in 1 .. Len(buffer') PROVE s[x] < buffer'[y]
    <3>1. CASE y <= Len(rest)
      <4>1. y \in 1 .. Len(rest)
        BY <1>1, <2>1, <3>1
      <4> QED
        BY <2>1, <3>1, <4>1 DEF Ahead
    <3>2. CASE ~(y <= Len(rest))
      <4>1. y - Len(rest) \in 1 .. Len(Data) /\ buffer'[y] = Data[y - Len(rest)]
        BY <1>1, <2>1, <3>2
      <4>2. s[x] \in Nat /\ s[x] < next
        BY <1>1
      <4>3. Data[y - Len(rest)] \in Nat /\ Data[y - Len(rest)] >= next
        BY <1>1, <4>1
      <4>4. next \in Nat
        BY <1>1
      <4>5. s[x] < Data[y - Len(rest)]
        BY <4>2, <4>3, <4>4
      <4> QED
        BY <4>1, <4>5
    <3> QED
      BY <3>1, <3>2
  <2> QED
    BY <2>2 DEF Ahead
<1> QED
  BY <1>2, <1>3, <1>4, <1>5

LEMMA CutIs ==
  ASSUME ParserInv, NEW n \in 0 .. Len(buffer)
  PROVE  /\ Len(Cut(buffer, n)) = Len(buffer) - n /\ Len(buffer) \in Nat
         /\ \A y \in 1 .. (Len(buffer) - n) :
              n + y \in 1 .. Len(buffer) /\ Cut(buffer, n)[y] = buffer[n + y]
<1>1. buffer \in Seq(1 .. (next - 1)) /\ Len(buffer) \in Nat
  BY LenProperties DEF ParserInv, ParserTypeOK
<1>2. n + 1 \in 1 .. Len(buffer) + 1 /\ Len(buffer) \in 0 .. Len(buffer)
  BY <1>1
<1>3. /\ Len(Cut(buffer, n)) = IF n + 1 <= Len(buffer) THEN Len(buffer) + 1 - (n + 1) ELSE 0
      /\ \A y \in 1 .. (Len(buffer) + 1 - (n + 1)) : Cut(buffer, n)[y] = buffer[(n + 1) + y - 1]
  BY <1>1, <1>2, PartIn DEF Cut
<1>4. \A y \in 1 .. (Len(buffer) - n) :
        /\ y \in 1 .. (Len(buffer) + 1 - (n + 1)) /\ (n + 1) + y - 1 = n + y
        /\ n + y \in 1 .. Len(buffer)
  BY <1>1
<1> QED
  BY <1>1, <1>3, <1>4

LEMMA OrderArrive ==
  ASSUME ParserInv, OrderInv, kind \in Framed, Arrive
  PROVE  NothingTwice' /\ \A i \in 1 .. Len(sent') : Ahead(sent'[i].data, buffer')
<1>1. FramesContext /\ ParseFrames /\ next \in 1 .. Len(Marks)
  BY FramesArriving DEF FramesContext
<1>2. /\ buffer \in Seq(1 .. (next - 1)) /\ Len(buffer) \in Nat /\ Rising(buffer)
      /\ sent \in Seq([data : Seq(1 .. (next - 1)) \ {<<>>}, pts : Stamps]) /\ Len(sent) \in Nat
  BY LenProperties DEF ParserInv, ParserTypeOK
<1>3. ASSUME NEW i \in 1 .. Len(sent) PROVE sent[i].data \in Seq(1 .. (next - 1))
  <2>1. sent[i] \in [data : Seq(1 .. (next - 1)) \ {<<>>}, pts : Stamps]
    BY <1>2, ElementOfSeq
  <2> QED
    BY <2>1
<1>4. NothingTwice /\ \A i \in 1 .. Len(sent) : Ahead(sent[i].data, buffer)
  BY DEF OrderInv
<1>5. ASSUME NEW n \in 0 .. Len(buffer), NEW i \in 1 .. Len(sent)
      PROVE  Ahead(sent[i].data, Cut(buffer, n))
  BY <1>4, CutIs DEF Ahead
<1>6. ASSUME NEW n \in 0 .. Len(buffer), NEW pts, PutData(Cut(buffer, n), pts),
             NEW i \in 1 .. Len(sent)
      PROVE  Ahead(sent[i].data, buffer')
  <2>1. Cut(buffer, n) \in Seq(1 .. (next - 1))
    BY CutTypes
  <2> QED
    BY <1>1, <1>3, <1>5, <1>6, <2>1, PutAhead
<1>7. CASE Complete /\ SendFrame /\ PutData(Taken(FrameSize(0)), PtsAdd(curPTS, Duration))
  <2> DEFINE z == FrameSize(0)
             frame == SubSeq(buffer, 1, z)
             new == [data |-> frame, pts |-> curPTS]
             pts == PtsAdd(curPTS, Duration)
             L == Len(sent)
  <2>1. z \in 1 .. Len(buffer) /\ frame \in Seq(1 .. (next - 1))
    BY <1>7, CompleteFrame
  <2>2. sent' = Append(sent, new) /\ PutData(Cut(buffer, z), pts) /\ new.data = frame
    BY <1>7 DEF SendFrame, Taken
  <2>3. z \in Nat /\ z \in 0 .. Len(buffer)
    BY <1>2, <2>1
  <2> HIDE DEF z, pts, new
  <2>4. Cut(buffer, z) \in Seq(1 .. (next - 1))
    BY <2>3, CutTypes
  <2>5. Len(frame) = z /\ \A x \in 1 .. z : frame[x] = buffer[x] /\ x \in 1 .. Len(buffer)
    <3>1. 1 \in 1 .. Len(buffer) + 1
      BY <1>2
    <3>2. /\ Len(frame) = IF 1 <= z THEN z + 1 - 1 ELSE 0
          /\ \A x \in 1 .. (z + 1 - 1) : frame[x] = buffer[1 + x - 1]
      BY <1>2, <2>3, <3>1, PartIn
    <3>3. \A x \in 1 .. z : /\ x \in 1 .. (z + 1 - 1) /\ 1 + x - 1 = x
                            /\ x \in 1 .. Len(buffer)
      BY <1>2, <2>1, <2>3
    <3> QED
      BY <2>1, <2>3, <3>2, <3>3
  <2>6. Ahead(frame, Cut(buffer, z))
    <3>1. ASSUME NEW x \in 1 .. z, NEW y \in 1 .. (Len(buffer) - z) PROVE frame[x] < Cut(buffer, z)[y]
      <4>1. x \in 1 .. Len(buffer) /\ frame[x] = buffer[x]
        BY <2>5
      <4>2. z + y \in 1 .. Len(buffer) /\ Cut(buffer, z)[y] = buffer[z + y]
        BY <2>3, CutIs
      <4>3. x < z + y
        BY <1>2, <2>3
      <4> QED
        BY <1>2, <4>1, <4>2, <4>3 DEF Rising
    <3>2. Len(Cut(buffer, z)) = Len(buffer) - z
      BY <2>3, CutIs
    <3> QED
      BY <2>5, <3>1, <3>2 DEF Ahead
  <2>7. Ahead(frame, buffer')
    BY <1>1, <2>1, <2>2, <2>4, <2>6, PutAhead
  <2>8. \A i \in 1 .. L : Ahead(sent[i].data, buffer')
    BY <1>6, <2>2, <2>3
  <2>9. \A i \in 1 .. L : Ahead(sent[i].data, frame)
    BY <1>4, <2>5 DEF Ahead
  <2>10. /\ Len(sent') = L + 1 /\ sent'[L + 1] = new /\ L \in Nat
         /\ \A i \in 1 .. L : sent'[i] = sent[i]
    BY <1>2, <2>2, AppendProperties
  <2> HIDE DEF frame, L
  <2>11. ASSUME NEW i \in 1 .. Len(sent') PROVE Ahead(sent'[i].data, buffer')
    <3>1. CASE i \in 1 .. L
      BY <2>8, <2>10, <3>1
    <3>2. CASE i = L + 1
      BY <2>2, <2>7, <2>10, <3>2
    <3> QED
      BY <2>10, <3>1, <3>2
  <2>12. ASSUME NEW i \in 1 .. Len(sent'), NEW j \in 1 .. Len(sent'), i < j
         PROVE  Ahead(sent'[i].data, sent'[j].data)
    <3>1. i \in 1 .. L
      BY <2>10, <2>12
    <3>2. CASE j \in 1 .. L
      BY <1>4, <2>10, <2>12, <3>1, <3>2 DEF NothingTwice, L
    <3>3. CASE j = L + 1
      BY <2>2, <2>9, <2>10, <3>1, <3>3
    <3> QED
      BY <2>10, <3>2, <3>3
  <2>13. NothingTwice'
    BY <2>12 DEF NothingTwice, Ahead
  <2> QED
    BY <2>11, <2>13
<1>8. ASSUME NEW n \in 0 .. Len(buffer), PutData(Cut(buffer, n), curPTS), UNCHANGED sent
      PROVE  NothingTwice' /\ \A i \in 1 .. Len(sent') : Ahead(sent'[i].data, buffer')
  BY <1>4, <1>6, <1>8 DEF NothingTwice, Ahead
<1>9. CASE PutData(buffer, curPTS) /\ UNCHANGED sent
  <2>1. Cut(buffer, 0) = buffer /\ 0 \in 0 .. Len(buffer)
    <3>1. SubSeq(buffer, 1, Len(buffer)) = buffer
      BY <1>2, SubSeqFull
    <3> QED
      BY <1>2, <3>1 DEF Cut
  <2> QED
    BY <1>8, <1>9, <2>1
<1>10. CASE PutData(Cut(buffer, FindAlignmentOffset), curPTS) /\ UNCHANGED sent
  <2>1. FindAlignmentOffset \in 0 .. Len(buffer)
    BY <1>2, OffsetWithinBuffer
  <2> QED
    BY <1>8, <1>10, <2>1
<1> QED
  BY <1>1, <1>7, <1>9, <1>10 DEF ParseFrames

LEMMA OrderStep == ParserInv /\ OrderInv /\ [ParserNext]_parserVars => OrderInv'
<1> SUFFICES ASSUME ParserInv, OrderInv, [ParserNext]_parserVars, kind' \in Framed PROVE OrderInv'
  BY DEF OrderInv
<1>1. kind \in Framed
  BY DEF ParserNext, Arrive, LosePacket, parserVars
<1>2. CASE Arrive
  BY <1>1, <1>2, OrderArrive DEF OrderInv, Ahead
<1>3. CASE UNCHANGED <<kind, buffer, sent>>
  BY <1>3 DEF OrderInv, NothingTwice, Ahead
<1> QED
  BY <1>2, <1>3 DEF ParserNext, LosePacket, parserVars

LEMMA FramesOrdered ==
  ASSUME ParserInv, kind \in Framed, NothingTwice
  PROVE  InBroadcastOrder
<1> SUFFICES ASSUME NEW i \in DOMAIN sent, NEW j \in DOMAIN sent, NEW o \in Owed, NEW q \in Owed,
                    Is(i, o), Is(j, q), i < j
             PROVE  o[1] <= q[1]
  BY DEF InBroadcastOrder
<1>1. /\ DOMAIN sent = 1 .. Len(sent) /\ kind \in DOMAIN Broadcasts
      /\ sent \in Seq([data : Seq(1 .. (next - 1)) \ {<<>>}, pts : Stamps])
  BY LenProperties DEF ParserInv, ParserTypeOK
<1>2. o \in Frames /\ q \in Frames
  BY DEF Owed
<1>3. /\ o[1] \in Nat /\ q[1] \in Nat /\ o[1] <= o[2] /\ q[1] <= q[2] /\ o[2] \in Nat /\ q[2] \in Nat
      /\ sent[i].data[1] = o[1] /\ sent[j].data[1] = q[1]
  BY <1>1, <1>2, FramesAre DEF Is
<1>4. Len(Units(o[1], o[2])) = o[2] + 1 - o[1] /\ Len(Units(q[1], q[2])) = q[2] + 1 - q[1]
  BY <1>3 DEF Units
<1>5. 1 \in 1 .. Len(sent[i].data) /\ 1 \in 1 .. Len(sent[j].data)
  <2>1. Len(sent[i].data) = o[2] + 1 - o[1] /\ Len(sent[j].data) = q[2] + 1 - q[1]
    BY <1>4 DEF Is
  <2>2. 1 \in 1 .. (o[2] + 1 - o[1]) /\ 1 \in 1 .. (q[2] + 1 - q[1])
    BY <1>3
  <2> QED
    BY <2>1, <2>2
<1>6. sent[i].data[1] < sent[j].data[1]
  BY <1>1, <1>5 DEF NothingTwice, Ahead
<1> QED
  BY <1>3, <1>6

LEMMA InitOrderInv == ParserInit => OrderInv
<1>1. ParserInit => Len(sent) = 0
  BY DEF ParserInit
<1> QED
  BY <1>1 DEF OrderInv, NothingTwice

(* No unit is sent twice, and what is sent keeps the order of the          *)
(* broadcast, whatever TS packets are lost, wherever the parser finds the  *)
(* header of a frame again, and also when the buffer overflows (parser.c:  *)
(* Parse, ringbuffer.c: Del).                                              *)
THEOREM FramesInOrder == ParserSpec => [](kind \in Framed => NothingTwice /\ InBroadcastOrder)
<1>1. ParserInit => ParserInv /\ OrderInv
  BY InitParserInv, InitOrderInv
<1>2. ParserInv /\ OrderInv /\ [ParserNext]_parserVars => ParserInv' /\ OrderInv'
  BY ParserStep, OrderStep
<1>3. ParserInv /\ OrderInv => (kind \in Framed => NothingTwice /\ InBroadcastOrder)
  BY FramesOrdered DEF OrderInv
<1> QED
  BY <1>1, <1>2, <1>3, PTL DEF ParserSpec
-----------------------------------------------------------------------------
(***************************************************************************)
(* Frames behind a loss.                                                   *)
(***************************************************************************)
IsMark(u) == Marks[u].is \in {"frame", "fake"}

\* Among the units near a frame, places where the parser can stand, each of
\* which leads to the frame: the first unit, where it gets from any mark ahead
\* of them, behind a mark on which it stands, and at the next mark.
Leads(o, S) ==
  /\ \A u \in S : u <= o[1]
  /\ \A u \in Near(o) : u - 1 \notin Near(o) => u \in S
  /\ \A h \in DOMAIN Marks : IsMark(h) /\ h < o[1] /\ h \notin Near(o) =>
       /\ o[1] + 1 - Marks[h].size \in Near(o)
       /\ \A v \in Near(o) : v <= o[1] /\ v - Marks[h].size \notin Near(o) => v \in S
  /\ \A u \in S : u # o[1] /\ IsMark(u) => u + Marks[u].size \in S
  /\ \A u \in S : \A v \in Near(o) :
       u < v /\ v <= o[1] /\ (\A w \in u .. (v - 1) : ~IsMark(w)) => v \in S

\* Each frame is found again, from wherever a loss ahead of the units near it
\* leaves the parser, and only inside of frames are there other marks.
Recoverable ==
  /\ \A u \in DOMAIN Marks : Marks[u].is = "fake" => \E o \in Frames : o[1] < u /\ u <= o[2]
  /\ \A o \in Frames : \E S \in SUBSET Near(o) : Leads(o, S)

\* The unit at which the parser stands, with this in its buffer.
Standing(s) == IF s = <<>> THEN next ELSE s[1]

OnTrack(s) ==
  \A o \in Frames : \A S \in SUBSET Near(o) :
    Spared(o) /\ Leads(o, S) /\ Standing(s) \in Near(o) /\ Standing(s) <= o[1] => Standing(s) \in S

In(s, u) == \E i \in 1 .. Len(s) : s[i] = u

\* From its start on, the buffer holds what was not lost.
HoldsFrom(s) == s # <<>> => \A u \in s[1] .. (next - 1) : u \in gone \/ In(s, u)

\* Before the start of a PES packet has arrived nothing is in the buffer.
Starts ==
  startup => /\ buffer = <<>>
             /\ \A n \in DOMAIN Pes : Pes[n].start < next => Pes[n].start \in gone

Reached ==
  \A o \in Frames : Spared(o) /\ o[1] < next =>
    In(buffer, o[1]) \/ \E i \in 1 .. Len(sent) : Is(i, o)

FramesGenuine ==
  \A i \in 1 .. Len(sent) : (\E o \in Frames : Is(i, o)) \/ Spoilt(sent[i].data)

LossInv ==
  kind \in Framed /\ Recoverable => Starts /\ HoldsFrom(buffer) /\ OnTrack(buffer) /\ Reached /\ FramesGenuine

LEMMA RisingGap ==
  ASSUME NEW s \in Seq(Nat), Rising(s), NEW i \in 1 .. Len(s), NEW j \in 1 .. Len(s), i <= j
  PROVE  s[j] - s[i] >= j - i
<1> DEFINE f == [k \in i .. j |-> s[k]]
           S == i .. j
           T == s[i] .. s[j]
<1>1. i \in Nat /\ j \in Nat /\ Len(s) \in Nat /\ \A k \in 1 .. Len(s) : s[k] \in Nat
  BY LenProperties, ElementOfSeq
<1>2. \A k, l \in 1 .. Len(s) : (k < l => s[k] < s[l]) /\ (k <= l => s[k] <= s[l])
  BY <1>1 DEF Rising
<1>3. \A k \in S : k \in 1 .. Len(s) /\ k \in Nat /\ i <= k /\ k <= j
  BY <1>1
<1>4. f \in [S -> T]
  BY <1>1, <1>2, <1>3
<1>5. \A k, l \in S : f[k] = f[l] => k = l
  <2> SUFFICES ASSUME NEW k \in S, NEW l \in S, f[k] = f[l] PROVE k = l
    OBVIOUS
  <2>1. s[k] = s[l] /\ s[k] \in Nat
    BY <1>1, <1>3
  <2>2. ~(k < l) /\ ~(l < k)
    BY <1>2, <1>3, <2>1
  <2> QED
    BY <1>3, <2>2
<1> HIDE DEF f, S, T
<1>6. f \in Injection(S, T)
  BY <1>4, <1>5 DEF Injection, IsInjective
<1>7. /\ IsFiniteSet(T) /\ Cardinality(T) = s[j] - s[i] + 1 /\ Cardinality(S) = j - i + 1
  <2>1. s[i] \in Int /\ s[j] \in Int /\ s[i] <= s[j] /\ i \in Int /\ j \in Int
    BY <1>1, <1>2
  <2>2. IsFiniteSet(T) /\ Cardinality(T) = s[j] - s[i] + 1
    <3>1. ~(s[i] > s[j])
      BY <2>1
    <3> QED
      BY <2>1, <3>1, FS_Interval DEF T
  <2>3. Cardinality(S) = j - i + 1
    <3>1. ~(i > j)
      BY <2>1
    <3> QED
      BY <2>1, <3>1, FS_Interval DEF S
  <2> QED
    BY <2>2, <2>3
<1>8. Cardinality(S) <= Cardinality(T)
  BY <1>6, <1>7, FS_Injection
<1> QED
  BY <1>1, <1>7, <1>8

(* Where all units from a to b are in a row, b is as far from a.           *)
LEMMA PlacesBetween ==
  ASSUME NEW s \in Seq(Nat), Rising(s), NEW a \in Nat, NEW b \in Nat, a <= b,
         NEW l \in 1 .. Len(s), NEW q \in 1 .. Len(s), s[l] <= a, s[q] = b,
         \A u \in a .. b : In(s, u)
  PROVE  q - l >= b - a
<1> DEFINE S == a .. b
           T == l .. q
           place(u) == CHOOSE i \in 1 .. Len(s) : s[i] = u
           g == [u \in S |-> place(u)]
<1>1. l \in Nat /\ q \in Nat /\ Len(s) \in Nat /\ \A k \in 1 .. Len(s) : s[k] \in Nat
  BY LenProperties, ElementOfSeq
<1>2. \A k, m \in 1 .. Len(s) : k < m => s[k] < s[m]
  BY DEF Rising
<1>3. ASSUME NEW u \in S PROVE place(u) \in 1 .. Len(s) /\ s[place(u)] = u
  <2>1. \E i \in 1 .. Len(s) : s[i] = u
    BY DEF In
  <2> QED
    BY <2>1
<1> HIDE DEF place
<1>4. ASSUME NEW u \in S PROVE place(u) \in T
  <2>1. place(u) \in 1 .. Len(s) /\ s[place(u)] = u /\ u \in Nat /\ a <= u /\ u <= b
    BY <1>3
  <2>2. ~(place(u) < l)
    <3>1. place(u) < l => u < s[l]
      BY <1>2, <2>1
    <3>2. s[l] \in Nat
      BY <1>1
    <3> QED
      BY <2>1, <3>1, <3>2
  <2>3. ~(q < place(u))
    <3>1. q < place(u) => b < u
      BY <1>2, <2>1
    <3> QED
      BY <2>1, <3>1
  <2> QED
    BY <1>1, <2>1, <2>2, <2>3
<1>5. g \in [S -> T]
  BY <1>4
<1>6. \A u, v \in S : g[u] = g[v] => u = v
  <2> SUFFICES ASSUME NEW u \in S, NEW v \in S, g[u] = g[v] PROVE u = v
    OBVIOUS
  <2>1. g[u] = place(u) /\ g[v] = place(v)
    OBVIOUS
  <2> QED
    BY <1>3, <2>1
<1> HIDE DEF g, S, T
<1>7. g \in Injection(S, T)
  BY <1>5, <1>6 DEF Injection, IsInjective
<1>8. IsFiniteSet(T) /\ Cardinality(S) = b - a + 1 /\ Cardinality(T) = IF l > q THEN 0 ELSE q - l + 1
  <2>1. a \in Int /\ b \in Int /\ l \in Int /\ q \in Int
    BY <1>1
  <2> QED
    BY <2>1, FS_Interval DEF S, T
<1>9. Cardinality(S) <= Cardinality(T)
  BY <1>7, <1>8, FS_Injection
<1> QED
  BY <1>1, <1>8, <1>9

(* The units near a frame are those from some unit on up to its end.       *)
LEMMA NearProperties ==
  ASSUME kind \in DOMAIN Broadcasts, NEW o \in Frames
  PROVE  /\ Near(o) \subseteq 1 .. o[2]
         /\ \A u \in o[1] .. o[2] : u \in Near(o)
         /\ \A u \in Near(o) : \A v \in u .. o[2] : v \in Near(o)
<1> DEFINE later(u) == {f \in Frames : u < f[1] /\ f[1] <= o[1]}
<1>1. /\ \A f \in Frames : f[1] \in 1 .. Len(Marks) /\ f[1] \in Nat /\ f[2] = f[1] + Marks[f[1]].size - 1
      /\ o[1] \in 1 .. Len(Marks) /\ o[1] \in Nat /\ o[2] \in Nat /\ o[1] <= o[2] /\ Len(Marks) \in Nat
  BY FramesAre, Row
<1>2. IsFiniteSet(Frames)
  <2> DEFINE f == [p \in Frames |-> p[1]]
             T == 1 .. Len(Marks)
  <2>1. f \in [Frames -> T]
    BY <1>1
  <2>2. \A p, q \in Frames : f[p] = f[q] => p = q
    <3> SUFFICES ASSUME NEW p \in Frames, NEW q \in Frames, p[1] = q[1] PROVE p = q
      OBVIOUS
    <3> QED
      BY DEF Frames
  <2> HIDE DEF f, T
  <2>3. f \in Injection(Frames, T)
    BY <2>1, <2>2 DEF Injection, IsInjective
  <2>4. IsFiniteSet(T)
    BY <1>1, FS_Interval DEF T
  <2> QED
    BY <2>3, <2>4, FS_Injection
<1>3. \A u : IsFiniteSet(later(u))
  <2> SUFFICES ASSUME NEW u PROVE IsFiniteSet(later(u))
    OBVIOUS
  <2>1. later(u) \in SUBSET Frames
    OBVIOUS
  <2> HIDE DEF later
  <2> QED
    BY <1>2, <2>1, FS_Subset
<1>4. Near(o) = {u \in 1 .. o[2] : Cardinality(later(u)) <= 2}
  BY DEF Near
<1>5. ASSUME NEW u \in o[1] .. o[2] PROVE u \in Near(o)
  <2>1. later(u) = {}
    BY <1>1
  <2>2. Cardinality(later(u)) = 0
    BY <2>1, FS_EmptySet
  <2>3. u \in 1 .. o[2]
    BY <1>1
  <2> QED
    BY <1>4, <2>2, <2>3
<1>6. ASSUME NEW u \in Near(o), NEW v \in u .. o[2] PROVE v \in Near(o)
  <2>1. u \in 1 .. o[2] /\ Cardinality(later(u)) <= 2
    BY <1>4
  <2>2. later(v) \in SUBSET later(u)
    BY <1>1, <2>1
  <2> HIDE DEF later
  <2>3. Cardinality(later(v)) <= Cardinality(later(u))
    BY <1>3, <2>2, FS_Subset
  <2>4. Cardinality(later(v)) \in Nat /\ Cardinality(later(u)) \in Nat
    BY <1>3, FS_CardinalityType
  <2>5. v \in 1 .. o[2]
    BY <1>1, <2>1
  <2> QED
    BY <1>4, <2>1, <2>3, <2>4, <2>5
<1> QED
  BY <1>4, <1>5, <1>6

BufferContext ==
  /\ kind \in DOMAIN Broadcasts /\ next \in Nat /\ buffer \in Seq(Nat) /\ Len(buffer) \in Nat
  /\ Rising(buffer) /\ \A i \in 1 .. Len(buffer) : buffer[i] \in Nat /\ buffer[i] < next

LEMMA BufferIs == ParserInv => BufferContext
<1> SUFFICES ASSUME ParserInv PROVE BufferContext
  OBVIOUS
<1>1. /\ kind \in DOMAIN Broadcasts /\ buffer \in Seq(1 .. (next - 1)) /\ Rising(buffer)
      /\ next \in 1 .. (Len(Marks) + 1)
  BY DEF ParserInv, ParserTypeOK
<1>2. next \in Nat /\ 1 .. (next - 1) \subseteq Nat
  BY <1>1, Row
<1>3. buffer \in Seq(Nat) /\ Len(buffer) \in Nat
  BY <1>1, <1>2, SeqMonotonic, LenProperties
<1>4. ASSUME NEW i \in 1 .. Len(buffer) PROVE buffer[i] \in Nat /\ buffer[i] < next
  <2>1. buffer[i] \in 1 .. (next - 1)
    BY <1>1, ElementOfSeq
  <2> QED
    BY <1>2, <2>1
<1> QED
  BY <1>1, <1>2, <1>3, <1>4 DEF BufferContext

(* What is sent of the start of the buffer does not reach a frame behind   *)
(* it that is spared.                                                      *)
LEMMA SparedNotTaken ==
  ASSUME BufferContext, HoldsFrom(buffer), OnTrack(buffer), Recoverable, buffer # <<>>,
         NEW h, h = buffer[1], h \in DOMAIN Marks, IsMark(h), NEW o \in Frames, Spared(o), kind \in Framed,
         NEW q \in 1 .. Len(buffer), buffer[q] = o[1], h # o[1], Marks[h].size # 0
  PROVE  Marks[h].size < q
<1> DEFINE z == Marks[h].size
<1>1. /\ next \in Nat /\ 1 \in 1 .. Len(buffer) /\ h \in Nat /\ Len(buffer) \in Nat /\ q \in Nat
      /\ o[1] \in Nat /\ o[2] \in Nat /\ o[1] <= o[2] /\ o[1] < next /\ buffer \in Seq(Nat)
      /\ Rising(buffer)
  <2>1. Len(buffer) \in Nat /\ Len(buffer) # 0
    BY EmptySeq DEF BufferContext
  <2>2. 1 \in 1 .. Len(buffer)
    BY <2>1
  <2> QED
    BY <2>2, FramesAre DEF BufferContext
<1>2. z \in Nat \ {0}
  BY Row DEF BufferContext
<1>3. 1 < q /\ h < o[1]
  <2>1. q # 1
    OBVIOUS
  <2>2. 1 < q
    BY <1>1, <2>1
  <2> QED
    BY <1>1, <2>2 DEF Rising
<1>4. ASSUME NEW u \in Near(o), h <= u, u <= o[1] PROVE In(buffer, u) /\ u \in Nat
  <2>1. u \in 1 .. o[2] /\ u \notin gone
    BY NearProperties DEF BufferContext, Spared
  <2>2. u \in buffer[1] .. (next - 1)
    BY <1>1, <1>4, <2>1
  <2> QED
    BY <2>1, <2>2 DEF HoldsFrom
<1>5. ASSUME NEW a \in Near(o), h <= a, a <= o[1], NEW l \in 1 .. Len(buffer), buffer[l] <= a
      PROVE  q - l >= o[1] - a
  <2>1. a \in Nat
    BY <1>4, <1>5
  <2>2. ASSUME NEW u \in a .. o[1] PROVE In(buffer, u)
    <3>1. u \in a .. o[2] /\ h <= u /\ u <= o[1]
      <4>1. u \in Nat /\ a <= u /\ u <= o[1]
        BY <1>1, <2>1
      <4>2. u \in a .. o[2] /\ u <= o[1]
        BY <1>1, <2>1, <4>1
      <4>3. h <= u
        BY <1>1, <1>5, <2>1, <4>1
      <4> QED
        BY <4>2, <4>3
    <3>2. u \in Near(o)
      BY <3>1, NearProperties DEF BufferContext
    <3> QED
      BY <1>4, <3>1, <3>2
  <2> QED
    BY <1>1, <1>5, <2>1, <2>2, PlacesBetween
<1> HIDE DEF z
<1>6. CASE h \in Near(o)
  <2>1. h + z <= o[1]
    <3>1. PICK S \in SUBSET Near(o) : Leads(o, S)
      BY DEF Recoverable
    <3>2. h <= o[1]
      BY <1>1, <1>3
    <3>3. h \in S
      BY <1>6, <3>1, <3>2 DEF OnTrack, Standing
    <3> QED
      BY <3>1, <3>3 DEF Leads, z
  <2>2. q - 1 >= o[1] - h
    BY <1>1, <1>3, <1>5, <1>6
  <2> QED
    BY <1>1, <1>2, <2>1, <2>2 DEF z
<1>7. CASE h \notin Near(o)
  <2> DEFINE w == o[1] + 1 - z
  <2>1. w \in Near(o)
    BY <1>3, <1>7 DEF Recoverable, Leads, z
  <2>2. w \in Nat /\ w <= o[1]
    <3>1. w \in 1 .. o[2]
      BY <2>1, NearProperties DEF BufferContext
    <3> QED
      BY <1>1, <1>2, <3>1
  <2>3. h < w
    <3> SUFFICES ASSUME ~(h < w) PROVE FALSE
      OBVIOUS
    <3>1. h \in w .. o[2]
      BY <1>1, <1>3, <2>2
    <3> HIDE DEF w
    <3>2. h \in Near(o)
      BY <2>1, <3>1, NearProperties DEF BufferContext
    <3> QED
      BY <1>7, <3>2
  <2>4. o[1] - w = z - 1
    BY <1>1, <1>2
  <2> HIDE DEF w
  <2>5. PICK p \in 1 .. Len(buffer) : buffer[p] = w
    BY <1>1, <1>4, <2>1, <2>2, <2>3 DEF In
  <2>6. p \in Nat /\ p # 1 /\ 1 < p
    BY <1>1, <2>2, <2>3, <2>5
  <2>7. q - p >= o[1] - w
    <3>1. h <= w /\ w <= o[1] /\ buffer[p] <= w
      BY <1>1, <2>2, <2>3, <2>5
    <3> QED
      BY <1>5, <2>1, <3>1
  <2> QED
    BY <1>1, <1>2, <2>4, <2>6, <2>7 DEF z
<1> QED
  BY <1>6, <1>7

(* A frame at the start of the buffer is sent as it was broadcast when     *)
(* nothing of it is lost.                                                  *)
LEMMA FrameInFront ==
  ASSUME BufferContext, HoldsFrom(buffer), NEW o \in Frames, \A u \in o[1] .. o[2] : u \notin gone,
         buffer # <<>>, buffer[1] = o[1], Marks[o[1]].size <= Len(buffer)
  PROVE  SubSeq(buffer, 1, Marks[o[1]].size) = Units(o[1], o[2])
<1> DEFINE z == Marks[o[1]].size
           a == o[1]
<1>1. /\ a \in Nat /\ o[2] \in Nat /\ a <= o[2] /\ o[2] = a + z - 1 /\ z \in Nat
      /\ buffer \in Seq(Nat) /\ Rising(buffer) /\ Len(buffer) \in Nat /\ next \in Nat
  <2>1. o[1] \in 1 .. Len(Marks)
    BY FramesAre DEF BufferContext
  <2>2. z \in Nat
    BY <2>1, Row DEF BufferContext
  <2> QED
    BY <2>2, FramesAre DEF BufferContext
<1> HIDE DEF z
<1>2. /\ z \in 1 .. Len(buffer) /\ 1 \in 1 .. Len(buffer) /\ z = o[2] - a + 1
  <2>1. z <= Len(buffer)
    BY DEF z
  <2>2. z = o[2] - a + 1 /\ 1 <= z
    BY <1>1
  <2> QED
    BY <1>1, <2>1, <2>2
<1>3. o[2] < next
  <2>1. buffer[z] - buffer[1] >= z - 1
    <3>1. 1 <= z
      BY <1>2
    <3> QED
      BY <1>1, <1>2, <3>1, RisingGap
  <2>2. buffer[z] \in Nat /\ buffer[z] < next
    BY <1>2 DEF BufferContext
  <2>3. buffer[z] - a >= z - 1
    BY <2>1
  <2>4. \A x, y, w, n \in Nat : x - y >= w - 1 /\ x < n => y + w - 1 < n
    OBVIOUS
  <2>5. a + z - 1 < next
    BY <1>1, <2>2, <2>3, <2>4
  <2> QED
    BY <1>1, <2>5
<1>4. ASSUME NEW u \in a .. o[2] PROVE In(buffer, u)
  <2>1. u \notin gone /\ u \in buffer[1] .. (next - 1)
    BY <1>1, <1>3
  <2> QED
    BY <2>1 DEF HoldsFrom
<1>5. ASSUME NEW k \in 1 .. z PROVE buffer[k] = a + k - 1
  <2> DEFINE u == a + k - 1
  <2>1. u \in a .. o[2] /\ u \in Nat /\ a <= u /\ k \in Nat
    <3>1. \A x, w \in Nat : \A i \in 1 .. w :
            x + i - 1 \in x .. (x + w - 1) /\ x + i - 1 \in Nat /\ x <= x + i - 1 /\ i \in Nat
      OBVIOUS
    <3>2. u \in a .. (a + z - 1) /\ u \in Nat /\ a <= u /\ k \in Nat
      BY <1>1, <3>1
    <3> QED
      BY <1>1, <3>2
  <2> HIDE DEF u
  <2>2. PICK p \in 1 .. Len(buffer) : buffer[p] = u
    BY <1>4, <2>1 DEF In
  <2>3. p - 1 >= u - a
    <3>1. \A v \in a .. u : In(buffer, v)
      BY <1>1, <1>4, <2>1
    <3>2. buffer[1] <= a
      BY <1>1
    <3> QED
      BY <1>1, <1>2, <2>1, <2>2, <3>1, <3>2, PlacesBetween
  <2>4. u - a >= p - 1
    <3>1. 1 <= p
      BY <1>1
    <3>2. buffer[p] - buffer[1] >= p - 1
      BY <1>1, <1>2, <3>1, RisingGap
    <3> QED
      BY <2>2, <3>2
  <2>5. p = k
    BY <1>1, <2>1, <2>3, <2>4 DEF u
  <2> QED
    BY <2>2, <2>5 DEF u
<1>6. /\ SubSeq(buffer, 1, z) \in Seq(Nat) /\ Len(SubSeq(buffer, 1, z)) = z
      /\ \A i \in 1 .. z : SubSeq(buffer, 1, z)[i] = buffer[i]
  <2>1. 1 \in 1 .. Len(buffer) + 1 /\ z \in 0 .. Len(buffer) /\ 1 <= z
    BY <1>1, <1>2
  <2>2. /\ SubSeq(buffer, 1, z) \in Seq(Nat)
        /\ Len(SubSeq(buffer, 1, z)) = IF 1 <= z THEN z + 1 - 1 ELSE 0
        /\ \A i \in 1 .. (z + 1 - 1) : SubSeq(buffer, 1, z)[i] = buffer[1 + i - 1]
    BY <1>1, <2>1, PartIn
  <2>3. \A i \in 1 .. z : i \in 1 .. (z + 1 - 1) /\ 1 + i - 1 = i
    BY <1>1
  <2> QED
    BY <1>1, <2>1, <2>2, <2>3
<1>7. /\ Units(a, o[2]) \in Seq(Nat) /\ Len(Units(a, o[2])) = z
      /\ \A i \in 1 .. z : Units(a, o[2])[i] = a + i - 1
  <2>1. a <= o[2] + 1 /\ o[2] + 1 - a = z /\ a .. o[2] \subseteq Nat
    BY <1>1, <1>2
  <2>2. Units(a, o[2]) \in Seq(a .. o[2])
    BY <1>1, <2>1, UnitsProperties
  <2>3. Units(a, o[2]) \in Seq(Nat)
    BY <2>1, <2>2, SeqMonotonic
  <2> QED
    BY <1>1, <2>1, <2>3, UnitsProperties
<1>8. SubSeq(buffer, 1, z) = Units(a, o[2])
  <2>1. \A i \in 1 .. z : SubSeq(buffer, 1, z)[i] = Units(a, o[2])[i]
    BY <1>5, <1>6, <1>7
  <2> QED
    BY <1>6, <1>7, <2>1, SeqEqual
<1> QED
  BY <1>8 DEF z

(* The part of the buffer behind what is sent or deleted holds what was    *)
(* not lost, too.                                                          *)
LEMMA RestHolds ==
  ASSUME ParserInv, HoldsFrom(buffer), NEW n \in 0 .. Len(buffer)
  PROVE  /\ HoldsFrom(Cut(buffer, n))
         /\ \A q \in 1 .. Len(buffer) : n < q => In(Cut(buffer, n), buffer[q])
<1> DEFINE rest == Cut(buffer, n)
<1>1. BufferContext /\ Len(rest) = Len(buffer) - n /\ Len(buffer) \in Nat /\ n \in Nat
  BY BufferIs, CutIs
<1>2. \A y \in 1 .. (Len(buffer) - n) : n + y \in 1 .. Len(buffer) /\ rest[y] = buffer[n + y]
  BY CutIs
<1>3. rest \in Seq(1 .. (next - 1))
  BY CutTypes
<1> HIDE DEF rest
<1>4. ASSUME NEW q \in 1 .. Len(buffer), n < q PROVE In(rest, buffer[q])
  <2>1. q - n \in 1 .. (Len(buffer) - n) /\ n + (q - n) = q
    BY <1>1, <1>4
  <2>2. rest[q - n] = buffer[q] /\ q - n \in 1 .. Len(rest)
    BY <1>1, <1>2, <2>1
  <2> QED
    BY <2>2 DEF In
<1>5. ASSUME rest # <<>>, NEW u \in rest[1] .. (next - 1), u \notin gone PROVE In(rest, u)
  <2>1. Len(rest) # 0
    BY <1>3, <1>5, EmptySeq
  <2>2. 1 \in 1 .. (Len(buffer) - n)
    BY <1>1, <2>1
  <2>3. n + 1 \in 1 .. Len(buffer) /\ rest[1] = buffer[n + 1]
    BY <1>2, <2>2
  <2>4. /\ 1 \in 1 .. Len(buffer) /\ buffer[1] \in Nat /\ buffer[n + 1] \in Nat /\ next \in Nat
        /\ buffer # <<>>
    BY <1>1, <2>3 DEF BufferContext
  <2>5. buffer[1] <= buffer[n + 1]
    <3>1. CASE n = 0
      BY <2>4, <3>1
    <3>2. CASE n # 0
      <4>1. 1 < n + 1
        BY <1>1, <3>2
      <4>2. buffer[1] < buffer[n + 1]
        BY <1>1, <2>3, <2>4, <4>1 DEF BufferContext, Rising
      <4> QED
        BY <2>4, <4>2
    <3> QED
      BY <3>1, <3>2
  <2>6. u \in buffer[1] .. (next - 1) /\ u \in Nat /\ u >= buffer[n + 1]
    BY <1>5, <2>3, <2>4, <2>5
  <2>7. PICK q \in 1 .. Len(buffer) : buffer[q] = u
    BY <1>5, <2>4, <2>6 DEF HoldsFrom, In
  <2>8. ~(q < n + 1)
    <3>1. q < n + 1 => u < buffer[n + 1]
      BY <1>1, <2>3, <2>7 DEF BufferContext, Rising
    <3> QED
      BY <2>4, <2>6, <3>1
  <2>9. n < q
    BY <1>1, <2>8
  <2> QED
    BY <1>4, <2>7, <2>9
<1>6. HoldsFrom(rest)
  BY <1>5 DEF HoldsFrom
<1> QED
  BY <1>4, <1>6 DEF rest

\* What is lost stays lost.
LEMMA SparedBefore ==
  ASSUME kind' = kind, gone \subseteq gone'
  PROVE  /\ Frames' = Frames /\ Marks' = Marks /\ Pes' = Pes
         /\ \A o : Near(o)' = Near(o)
         /\ \A o, S : Leads(o, S)' = Leads(o, S)
         /\ \A o : Spared(o)' => Spared(o)
         /\ kind \in Framed => \A data : Spoilt(data) => Spoilt(data)'
<1>1. Frames' = Frames /\ Marks' = Marks /\ Pes' = Pes
  BY DEF Frames, Marks, Pes
<1>2. \A o : Near(o)' = Near(o)
  BY <1>1 DEF Near
<1>3. \A u : PesOf(u)' = PesOf(u)
  BY <1>1 DEF PesOf
<1>4. \A n : Intact(n)' => Intact(n)
  BY <1>1 DEF Intact
<1>5. ASSUME NEW o, Spared(o)' PROVE Spared(o)
  <2>1. CASE kind \in Framed
    BY <1>1, <1>2, <1>5, <2>1 DEF Spared
  <2>2. CASE kind \notin Framed
    <3>1. Intact(PesOf(o[1]))
      BY <1>3, <1>4, <1>5, <2>2 DEF Spared
    <3>2. kind = "mpeg2" =>
            \E n \in 1 .. PesOf(o[1]) :
              Intact(n) /\ \E u \in Pes[n].start .. Pes[n].stop : Marks[u].is = "sequence"
      BY <1>1, <1>3, <1>4, <1>5, <2>2 DEF Spared
    <3> QED
      BY <2>2, <3>1, <3>2 DEF Spared
  <2> QED
    BY <2>1, <2>2
<1>6. ASSUME kind \in Framed, NEW data, Spoilt(data) PROVE Spoilt(data)'
  <2>1. PICK o \in Owed : ~Spared(o) /\ \E j \in DOMAIN data : data[j] \in o[1] .. o[2]
    BY <1>6 DEF Spoilt
  <2>2. Owed' = Frames /\ Owed = Frames
    BY <1>1, <1>6 DEF Owed
  <2> QED
    BY <1>5, <1>6, <2>1, <2>2 DEF Spoilt
<1>7. \A o, S : Leads(o, S)' = Leads(o, S)
  BY <1>1, <1>2 DEF Leads, IsMark
<1> QED
  BY <1>1, <1>2, <1>5, <1>6, <1>7

\* The start of a PES packet that arrived is ahead of a frame that is spared.
LEMMA SparedStarts ==
  ASSUME kind \in DOMAIN Broadcasts, kind \in Framed, NEW o \in Frames, Spared(o)
  PROVE  /\ \A u \in o[1] .. o[2] : u \notin gone
         /\ o[1] \notin gone /\ o[2] \notin gone
         /\ \E n \in DOMAIN Pes : Pes[n].start \notin gone /\ Pes[n].start <= o[1]
<1>1. \A u \in o[1] .. o[2] : u \in Near(o)
  BY NearProperties
<1>2. o[1] \in o[1] .. o[2] /\ o[2] \in o[1] .. o[2]
  BY FramesAre
<1> QED
  BY <1>1, <1>2 DEF Spared

LEMMA LossPut ==
  ASSUME ParserInv, FramesContext, kind \in Framed, Starts, NEW rest \in Seq(1 .. (next - 1)),
         buffer = <<>> => rest = <<>>, HoldsFrom(rest), OnTrack(rest), NEW pts, PutData(rest, pts)
  PROVE  /\ Starts' /\ HoldsFrom(buffer)' /\ OnTrack(buffer)'
         /\ \A o \in Frames : Spared(o)' /\ (In(rest, o[1]) \/ o[1] \in next .. LastOfPacket) =>
              In(buffer', o[1])
<1>1. /\ kind \in DOMAIN Broadcasts /\ kind' = kind /\ next \in Nat /\ LastOfPacket \in Nat
      /\ next <= LastOfPacket /\ next' = LastOfPacket + 1 /\ next \in 1 .. Len(Marks)
      /\ next' - 1 = LastOfPacket
  BY DEF FramesContext
<1>2. /\ Len(Data) = LastOfPacket + 1 - next /\ Len(Data) \in Nat /\ Data \in Seq(Nat)
      /\ \A i \in 1 .. Len(Data) : Data[i] = next + i - 1
      /\ DOMAIN Data = 1 .. Len(Data)
  <2>1. /\ Len(Data) = LastOfPacket + 1 - next /\ Data \in Seq(next .. LastOfPacket)
        /\ \A i \in 1 .. Len(Data) : Data[i] = next + i - 1
    BY <1>1, NextPacket
  <2>2. next .. LastOfPacket \subseteq Nat
    BY <1>1
  <2> QED
    BY <1>1, <2>1, <2>2, SeqMonotonic, LenProperties
<1>3. gone \subseteq gone' /\ Pes' = Pes /\ Marks' = Marks /\ startup' = (startup /\ ~Pusi)
  BY <1>1, SparedBefore DEF PutData
<1>4. /\ rest \in Seq(Nat) /\ Len(rest) \in Nat /\ DOMAIN rest = 1 .. Len(rest)
      /\ \A i \in 1 .. Len(rest) : rest[i] \in Nat /\ rest[i] < next
  <2>1. 1 .. (next - 1) \subseteq Nat
    BY <1>1
  <2>2. \A i \in 1 .. Len(rest) : rest[i] \in 1 .. (next - 1)
    BY ElementOfSeq
  <2> QED
    BY <1>1, <2>1, <2>2, SeqMonotonic, LenProperties
<1>5. \A u \in next .. LastOfPacket : In(Data, u)
  <2> SUFFICES ASSUME NEW u \in next .. LastOfPacket PROVE In(Data, u)
    OBVIOUS
  <2>1. u - next + 1 \in 1 .. Len(Data) /\ next + (u - next + 1) - 1 = u
    BY <1>1, <1>2
  <2> QED
    BY <1>2, <2>1 DEF In
<1>6. \A o \in Frames : Spared(o)' => /\ Spared(o) /\ o[1] \notin gone'
                                      /\ \E n \in DOMAIN Pes : Pes[n].start \notin gone' /\ Pes[n].start <= o[1]
  <2> SUFFICES ASSUME NEW o \in Frames, Spared(o)'
               PROVE  /\ Spared(o) /\ o[1] \notin gone'
                      /\ \E n \in DOMAIN Pes : Pes[n].start \notin gone' /\ Pes[n].start <= o[1]
    OBVIOUS
  <2>1. Spared(o) /\ \A u \in Near(o) : u \notin gone'
    BY <1>1, <1>3, SparedBefore DEF Spared
  <2>2. \E n \in DOMAIN Pes : Pes[n].start \notin gone' /\ \A u \in Near(o) : Pes[n].start <= u
    BY <1>1, <1>3, SparedBefore DEF Spared
  <2>3. o[1] \in Near(o)
    <3>1. o[1] \in o[1] .. o[2]
      BY <1>1, FramesAre
    <3> QED
      BY <1>1, <3>1, NearProperties
  <2> QED
    BY <2>1, <2>2, <2>3
<1>10. \A o \in Frames : Spared(o)' =>
         /\ \A u \in Near(o) : u \notin gone'
         /\ \E n \in DOMAIN Pes : Pes[n].start \notin gone' /\ \A u \in Near(o) : Pes[n].start <= u
  BY <1>1, <1>3, SparedBefore DEF Spared
<1>11. ASSUME buffer' = <<>>, \A o \in Frames : Spared(o)' => LastOfPacket \notin Near(o)
       PROVE  OnTrack(buffer)'
  <2>1. Standing(buffer)' = next' /\ next' - 1 = LastOfPacket
    BY <1>1, <1>11 DEF Standing
  <2>2. ASSUME NEW o \in Frames, NEW S \in SUBSET Near(o), Spared(o)', Leads(o, S), next' \in Near(o)
        PROVE  next' \in S
    BY <1>11, <2>1, <2>2 DEF Leads
  <2>3. Frames' = Frames /\ \A o, S : Near(o)' = Near(o) /\ Leads(o, S)' = Leads(o, S)
    BY <1>1, <1>3, SparedBefore
  <2> QED
    BY <2>1, <2>2, <2>3 DEF OnTrack
<1>7. CASE startup'
  <2>1. startup /\ ~Pusi /\ buffer' = <<>> /\ rest = <<>> /\ gone' = gone
    BY <1>3, <1>7 DEF PutData, Starts
  <2>2. ASSUME NEW n \in DOMAIN Pes, Pes[n].start < next' PROVE Pes[n].start \in gone'
    <3>1. CASE Pes[n].start < next
      BY <2>1, <3>1 DEF Starts
    <3>2. CASE ~(Pes[n].start < next)
      <4>1. next <= Pes[n].start /\ Pes[n].start <= LastOfPacket
        <5>1. Pes[n].start \in Nat
          BY <1>1, Row
        <5> QED
          BY <1>1, <2>2, <3>2, <5>1
      <4> QED
        BY <1>1, <2>1, <4>1, NoStartInside
    <3> QED
      BY <3>1, <3>2
  <2>3. ASSUME NEW o \in Frames, Spared(o)', In(rest, o[1]) \/ o[1] \in next .. LastOfPacket PROVE FALSE
    <3>1. ~In(rest, o[1])
      BY <2>1 DEF In
    <3>2. PICK n \in DOMAIN Pes : Pes[n].start \notin gone' /\ Pes[n].start <= o[1]
      BY <1>6, <2>3
    <3>3. Pes[n].start \in Nat
      BY <1>1, Row
    <3>4. Pes[n].start < next'
      BY <1>1, <2>3, <3>1, <3>2, <3>3
    <3> QED
      BY <2>2, <3>2, <3>4
  <2>4. Starts'
    BY <1>3, <2>1, <2>2 DEF Starts
  <2>5. HoldsFrom(buffer)'
    BY <2>1 DEF HoldsFrom
  <2>6. ASSUME NEW o \in Frames, Spared(o)', LastOfPacket \in Near(o) PROVE FALSE
    <3>1. PICK n \in DOMAIN Pes : Pes[n].start \notin gone' /\ Pes[n].start <= LastOfPacket
      BY <1>10, <2>6
    <3>2. Pes[n].start \in Nat
      BY <1>1, Row
    <3>3. Pes[n].start < next'
      BY <1>1, <3>1, <3>2
    <3> QED
      BY <2>2, <3>1, <3>3
  <2>7. OnTrack(buffer)'
    BY <1>11, <2>1, <2>6
  <2> QED
    BY <2>3, <2>4, <2>5, <2>7
<1>8. CASE ~startup' /\ Overflow(rest)
  <2>1. buffer' = <<>> /\ gone' = gone \cup Elements(rest) \cup Elements(Data)
    BY <1>8 DEF PutData, Filled
  <2>2. ASSUME NEW o \in Frames, Spared(o)', In(rest, o[1]) \/ o[1] \in next .. LastOfPacket PROVE FALSE
    <3>1. In(rest, o[1]) \/ In(Data, o[1])
      BY <1>5, <2>2
    <3>2. o[1] \in Elements(rest) \/ o[1] \in Elements(Data)
      BY <1>2, <1>4, <3>1 DEF In, Elements
    <3> QED
      BY <1>6, <2>1, <2>2, <3>2
  <2>3. Starts' /\ HoldsFrom(buffer)'
    BY <1>8, <2>1 DEF Starts, HoldsFrom
  <2>4. ASSUME NEW o \in Frames, Spared(o)' PROVE LastOfPacket \notin Near(o)
    <3>1. In(Data, LastOfPacket)
      <4>1. LastOfPacket \in next .. LastOfPacket
        BY <1>1
      <4> QED
        BY <1>5, <4>1
    <3>2. LastOfPacket \in Elements(Data)
      BY <1>2, <3>1 DEF In, Elements
    <3> QED
      BY <1>10, <2>1, <2>4, <3>2
  <2>5. OnTrack(buffer)'
    BY <1>11, <2>1, <2>4
  <2> QED
    BY <2>2, <2>3, <2>5
<1>9. CASE ~startup' /\ ~Overflow(rest)
  <2>1. buffer' = rest \o Data /\ gone' = gone
    BY <1>9 DEF PutData, Filled
  <2>2. /\ Len(buffer') = Len(rest) + Len(Data)
        /\ \A i \in 1 .. Len(rest) + Len(Data) :
             buffer'[i] = IF i <= Len(rest) THEN rest[i] ELSE Data[i - Len(rest)]
    <3>1. rest \in Seq(Nat) /\ Data \in Seq(Nat)
      BY <1>2, <1>4
    <3>2. /\ Len(rest \o Data) = Len(rest) + Len(Data)
          /\ \A i \in 1 .. Len(rest) + Len(Data) :
               (rest \o Data)[i] = IF i <= Len(rest) THEN rest[i] ELSE Data[i - Len(rest)]
      BY <3>1, ConcatProperties
    <3> QED
      BY <2>1, <3>2
  <2>3. ASSUME NEW u, In(rest, u) \/ In(Data, u) PROVE In(buffer', u)
    <3>1. CASE In(rest, u)
      <4>1. PICK i \in 1 .. Len(rest) : rest[i] = u
        BY <3>1 DEF In
      <4>2. i \in 1 .. Len(rest) + Len(Data) /\ i <= Len(rest)
        BY <1>2, <1>4
      <4> QED
        BY <2>2, <4>1, <4>2 DEF In
    <3>2. CASE In(Data, u)
      <4>1. PICK i \in 1 .. Len(Data) : Data[i] = u
        BY <3>2 DEF In
      <4>2. /\ Len(rest) + i \in 1 .. Len(rest) + Len(Data) /\ ~(Len(rest) + i <= Len(rest))
            /\ (Len(rest) + i) - Len(rest) = i
        BY <1>2, <1>4
      <4> QED
        BY <2>2, <4>1, <4>2 DEF In
    <3> QED
      BY <2>3, <3>1, <3>2
  <2>4. ASSUME NEW u \in buffer'[1] .. LastOfPacket, u \notin gone PROVE In(buffer', u)
    <3>1. CASE u \in next .. LastOfPacket
      BY <1>5, <2>3, <3>1
    <3>2. CASE u \notin next .. LastOfPacket
      <4>1. 1 \in 1 .. Len(rest) + Len(Data)
        BY <1>1, <1>2, <1>4
      <4>2. CASE 1 <= Len(rest)
        <5>1. 1 \in 1 .. Len(rest) /\ rest # <<>> /\ buffer'[1] = rest[1]
          BY <1>4, <2>2, <4>1, <4>2
        <5>2. rest[1] \in Nat
          BY <1>4, <5>1
        <5>3. u \in rest[1] .. (next - 1)
          BY <1>1, <2>4, <3>2, <5>1, <5>2
        <5>4. In(rest, u)
          BY <2>4, <5>1, <5>3 DEF HoldsFrom
        <5> QED
          BY <2>3, <5>4
      <4>3. CASE ~(1 <= Len(rest))
        <5>1. Len(rest) = 0 /\ 1 - Len(rest) = 1 /\ 1 \in 1 .. Len(Data)
          BY <1>1, <1>2, <1>4, <4>3
        <5>2. buffer'[1] = next
          <6>1. buffer'[1] = Data[1]
            BY <2>2, <4>1, <4>3, <5>1
          <6>2. next + 1 - 1 = next
            BY <1>1
          <6> QED
            BY <1>2, <5>1, <6>1, <6>2
        <5> QED
          BY <2>4, <3>2, <5>2
      <4> QED
        BY <4>2, <4>3
    <3> QED
      BY <3>1, <3>2
  <2>5. HoldsFrom(buffer)'
    <3>1. buffer' # <<>> => \A u \in buffer'[1] .. (next' - 1) : u \in gone' \/ In(buffer', u)
      BY <1>1, <2>1, <2>4
    <3> QED
      BY <3>1 DEF HoldsFrom, In
  <2>6. Starts'
    BY <1>9 DEF Starts
  <2>7. Standing(buffer)' = Standing(rest)
    <3>1. 1 \in 1 .. Len(rest) + Len(Data) /\ buffer' # <<>>
      <4>1. Len(buffer') # 0 /\ 1 \in 1 .. Len(rest) + Len(Data)
        BY <1>1, <1>2, <1>4, <2>2
      <4> QED
        BY <4>1
    <3>2. CASE rest = <<>>
      <4>1. Len(rest) = 0 /\ 1 - Len(rest) = 1 /\ ~(1 <= Len(rest)) /\ 1 \in 1 .. Len(Data)
        BY <1>1, <1>2, <3>2
      <4>2. buffer'[1] = Data[1]
        BY <2>2, <3>1, <4>1
      <4>3. Data[1] = next
        <5>1. next + 1 - 1 = next
          BY <1>1
        <5> QED
          BY <1>2, <4>1, <5>1
      <4> QED
        BY <3>1, <3>2, <4>2, <4>3 DEF Standing
    <3>3. CASE rest # <<>>
      <4>1. Len(rest) # 0
        BY <1>4, <3>3, EmptySeq
      <4>2. 1 <= Len(rest)
        BY <1>4, <4>1
      <4>3. buffer'[1] = rest[1]
        BY <2>2, <3>1, <4>2
      <4> QED
        BY <3>1, <3>3, <4>3 DEF Standing
    <3> QED
      BY <3>2, <3>3
  <2>8. OnTrack(buffer)'
    <3>1. /\ Frames' = Frames /\ \A o, S : Near(o)' = Near(o) /\ Leads(o, S)' = Leads(o, S)
          /\ \A o : Spared(o)' => Spared(o)
      BY <1>1, <1>3, SparedBefore
    <3> QED
      BY <2>7, <3>1 DEF OnTrack
  <2> QED
    BY <1>5, <2>3, <2>5, <2>6, <2>8
<1> QED
  BY <1>7, <1>8, <1>9

(* The parser does not skip the header of a frame.                         *)
LEMMA OffsetBefore ==
  ASSUME BufferContext, NEW q \in 1 .. Len(buffer), Marks[buffer[q]].is = "frame"
  PROVE  FindAlignmentOffset < q
<1>1. Len(buffer) \in Nat /\ q \in Nat /\ 1 <= q /\ HeaderSize \in Nat
  BY Parameters DEF BufferContext
<1>2. CASE FindAlignmentOffset = 0
  BY <1>1, <1>2
<1>3. CASE FindAlignmentOffset # 0
  <2>1. /\ Got = buffer /\ FindAlignmentOffset \in Places
        /\ \A p \in Places : FindAlignmentOffset <= p
    BY <1>1, <1>3, OffsetWithinBuffer
  <2>4. q - 1 + HeaderSize < Len(buffer) => q - 1 \in Places
    <3>1. q - 1 \in 0 .. (Len(buffer) - 1) /\ (q - 1) + 1 = q
      BY <1>1
    <3>2. Aligned(q - 1)
      BY <2>1, <3>1 DEF Aligned
    <3> QED
      BY <2>1, <3>1, <3>2 DEF Places
  <2>9. FindAlignmentOffset \in Nat /\ FindAlignmentOffset + HeaderSize < Len(buffer)
    BY <1>1, <2>1 DEF Places
  <2>10. CASE q - 1 + HeaderSize < Len(buffer)
    <3>1. FindAlignmentOffset <= q - 1
      BY <2>1, <2>4, <2>10
    <3> QED
      BY <1>1, <2>9, <3>1
  <2>11. CASE ~(q - 1 + HeaderSize < Len(buffer))
    BY <1>1, <2>9, <2>11
  <2> QED
    BY <2>10, <2>11
<1> QED
  BY <1>2, <1>3

(* A frame that was reached is still there, or it was sent, or it starts   *)
(* in what is sent or deleted now.                                         *)
LEMMA LossCut ==
  ASSUME ParserInv, FramesContext, kind \in Framed, Starts, HoldsFrom(buffer), Reached,
         NEW n \in 0 .. Len(buffer), NEW pts, PutData(Cut(buffer, n), pts), OnTrack(Cut(buffer, n))
  PROVE  /\ Starts' /\ HoldsFrom(buffer)' /\ OnTrack(buffer)'
         /\ \A o \in Frames : Spared(o)' /\ o[1] < next' =>
              \/ In(buffer', o[1])
              \/ \E i \in 1 .. Len(sent) : Is(i, o)
              \/ \E q \in 1 .. n : q \in 1 .. Len(buffer) /\ buffer[q] = o[1]
<1> DEFINE rest == Cut(buffer, n)
<1>1. rest \in Seq(1 .. (next - 1)) /\ Len(rest) = Len(buffer) - n
  BY CutTypes
<1>2. buffer = <<>> => rest = <<>>
  <2>1. buffer = <<>> => Len(buffer) = 0 /\ n = 0
    OBVIOUS
  <2>2. buffer = <<>> => Len(rest) = 0
    BY <1>1, <2>1
  <2> QED
    BY <1>1, <2>2, EmptySeq
<1>3. /\ HoldsFrom(rest)
      /\ \A q \in 1 .. Len(buffer) : n < q => In(rest, buffer[q])
  BY RestHolds
<1>4. /\ kind \in DOMAIN Broadcasts /\ kind' = kind /\ next \in Nat /\ LastOfPacket \in Nat
      /\ next' = LastOfPacket + 1
  BY DEF FramesContext
<1>5. gone \subseteq gone'
  BY DEF PutData
<1>6. PutData(rest, pts) /\ OnTrack(rest)
  OBVIOUS
<1> HIDE DEF rest
<1>7. /\ Starts' /\ HoldsFrom(buffer)' /\ OnTrack(buffer)'
      /\ \A o \in Frames : Spared(o)' /\ (In(rest, o[1]) \/ o[1] \in next .. LastOfPacket) =>
           In(buffer', o[1])
  BY <1>1, <1>2, <1>3, <1>6, LossPut
<1>8. ASSUME NEW o \in Frames, Spared(o)', o[1] < next', ~In(buffer', o[1]),
             ~\E i \in 1 .. Len(sent) : Is(i, o)
      PROVE  \E q \in 1 .. n : q \in 1 .. Len(buffer) /\ buffer[q] = o[1]
  <2>1. Spared(o) /\ o[1] \in Nat
    BY <1>4, <1>5, <1>8, SparedBefore, FramesAre
  <2>2. o[1] < next /\ ~In(rest, o[1])
    BY <1>4, <1>7, <1>8, <2>1
  <2>3. PICK q \in 1 .. Len(buffer) : buffer[q] = o[1]
    BY <1>8, <2>1, <2>2 DEF Reached, In
  <2>4. ~(n < q)
    BY <1>3, <2>2, <2>3
  <2>5. q \in 1 .. n
    <3>1. Len(buffer) \in Nat
      BY LenProperties DEF ParserInv, ParserTypeOK
    <3> QED
      BY <2>4, <3>1
  <2> QED
    BY <2>3, <2>5
<1> QED
  BY <1>7, <1>8

(* A frame that only looks like one is sent where nothing spares the frame *)
(* it is in.                                                               *)
LEMMA FakeSpoils ==
  ASSUME ParserInv, OrderInv, kind \in Framed, Recoverable, Reached, buffer # <<>>,
         NEW h, h = buffer[1], h \in DOMAIN Marks, Marks[h].is = "fake"
  PROVE  \E g \in Frames : ~Spared(g) /\ h \in g[1] .. g[2]
<1>1. PICK g \in Frames : g[1] < h /\ h <= g[2]
  BY DEF Recoverable
<1>2. /\ BufferContext /\ kind \in DOMAIN Broadcasts /\ next \in Nat /\ h \in Nat /\ h < next
      /\ 1 \in 1 .. Len(buffer) /\ Len(buffer) \in Nat
  <2>1. BufferContext
    BY BufferIs
  <2>2. Len(buffer) \in Nat /\ Len(buffer) # 0
    BY <2>1, EmptySeq DEF BufferContext
  <2>3. 1 \in 1 .. Len(buffer)
    BY <2>2
  <2> QED
    BY <2>1, <2>3 DEF BufferContext
<1>3. g[1] \in Nat /\ g[2] \in Nat /\ h \in g[1] .. g[2] /\ g[1] < next
  BY <1>1, <1>2, FramesAre
<1>4. ASSUME Spared(g) PROVE FALSE
  <2>1. CASE In(buffer, g[1])
    <3>1. PICK q \in 1 .. Len(buffer) : buffer[q] = g[1]
      BY <2>1 DEF In
    <3>2. q = 1 \/ 1 < q
      BY <1>2
    <3>3. h <= g[1]
      BY <1>2, <3>1, <3>2 DEF BufferContext, Rising
    <3> QED
      BY <1>1, <1>2, <1>3, <3>3
  <2>2. CASE \E i \in 1 .. Len(sent) : Is(i, g)
    <3>1. PICK i \in 1 .. Len(sent) : Is(i, g)
      BY <2>2
    <3> DEFINE k == h - g[1] + 1
    <3>2. k \in 1 .. (g[2] + 1 - g[1]) /\ g[1] + k - 1 = h /\ g[1] <= g[2] + 1
      BY <1>1, <1>2, <1>3
    <3> HIDE DEF k
    <3>3. Len(Units(g[1], g[2])) = g[2] + 1 - g[1] /\ Units(g[1], g[2])[k] = h
      BY <1>3, <3>2, UnitsProperties
    <3>4. k \in 1 .. Len(sent[i].data) /\ sent[i].data[k] = h
      BY <3>1, <3>2, <3>3 DEF Is
    <3>5. Ahead(sent[i].data, buffer)
      BY DEF OrderInv
    <3>6. h < buffer[1]
      BY <1>2, <3>4, <3>5 DEF Ahead
    <3> QED
      BY <1>2, <3>6
  <2> QED
    BY <1>3, <1>4, <2>1, <2>2 DEF Reached
<1> QED
  BY <1>3, <1>4

(* Everything ahead of the place to which the parser moves was in the      *)
(* buffer, if it was not lost.                                             *)
LEMMA MovesOver ==
  ASSUME ParserInv, HoldsFrom(buffer), buffer # <<>>, NEW n \in 1 .. Len(buffer),
         NEW u \in Nat, buffer[1] <= u, u < Standing(Cut(buffer, n)), u \notin gone
  PROVE  \E q \in 1 .. n : q \in 1 .. Len(buffer) /\ buffer[q] = u
<1> DEFINE rest == Cut(buffer, n)
<1>1. BufferContext /\ Len(buffer) \in Nat /\ n \in Nat
  BY BufferIs DEF BufferContext
<1>2. /\ Len(rest) = Len(buffer) - n /\ n \in 0 .. Len(buffer)
      /\ \A y \in 1 .. (Len(buffer) - n) : n + y \in 1 .. Len(buffer) /\ rest[y] = buffer[n + y]
  <2>1. n \in 0 .. Len(buffer)
    BY <1>1
  <2> QED
    BY <2>1, CutIs
<1>3. rest \in Seq(Nat)
  <2>1. rest \in Seq(1 .. (next - 1)) /\ 1 .. (next - 1) \subseteq Nat
    BY <1>1, <1>2, CutTypes DEF BufferContext
  <2> QED
    BY <2>1, SeqMonotonic
<1> HIDE DEF rest
<1>4. u < Standing(rest)
  BY DEF rest
<1>5. 1 \in 1 .. Len(buffer) /\ buffer[1] \in Nat /\ next \in Nat
  <2>1. 1 \in 1 .. Len(buffer)
    BY <1>1
  <2> QED
    BY <1>1, <2>1 DEF BufferContext
<1>6. CASE rest = <<>>
  <2>1. Len(rest) = 0
    BY <1>6
  <2>2. n = Len(buffer)
    BY <1>1, <1>2, <2>1
  <2>3. u \in buffer[1] .. (next - 1)
    BY <1>4, <1>5, <1>6 DEF Standing
  <2>4. In(buffer, u)
    BY <2>3 DEF HoldsFrom
  <2> QED
    BY <2>2, <2>4 DEF In
<1>7. CASE rest # <<>>
  <2>1. Len(rest) # 0
    BY <1>3, <1>7, EmptySeq
  <2>2. 1 \in 1 .. (Len(buffer) - n)
    BY <1>1, <1>2, <2>1
  <2>3. n + 1 \in 1 .. Len(buffer) /\ u < buffer[n + 1]
    BY <1>2, <1>4, <1>7, <2>2 DEF Standing
  <2>4. buffer[n + 1] \in Nat /\ buffer[n + 1] < next
    BY <1>1, <2>3 DEF BufferContext
  <2>5. u \in buffer[1] .. (next - 1)
    BY <1>5, <2>3, <2>4
  <2>6. PICK q \in 1 .. Len(buffer) : buffer[q] = u
    BY <2>5 DEF HoldsFrom, In
  <2>7. ~(n + 1 < q)
    <3>1. n + 1 < q => buffer[n + 1] < u
      BY <1>1, <2>3, <2>6 DEF BufferContext, Rising
    <3> QED
      BY <2>3, <2>4, <3>1
  <2>8. q # n + 1
    BY <2>3, <2>4, <2>6
  <2>9. q \in 1 .. n
    BY <1>1, <2>7, <2>8
  <2> QED
    BY <2>6, <2>9
<1> QED
  BY <1>6, <1>7

(* The parser does not move back.                                          *)
LEMMA MovesOn ==
  ASSUME ParserInv, buffer # <<>>, NEW n \in 1 .. Len(buffer)
  PROVE  /\ Standing(Cut(buffer, n)) \in Nat /\ Standing(Cut(buffer, n)) <= next
         /\ Standing(Cut(buffer, n)) - buffer[1] >= n
<1> DEFINE rest == Cut(buffer, n)
<1>1. /\ BufferContext /\ Len(buffer) \in Nat /\ n \in Nat /\ 1 \in 1 .. Len(buffer)
      /\ buffer[1] \in Nat /\ next \in Nat /\ buffer \in Seq(Nat) /\ Rising(buffer) /\ 1 <= n
  <2>1. BufferContext /\ Len(buffer) \in Nat /\ n \in Nat
    BY BufferIs DEF BufferContext
  <2>2. 1 \in 1 .. Len(buffer) /\ 1 <= n
    BY <2>1
  <2> QED
    BY <2>1, <2>2 DEF BufferContext
<1>2. /\ Len(rest) = Len(buffer) - n /\ n \in 0 .. Len(buffer)
      /\ \A y \in 1 .. (Len(buffer) - n) : n + y \in 1 .. Len(buffer) /\ rest[y] = buffer[n + y]
  <2>1. n \in 0 .. Len(buffer)
    BY <1>1
  <2> QED
    BY <2>1, CutIs
<1>3. rest \in Seq(Nat)
  <2>1. rest \in Seq(1 .. (next - 1)) /\ 1 .. (next - 1) \subseteq Nat
    BY <1>1, <1>2, CutTypes DEF BufferContext
  <2> QED
    BY <2>1, SeqMonotonic
<1> HIDE DEF rest
<1>4. CASE rest = <<>>
  <2>1. buffer[n] - buffer[1] >= n - 1
    BY <1>1, RisingGap
  <2>2. buffer[n] \in Nat /\ buffer[n] < next
    BY <1>1 DEF BufferContext
  <2>3. next - buffer[1] >= n
    BY <1>1, <2>1, <2>2
  <2>4. Standing(rest) = next
    BY <1>4 DEF Standing
  <2> QED
    BY <1>1, <2>3, <2>4 DEF rest
<1>5. CASE rest # <<>>
  <2>1. Len(rest) # 0
    BY <1>3, <1>5, EmptySeq
  <2>2. 1 \in 1 .. (Len(buffer) - n)
    BY <1>1, <1>2, <2>1
  <2>3. n + 1 \in 1 .. Len(buffer) /\ Standing(rest) = buffer[n + 1]
    BY <1>2, <1>5, <2>2 DEF Standing
  <2>4. buffer[n + 1] - buffer[1] >= n
    <3>1. 1 <= n + 1 /\ (n + 1) - 1 = n
      BY <1>1
    <3>2. buffer[n + 1] - buffer[1] >= (n + 1) - 1
      BY <1>1, <2>3, <3>1, RisingGap
    <3> QED
      BY <3>1, <3>2
  <2>5. buffer[n + 1] \in Nat /\ buffer[n + 1] < next
    BY <1>1, <2>3 DEF BufferContext
  <2> QED
    BY <1>1, <2>3, <2>4, <2>5 DEF rest
<1> QED
  BY <1>4, <1>5

(* The units near a frame have a first one.                                *)
LEMMA NearStarts ==
  ASSUME kind \in DOMAIN Broadcasts, NEW o \in Frames, NEW p \in Near(o), NEW h \in Nat, h < p,
         h \notin Near(o)
  PROVE  \E m \in Near(o) : m \in Nat /\ h < m /\ m <= p /\ m - 1 \notin Near(o)
<1>1. /\ Near(o) \subseteq 1 .. o[2] /\ o[2] \in Nat
      /\ \A u \in Near(o) : \A v \in u .. o[2] : v \in Near(o)
  BY FramesAre, NearProperties
<1>2. Near(o) \subseteq Nat /\ IsFiniteSet(Near(o)) /\ Near(o) # {}
  <2>1. 1 \in Int /\ o[2] \in Int
    BY <1>1
  <2>2. IsFiniteSet(1 .. o[2])
    BY <2>1, FS_Interval
  <2>3. IsFiniteSet(Near(o))
    BY <1>1, <2>2, FS_Subset
  <2> QED
    BY <1>1, <2>3
<1>3. PICK m \in Near(o) : \A u \in Near(o) : m <= u
  BY <1>2, LeastMember
<1>4. m \in Nat /\ m <= p /\ m - 1 \notin Near(o)
  <2>1. m \in Nat /\ ~(m <= m - 1)
    BY <1>2
  <2> QED
    BY <1>3, <2>1
<1>5. h < m
  <2> SUFFICES ASSUME m <= h PROVE FALSE
    BY <1>4
  <2>1. p \in 1 .. o[2]
    BY <1>1
  <2>2. h \in m .. o[2]
    BY <1>1, <1>4, <2>1
  <2> QED
    BY <1>1, <2>2
<1> QED
  BY <1>3, <1>4, <1>5

(* Behind a frame, or what looks like one, the parser is on track.         *)
LEMMA TrackTaken ==
  ASSUME ParserInv, HoldsFrom(buffer), OnTrack(buffer), kind \in Framed, buffer # <<>>,
         buffer[1] \in DOMAIN Marks, IsMark(buffer[1]), NEW z, z = Marks[buffer[1]].size,
         z \in 1 .. Len(buffer)
  PROVE  OnTrack(Cut(buffer, z))
<1> DEFINE p == Standing(Cut(buffer, z))
           h == buffer[1]
<1>1. /\ BufferContext /\ kind \in DOMAIN Broadcasts /\ h \in Nat /\ z \in Nat /\ 1 <= z
      /\ Len(buffer) \in Nat /\ buffer \in Seq(Nat) /\ Rising(buffer) /\ 1 \in 1 .. Len(buffer)
  <2>1. BufferContext /\ Len(buffer) \in Nat
    BY BufferIs DEF BufferContext
  <2>2. 1 \in 1 .. Len(buffer) /\ z \in Nat /\ 1 <= z
    BY <2>1
  <2> QED
    BY <2>1, <2>2 DEF BufferContext
<1>2. p \in Nat /\ p - h >= z
  BY MovesOn
<1>3. \A u \in Nat : h <= u /\ u < p /\ u \notin gone =>
        \E q \in 1 .. z : q \in 1 .. Len(buffer) /\ buffer[q] = u
  BY MovesOver
<1> HIDE DEF p
<1>4. ASSUME NEW o \in Frames, NEW S \in SUBSET Near(o), Spared(o), Leads(o, S), p \in Near(o), p <= o[1]
      PROVE  p \in S
  <2>1. /\ Near(o) \subseteq 1 .. o[2] /\ o[1] \in Nat /\ o[2] \in Nat /\ o[1] <= o[2]
        /\ \A u \in Near(o) : \A v \in u .. o[2] : v \in Near(o)
        /\ \A u \in Near(o) : u \notin gone
    <3>1. o[1] \in Nat /\ o[2] \in Nat /\ o[1] <= o[2]
      BY <1>1, FramesAre
    <3>2. Near(o) \subseteq 1 .. o[2] /\ \A u \in Near(o) : \A v \in u .. o[2] : v \in Near(o)
      BY <1>1, NearProperties
    <3>3. \A u \in Near(o) : u \notin gone
      BY <1>4 DEF Spared
    <3> QED
      BY <3>1, <3>2, <3>3
  <2>2. ASSUME NEW a \in Near(o), h <= a, a < p, NEW l \in 1 .. Len(buffer), buffer[l] <= a
        PROVE  (p - 1) - a <= z - l
    <3>1. a \in Nat /\ a <= p - 1 /\ p - 1 \in Nat
      BY <1>1, <1>2, <2>1, <2>2
    <3>2. ASSUME NEW u \in a .. (p - 1) PROVE \E q \in 1 .. z : q \in 1 .. Len(buffer) /\ buffer[q] = u
      <4>1. u \in Nat /\ h <= u /\ u < p /\ u \in a .. o[2]
        BY <1>1, <1>2, <1>4, <2>1, <2>2, <3>1
      <4>2. u \notin gone
        BY <2>1, <4>1
      <4> QED
        BY <1>3, <4>1, <4>2
    <3>3. PICK q \in 1 .. z : q \in 1 .. Len(buffer) /\ buffer[q] = p - 1
      <4>1. p - 1 \in a .. (p - 1)
        BY <3>1
      <4> QED
        BY <3>2, <4>1
    <3>4. \A u \in a .. (p - 1) : In(buffer, u)
      BY <3>2 DEF In
    <3>5. q - l >= (p - 1) - a
      BY <1>1, <2>2, <3>1, <3>3, <3>4, PlacesBetween
    <3>6. q \in Nat /\ q <= z /\ l \in Nat
      BY <1>1, <3>3
    <3> QED
      BY <1>1, <3>1, <3>5, <3>6
  <2>3. CASE h \in Near(o)
    <3>1. (p - 1) - h <= z - 1
      <4>1. h < p /\ h <= h
        BY <1>1, <1>2
      <4> QED
        BY <1>1, <2>2, <2>3, <4>1
    <3>2. p = h + z /\ h < o[1] /\ h <= o[1]
      <4>1. h \in Nat /\ z \in Nat /\ 1 <= z /\ p \in Nat /\ o[1] \in Nat /\ p <= o[1]
        BY <1>1, <1>2, <1>4, <2>1
      <4>2. p = h + z
        BY <1>2, <3>1, <4>1
      <4> HIDE DEF h
      <4> QED
        BY <4>1, <4>2
    <3>3. h \in S
      BY <1>4, <2>3, <3>2 DEF OnTrack, Standing
    <3>4. h # o[1]
      BY <1>1, <2>1, <3>2
    <3> QED
      BY <1>4, <3>2, <3>3, <3>4 DEF Leads
  <2>4. CASE h \notin Near(o)
    <3>1. h < p /\ h < o[1]
      BY <1>1, <1>2, <1>4, <2>1
    <3>2. p - z \notin Near(o)
      <4> SUFFICES ASSUME p - z \in Near(o) PROVE FALSE
        OBVIOUS
      <4> DEFINE a == p - z
      <4>1. a \in Nat /\ h <= a /\ a < p
        BY <1>1, <1>2
      <4>2. a # h
        BY <2>4
      <4>3. h < a
        BY <1>1, <4>1, <4>2
      <4>4. (p - 1) - a = z - 1
        BY <1>1, <1>2
      <4>5. a \in Near(o)
        OBVIOUS
      <4> HIDE DEF a
      <4>6. PICK l \in 1 .. z : l \in 1 .. Len(buffer) /\ buffer[l] = a
        BY <1>3, <2>1, <4>1, <4>5
      <4>7. l \in Nat /\ l # 1 /\ 1 < l /\ buffer[l] <= a
        BY <1>1, <4>1, <4>3, <4>6
      <4>8. (p - 1) - a <= z - l
        BY <2>2, <4>1, <4>5, <4>6, <4>7
      <4> QED
        BY <1>1, <4>4, <4>7, <4>8
    <3> QED
      BY <1>4, <2>4, <3>1, <3>2 DEF Leads
  <2> QED
    BY <2>3, <2>4
<1> QED
  BY <1>4 DEF OnTrack, p

(* What the parser deletes to find a mark has none.                        *)
LEMMA DeletedIsUnmarked ==
  ASSUME BufferContext, NEW q \in 1 .. FindAlignmentOffset, q \in 1 .. Len(buffer)
  PROVE  ~IsMark(buffer[q])
<1>1. Len(buffer) \in Nat /\ q \in Nat /\ 1 <= q /\ HeaderSize \in Nat
  BY Parameters DEF BufferContext
<1>3. /\ Got = buffer /\ FindAlignmentOffset \in Places
      /\ \A p \in Places : FindAlignmentOffset <= p
  <2>1. FindAlignmentOffset # 0
    BY <1>1
  <2> QED
    BY <1>1, <2>1, OffsetWithinBuffer
<1>8. ASSUME IsMark(buffer[q]), q - 1 + HeaderSize < Len(buffer) PROVE q - 1 \in Places
  <2>1. q - 1 \in 0 .. (Len(buffer) - 1) /\ (q - 1) + 1 = q
    BY <1>1
  <2>2. Aligned(q - 1)
    BY <1>3, <1>8, <2>1 DEF Aligned, IsMark
  <2> QED
    BY <1>3, <1>8, <2>1, <2>2 DEF Places
<1>11. /\ FindAlignmentOffset \in Nat /\ FindAlignmentOffset + HeaderSize < Len(buffer)
       /\ q <= FindAlignmentOffset
  BY <1>1, <1>3 DEF Places
<1>12. ASSUME IsMark(buffer[q]) PROVE FALSE
  <2>1. q - 1 + HeaderSize < Len(buffer)
    BY <1>1, <1>11
  <2>2. FindAlignmentOffset <= q - 1
    BY <1>3, <1>8, <1>12, <2>1
  <2> QED
    BY <1>1, <1>11, <2>2
<1> QED
  BY <1>12

(* At the next mark the parser is on track.                                *)
LEMMA TrackFound ==
  ASSUME ParserInv, HoldsFrom(buffer), OnTrack(buffer), kind \in Framed
  PROVE  OnTrack(Cut(buffer, FindAlignmentOffset))
<1> DEFINE n == FindAlignmentOffset
           p == Standing(Cut(buffer, n))
           h == buffer[1]
<1>1. /\ BufferContext /\ kind \in DOMAIN Broadcasts /\ Len(buffer) \in Nat
      /\ n \in 0 .. Len(buffer)
  <2>1. BufferContext /\ Len(buffer) \in Nat
    BY BufferIs DEF BufferContext
  <2> QED
    BY <2>1, OffsetWithinBuffer DEF BufferContext
<1>2. CASE n = 0
  <2>1. Cut(buffer, 0) = buffer
    <3>1. SubSeq(buffer, 1, Len(buffer)) = buffer
      BY <1>1, SubSeqFull DEF BufferContext
    <3> QED
      BY <3>1 DEF Cut
  <2> QED
    BY <1>2, <2>1
<1>3. CASE n # 0
  <2>1. n \in 1 .. Len(buffer) /\ 1 \in 1 .. Len(buffer) /\ buffer # <<>>
    <3>1. n \in 1 .. Len(buffer) /\ 1 \in 1 .. Len(buffer)
      BY <1>1, <1>3
    <3> QED
      BY <3>1
  <2>2. \A q \in 1 .. n : q \in 1 .. Len(buffer) => ~IsMark(buffer[q])
    BY <1>1, DeletedIsUnmarked
  <2> HIDE DEF n
  <2>3. p \in Nat /\ p - h >= n /\ h \in Nat /\ h < p
    <3>1. p \in Nat /\ p - h >= n
      BY <2>1, MovesOn
    <3>2. h \in Nat /\ n \in Nat /\ 1 <= n
      BY <1>1, <2>1 DEF BufferContext
    <3> HIDE DEF p, h
    <3> QED
      BY <3>1, <3>2
  <2>4. \A u \in Nat : h <= u /\ u < p /\ u \notin gone =>
          \E q \in 1 .. n : q \in 1 .. Len(buffer) /\ buffer[q] = u
    BY <2>1, MovesOver
  <2> HIDE DEF p
  <2>5. ASSUME NEW o \in Frames, NEW S \in SUBSET Near(o), Spared(o), Leads(o, S), p \in Near(o), p <= o[1]
        PROVE  p \in S
    <3>1. /\ Near(o) \subseteq 1 .. o[2] /\ o[1] \in Nat /\ o[2] \in Nat /\ o[1] <= o[2]
          /\ \A u \in Near(o) : \A v \in u .. o[2] : v \in Near(o)
          /\ \A u \in Near(o) : u \notin gone
      <4>1. o[1] \in Nat /\ o[2] \in Nat /\ o[1] <= o[2]
        BY <1>1, FramesAre
      <4>2. Near(o) \subseteq 1 .. o[2] /\ \A u \in Near(o) : \A v \in u .. o[2] : v \in Near(o)
        BY <1>1, NearProperties
      <4>3. \A u \in Near(o) : u \notin gone
        BY <2>5 DEF Spared
      <4> QED
        BY <4>1, <4>2, <4>3
    <3>2. ASSUME NEW a \in Near(o), h <= a, a < p, a \in S PROVE p \in S
      <4>1. a \in Nat
        BY <3>1
      <4>2. ASSUME NEW w \in a .. (p - 1) PROVE ~IsMark(w)
        <5>1. w \in Nat /\ h <= w /\ w < p /\ w \in a .. o[2]
          BY <2>3, <2>5, <3>1, <3>2, <4>1, <4>2
        <5>2. w \notin gone
          BY <3>1, <5>1
        <5> QED
          BY <2>2, <2>4, <5>1, <5>2
      <4> QED
        BY <2>5, <3>2, <4>2 DEF Leads
    <3>3. CASE h \in Near(o)
      <4>1. h <= o[1] /\ h <= h
        BY <2>3, <2>5, <3>1
      <4>2. h \in S
        BY <2>1, <2>5, <3>3, <4>1 DEF OnTrack, Standing
      <4> QED
        BY <2>3, <3>2, <3>3, <4>1, <4>2
    <3>4. CASE h \notin Near(o)
      <4>1. PICK m \in Near(o) : m \in Nat /\ h < m /\ m <= p /\ m - 1 \notin Near(o)
        BY <1>1, <2>3, <2>5, <3>4, NearStarts
      <4>2. m \in S
        BY <2>5, <4>1 DEF Leads
      <4>3. m = p \/ (h <= m /\ m < p)
        BY <2>3, <4>1
      <4> QED
        BY <3>2, <4>2, <4>3
    <3> QED
      BY <3>3, <3>4
  <2> QED
    BY <2>5 DEF OnTrack, p, n
<1> QED
  BY <1>2, <1>3

\* What overlaps a frame that is not spared any more.
Spoils(data) == \E o \in Frames : ~Spared(o)' /\ \E j \in DOMAIN data : data[j] \in o[1] .. o[2]

LEMMA FramesGenuineNext ==
  ASSUME kind \in Framed, kind' = kind, Frames' = Frames,
         \A i \in 1 .. Len(sent') :
           (\E o \in Frames : sent'[i].data = Units(o[1], o[2])) \/ Spoils(sent'[i].data)
  PROVE  FramesGenuine'
<1>1. Owed' = Frames
  BY DEF Owed
<1>2. ASSUME NEW i \in 1 .. Len(sent'), Spoils(sent'[i].data) PROVE Spoilt(sent[i].data)'
  BY <1>1, <1>2 DEF Spoils, Spoilt
<1> QED
  BY <1>2 DEF FramesGenuine, Is

LEMMA LossArrive ==
  ASSUME ParserInv, OrderInv, LossInv, kind \in Framed, Recoverable, Arrive
  PROVE  Starts' /\ HoldsFrom(buffer)' /\ OnTrack(buffer)' /\ Reached' /\ FramesGenuine'
<1>1. FramesContext /\ ParseFrames /\ BufferContext
  BY FramesArriving, BufferIs
<1>2. Starts /\ HoldsFrom(buffer) /\ OnTrack(buffer) /\ Reached /\ FramesGenuine
  BY DEF LossInv
<1>3. /\ Len(sent) \in Nat /\ Len(buffer) \in Nat /\ kind \in DOMAIN Broadcasts /\ kind' = kind
      /\ sent \in Seq([data : Seq(1 .. (next - 1)) \ {<<>>}, pts : Stamps])
      /\ Frames' = Frames /\ Owed' = Frames
  <2>1. kind' = kind
    BY <1>1 DEF FramesContext
  <2>2. Frames' = Frames /\ Owed' = Frames
    BY <2>1 DEF Frames, Marks, Owed
  <2> QED
    BY <2>1, <2>2, LenProperties DEF ParserInv, ParserTypeOK
<1>4. ASSUME NEW rest, NEW pts, PutData(rest, pts)
      PROVE  /\ \A o : Spared(o)' => Spared(o)
             /\ \A i \in 1 .. Len(sent) :
                  (\E o \in Frames : Is(i, o)) \/ Spoils(sent[i].data)
  <2>1. gone \subseteq gone'
    BY <1>4 DEF PutData
  <2>2. \A o : Spared(o)' => Spared(o)
    BY <1>3, <2>1, SparedBefore
  <2>3. ASSUME NEW data, Spoilt(data) PROVE Spoils(data)
    BY <2>2, <2>3 DEF Spoilt, Spoils, Owed
  <2> QED
    BY <1>2, <2>2, <2>3 DEF FramesGenuine
<1>5. CASE Complete /\ SendFrame /\ PutData(Taken(FrameSize(0)), PtsAdd(curPTS, Duration))
  <2> DEFINE z == FrameSize(0)
             frame == SubSeq(buffer, 1, z)
             new == [data |-> frame, pts |-> curPTS]
             pts == PtsAdd(curPTS, Duration)
             L == Len(sent)
             h == buffer[1]
  <2>1. /\ z \in 1 .. Len(buffer) /\ buffer # <<>> /\ h \in 1 .. (next - 1) /\ z = Marks[h].size
        /\ Marks[h].is \in {"frame", "fake"}
    BY <1>5, CompleteFrame
  <2>2. sent' = Append(sent, new) /\ PutData(Cut(buffer, z), pts) /\ new.data = frame
    BY <1>5 DEF SendFrame, Taken
  <2>3. z \in Nat /\ z \in 0 .. Len(buffer) /\ h \in DOMAIN Marks /\ h \in Nat /\ z <= Len(buffer)
    <3>1. DOMAIN Marks = 1 .. Len(Marks) /\ Len(Marks) \in Nat
      BY <1>3, Row
    <3>2. next \in 1 .. Len(Marks)
      BY <1>1 DEF FramesContext
    <3> QED
      BY <1>3, <2>1, <3>1, <3>2
  <2>4. 1 \in DOMAIN frame /\ frame[1] = h
    <3>1. 1 \in 1 .. Len(buffer) + 1 /\ 1 \in 1 .. z /\ 1 <= z /\ 1 + 1 - 1 = 1
      BY <1>3, <2>1
    <3>2. buffer \in Seq(Nat)
      BY <1>1 DEF BufferContext
    <3>3. /\ frame \in Seq(Nat) /\ Len(frame) = IF 1 <= z THEN z + 1 - 1 ELSE 0
          /\ \A x \in 1 .. (z + 1 - 1) : frame[x] = buffer[1 + x - 1]
      BY <2>3, <3>1, <3>2, PartIn
    <3>4. DOMAIN frame = 1 .. z
      BY <2>3, <3>1, <3>3, LenProperties
    <3> QED
      BY <2>3, <3>1, <3>3, <3>4
  <2> HIDE DEF z, pts, new
  <2>14. OnTrack(Cut(buffer, z))
    BY <1>1, <1>2, <2>1, <2>3, TrackTaken DEF IsMark
  <2>5. /\ Starts' /\ HoldsFrom(buffer)' /\ OnTrack(buffer)'
        /\ \A o \in Frames : Spared(o)' /\ o[1] < next' =>
             \/ In(buffer', o[1])
             \/ \E i \in 1 .. L : Is(i, o)
             \/ \E q \in 1 .. z : q \in 1 .. Len(buffer) /\ buffer[q] = o[1]
    BY <1>1, <1>2, <2>2, <2>3, <2>14, LossCut
  <2>6. /\ Len(sent') = L + 1 /\ sent'[L + 1] = new /\ L \in Nat
        /\ \A i \in 1 .. L : sent'[i] = sent[i]
    BY <1>3, <2>2, AppendProperties
  <2>7. /\ \A o : Spared(o)' => Spared(o)
        /\ \A i \in 1 .. L : (\E o \in Frames : Is(i, o)) \/ Spoils(sent[i].data)
    BY <1>4, <2>2
  <2>8. ASSUME NEW o \in Frames, o[1] = h, \A u \in o[1] .. o[2] : u \notin gone
        PROVE  frame = Units(o[1], o[2])
    <3>1. Marks[o[1]].size = z /\ Marks[o[1]].size <= Len(buffer)
      BY <2>1, <2>3, <2>8
    <3>2. SubSeq(buffer, 1, Marks[o[1]].size) = Units(o[1], o[2])
      BY <1>1, <1>2, <2>1, <2>8, <3>1, FrameInFront
    <3> QED
      BY <3>1, <3>2
  <2>9. ASSUME NEW g \in Frames, ~Spared(g), h \in g[1] .. g[2] PROVE Spoils(frame)
    <3>1. ~Spared(g)'
      BY <2>7, <2>9
    <3>2. frame[1] \in g[1] .. g[2]
      BY <2>4, <2>9
    <3> HIDE DEF frame
    <3> QED
      BY <2>4, <2>9, <3>1, <3>2 DEF Spoils
  <2>10. (\E o \in Frames : frame = Units(o[1], o[2])) \/ Spoils(frame)
    <3>1. CASE Marks[h].is = "frame"
      <4> DEFINE o == <<h, h + Marks[h].size - 1>>
      <4>1. h \in 1 .. Len(Marks)
        BY <1>3, <2>3, Row
      <4>2. o \in Frames
        BY <1>3, <3>1, <4>1, FramesAre
      <4>3. o[1] = h /\ h \in o[1] .. o[2]
        <5>1. o[1] \in Nat /\ o[2] \in Nat /\ o[1] <= o[2]
          BY <1>3, <4>2, FramesAre
        <5> QED
          BY <2>3, <5>1
      <4> HIDE DEF o
      <4>4. CASE \A u \in o[1] .. o[2] : u \notin gone
        BY <2>8, <4>2, <4>3, <4>4
      <4>5. CASE ~\A u \in o[1] .. o[2] : u \notin gone
        <5>1. ~Spared(o)
          BY <1>3, <4>2, <4>5, SparedStarts
        <5> QED
          BY <2>9, <4>2, <4>3, <5>1
      <4> QED
        BY <4>4, <4>5
    <3>2. CASE Marks[h].is = "fake"
      BY <1>2, <2>1, <2>3, <2>9, <3>2, FakeSpoils
    <3> QED
      BY <2>1, <3>1, <3>2
  <2> HIDE DEF frame, L
  <2>11. FramesGenuine'
    <3>1. ASSUME NEW i \in 1 .. Len(sent')
          PROVE  (\E o \in Frames : sent'[i].data = Units(o[1], o[2])) \/ Spoils(sent'[i].data)
      <4>1. CASE i \in 1 .. L
        <5>1. sent'[i] = sent[i]
          BY <2>6, <4>1
        <5>2. (\E o \in Frames : sent[i].data = Units(o[1], o[2])) \/ Spoils(sent[i].data)
          BY <2>7, <4>1 DEF Is
        <5> QED
          BY <5>1, <5>2
      <4>2. CASE i = L + 1
        BY <2>2, <2>6, <2>10, <4>2
      <4> QED
        BY <2>6, <4>1, <4>2
    <3> QED
      BY <1>3, <3>1, FramesGenuineNext
  <2>12. Reached'
    <3>1. ASSUME NEW o \in Frames, Spared(o)', o[1] < next', ~In(buffer', o[1])
          PROVE  \E i \in 1 .. Len(sent') : sent'[i].data = Units(o[1], o[2])
      <4>1. CASE \E i \in 1 .. L : Is(i, o)
        <5>1. PICK i \in 1 .. L : Is(i, o)
          BY <4>1
        <5>2. i \in 1 .. Len(sent') /\ sent'[i] = sent[i]
          BY <2>6, <5>1
        <5> QED
          BY <5>1, <5>2 DEF Is
      <4>2. CASE \E q \in 1 .. z : q \in 1 .. Len(buffer) /\ buffer[q] = o[1]
        <5>1. PICK q \in 1 .. z : q \in 1 .. Len(buffer) /\ buffer[q] = o[1]
          BY <4>2
        <5>2. Spared(o)
          BY <2>7, <3>1
        <5>3. h = o[1]
          <6>1. h # o[1] => Marks[h].size < q
            <7>1. Marks[h].size # 0
              BY <2>1
            <7> QED
              BY <1>1, <1>2, <2>1, <2>3, <5>1, <5>2, <7>1, SparedNotTaken DEF IsMark
          <6>2. ~(Marks[h].size < q)
            BY <2>1, <2>3, <5>1
          <6> QED
            BY <6>1, <6>2
        <5>4. \A u \in o[1] .. o[2] : u \notin gone
          BY <1>3, <5>2, SparedStarts
        <5>5. frame = Units(o[1], o[2])
          BY <2>8, <5>3, <5>4
        <5>6. L + 1 \in 1 .. Len(sent')
          BY <2>6
        <5> QED
          BY <2>2, <2>6, <5>5, <5>6
      <4> QED
        BY <2>5, <3>1, <4>1, <4>2
    <3> QED
      BY <1>3, <3>1 DEF Reached, In, Is
  <2> QED
    BY <2>5, <2>11, <2>12
<1>6. ASSUME NEW n \in 0 .. Len(buffer), PutData(Cut(buffer, n), curPTS), UNCHANGED sent,
             OnTrack(Cut(buffer, n)),
             \A o \in Frames : \A q \in 1 .. Len(buffer) : buffer[q] = o[1] => n < q
      PROVE  Starts' /\ HoldsFrom(buffer)' /\ OnTrack(buffer)' /\ Reached' /\ FramesGenuine'
  <2>1. /\ Starts' /\ HoldsFrom(buffer)' /\ OnTrack(buffer)'
        /\ \A o \in Frames : Spared(o)' /\ o[1] < next' =>
             \/ In(buffer', o[1])
             \/ \E i \in 1 .. Len(sent) : Is(i, o)
             \/ \E q \in 1 .. n : q \in 1 .. Len(buffer) /\ buffer[q] = o[1]
    BY <1>1, <1>2, <1>6, LossCut
  <2>2. \A o \in Frames : ~\E q \in 1 .. n : q \in 1 .. Len(buffer) /\ buffer[q] = o[1]
    <3>1. \A q \in 1 .. n : ~(n < q)
      BY <1>3
    <3> QED
      BY <1>6, <3>1
  <2>3. Reached'
    BY <1>3, <1>6, <2>1, <2>2 DEF Reached, In, Is
  <2>4. \A i \in 1 .. Len(sent) : (\E o \in Frames : Is(i, o)) \/ Spoils(sent[i].data)
    BY <1>4, <1>6
  <2>5. FramesGenuine'
    <3>1. ASSUME NEW i \in 1 .. Len(sent')
          PROVE  (\E o \in Frames : sent'[i].data = Units(o[1], o[2])) \/ Spoils(sent'[i].data)
      BY <1>6, <2>4 DEF Is
    <3> QED
      BY <1>3, <3>1, FramesGenuineNext
  <2> QED
    BY <2>1, <2>3, <2>5
<1>7. CASE PutData(buffer, curPTS) /\ UNCHANGED sent
  <2>1. Cut(buffer, 0) = buffer /\ 0 \in 0 .. Len(buffer)
    <3>1. buffer \in Seq(Nat)
      BY <1>1 DEF BufferContext
    <3>2. SubSeq(buffer, 1, Len(buffer)) = buffer
      BY <3>1, SubSeqFull
    <3> QED
      BY <1>3, <3>2 DEF Cut
  <2>2. \A q \in 1 .. Len(buffer) : 0 < q
    BY <1>3
  <2> QED
    BY <1>2, <1>6, <1>7, <2>1, <2>2
<1>8. CASE PutData(Cut(buffer, FindAlignmentOffset), curPTS) /\ UNCHANGED sent
  <2>1. FindAlignmentOffset \in 0 .. Len(buffer)
    BY <1>3, OffsetWithinBuffer
  <2>2. \A o \in Frames : \A q \in 1 .. Len(buffer) : buffer[q] = o[1] => FindAlignmentOffset < q
    BY <1>1, <1>3, OffsetBefore, FramesAre
  <2>3. OnTrack(Cut(buffer, FindAlignmentOffset))
    BY <1>1, <1>2, TrackFound
  <2> QED
    BY <1>6, <1>8, <2>1, <2>2, <2>3
<1> QED
  BY <1>1, <1>5, <1>7, <1>8 DEF ParseFrames

LEMMA LossLose ==
  ASSUME ParserInv, LossInv, kind \in Framed, Recoverable, LosePacket
  PROVE  Starts' /\ HoldsFrom(buffer)' /\ OnTrack(buffer)' /\ Reached' /\ FramesGenuine'
<1>1. Starts /\ HoldsFrom(buffer) /\ OnTrack(buffer) /\ Reached /\ FramesGenuine
  BY DEF LossInv
<1>2. /\ kind \in DOMAIN Broadcasts /\ kind' = kind /\ buffer' = buffer /\ sent' = sent
      /\ startup' = startup /\ next' = LastOfPacket + 1 /\ gone' = gone \cup (next .. LastOfPacket)
      /\ gone \subseteq gone'
  BY DEF ParserInv, ParserTypeOK, LosePacket
<1>3. next \in Nat /\ LastOfPacket \in Nat
  <2>1. next \in 1 .. Len(Marks)
    BY Row DEF ParserInv, ParserTypeOK, LosePacket
  <2>2. LastOfPacket \in next .. Len(Marks) /\ Len(Marks) \in Nat
    BY <1>2, <2>1, NextPacket, Row
  <2> QED
    BY <2>1, <2>2
<1>4. /\ Frames' = Frames /\ Pes' = Pes
      /\ \A o : Near(o)' = Near(o) /\ (Spared(o)' => Spared(o))
      /\ \A o, S : Leads(o, S)' = Leads(o, S)
  BY <1>2, SparedBefore
<1>5. Starts'
  <2>1. ASSUME startup, NEW n \in DOMAIN Pes, Pes[n].start < next' PROVE Pes[n].start \in gone'
    <3>1. Pes[n].start \in Nat
      BY <1>2, Row
    <3>2. Pes[n].start < next \/ Pes[n].start \in next .. LastOfPacket
      BY <1>2, <1>3, <2>1, <3>1
    <3> QED
      BY <1>1, <1>2, <2>1, <3>2 DEF Starts
  <2> QED
    BY <1>1, <1>2, <1>4, <2>1 DEF Starts
<1>6. HoldsFrom(buffer)'
  <2>1. ASSUME buffer # <<>>, NEW u \in buffer[1] .. (next' - 1), u \notin gone' PROVE In(buffer, u)
    <3>1. 1 \in 1 .. Len(buffer) /\ buffer[1] \in Nat
      <4>1. BufferContext
        BY BufferIs
      <4>2. Len(buffer) \in Nat /\ Len(buffer) # 0
        BY <2>1, <4>1, EmptySeq DEF BufferContext
      <4>3. 1 \in 1 .. Len(buffer)
        BY <4>2
      <4> QED
        BY <4>1, <4>3 DEF BufferContext
    <3>2. u \in buffer[1] .. (next - 1) /\ u \notin gone
      BY <1>2, <1>3, <2>1, <3>1
    <3> QED
      BY <1>1, <2>1, <3>2 DEF HoldsFrom
  <2> QED
    BY <1>2, <2>1 DEF HoldsFrom, In
<1>7. Reached'
  <2>1. ASSUME NEW o \in Frames, Spared(o)', o[1] < next'
        PROVE  In(buffer, o[1]) \/ \E i \in 1 .. Len(sent) : Is(i, o)
    <3>1. o[1] \in Near(o) /\ o[1] \in Nat
      <4>1. o[1] \in o[1] .. o[2] /\ o[1] \in Nat
        BY <1>2, FramesAre
      <4> QED
        BY <1>2, <4>1, NearProperties
    <3>2. o[1] \notin gone'
      BY <1>2, <1>4, <2>1, <3>1 DEF Spared
    <3>3. o[1] < next
      BY <1>2, <1>3, <2>1, <3>1, <3>2
    <3> QED
      BY <1>1, <1>4, <2>1, <3>3 DEF Reached
  <2> QED
    BY <1>2, <1>4, <2>1 DEF Reached, In, Is
<1>8. FramesGenuine'
  <2>1. ASSUME NEW data, Spoilt(data) PROVE Spoils(data)
    BY <1>4, <2>1 DEF Spoilt, Spoils, Owed
  <2>2. ASSUME NEW i \in 1 .. Len(sent)
        PROVE  (\E o \in Frames : sent[i].data = Units(o[1], o[2])) \/ Spoils(sent[i].data)
    BY <1>1, <2>1 DEF FramesGenuine, Is
  <2> QED
    BY <1>2, <1>4, <2>2, FramesGenuineNext
<1>9. OnTrack(buffer)'
  <2>1. ASSUME NEW o \in Frames, NEW S \in SUBSET Near(o), Spared(o)', Leads(o, S),
               Standing(buffer)' \in Near(o), Standing(buffer)' <= o[1]
        PROVE  Standing(buffer)' \in S
    <3>1. CASE buffer = <<>>
      <4>1. Standing(buffer)' = next' /\ next' - 1 = LastOfPacket
        BY <1>2, <1>3, <3>1 DEF Standing
      <4>2. LastOfPacket \in next .. LastOfPacket
        <5>1. next \in 1 .. Len(Marks)
          BY Row DEF ParserInv, ParserTypeOK, LosePacket
        <5>2. LastOfPacket \in next .. Len(Marks)
          BY <1>2, <5>1, NextPacket
        <5> QED
          BY <1>3, <5>2
      <4>3. LastOfPacket \notin Near(o)
        BY <1>2, <1>4, <2>1, <4>2 DEF Spared
      <4> QED
        BY <2>1, <4>1, <4>3 DEF Leads
    <3>2. CASE buffer # <<>>
      <4>1. Standing(buffer)' = Standing(buffer)
        BY <1>2, <3>2 DEF Standing
      <4> QED
        BY <1>1, <1>4, <2>1, <4>1 DEF OnTrack
    <3> QED
      BY <3>1, <3>2
  <2> QED
    BY <1>4, <2>1 DEF OnTrack
<1> QED
  BY <1>5, <1>6, <1>7, <1>8, <1>9

LEMMA LossStep == ParserInv /\ OrderInv /\ LossInv /\ [ParserNext]_parserVars => LossInv'
<1> SUFFICES ASSUME ParserInv, OrderInv, LossInv, [ParserNext]_parserVars,
                    kind' \in Framed, Recoverable'
             PROVE  Starts' /\ HoldsFrom(buffer)' /\ OnTrack(buffer)' /\ Reached' /\ FramesGenuine'
  BY DEF LossInv
<1>1. kind' = kind
  BY DEF ParserNext, Arrive, LosePacket, parserVars
<1>2. kind \in Framed /\ Recoverable
  <2>1. Frames' = Frames /\ Marks' = Marks
    BY <1>1 DEF Frames, Marks
  <2>2. \A o : Near(o)' = Near(o)
    BY <2>1 DEF Near
  <2>3. \A o, S : Leads(o, S)' = Leads(o, S)
    BY <2>1, <2>2 DEF Leads, IsMark
  <2>4. Recoverable' = Recoverable
    BY <2>1, <2>2, <2>3 DEF Recoverable
  <2> QED
    BY <1>1, <2>4
<1>3. CASE Arrive
  BY <1>2, <1>3, LossArrive
<1>4. CASE LosePacket
  BY <1>2, <1>4, LossLose
<1>5. CASE UNCHANGED parserVars
  <2>1. /\ Starts' = Starts /\ HoldsFrom(buffer)' = HoldsFrom(buffer) /\ Frames' = Frames
        /\ UNCHANGED <<kind, next, buffer, startup, sent, gone>>
    BY <1>5 DEF parserVars, Starts, HoldsFrom, In, Frames, Marks, Pes
  <2>2. \A o : Spared(o)' = Spared(o)
    BY <2>1 DEF Spared, Near, Pes, Intact, PesOf, Marks
  <2>3. Reached' = Reached
    BY <2>1, <2>2 DEF Reached, In, Is
  <2>4. \A i : Spoilt(sent[i].data)' = Spoilt(sent[i].data)
    BY <1>2, <2>1, <2>2 DEF Spoilt, Owed
  <2>5. FramesGenuine' = FramesGenuine
    BY <2>1, <2>4 DEF FramesGenuine, Is
  <2>6. OnTrack(buffer)' = OnTrack(buffer)
    <3>1. \A o : Near(o)' = Near(o)
      BY <2>1 DEF Near, Marks
    <3>2. \A o, S : Leads(o, S)' = Leads(o, S)
      BY <2>1, <3>1 DEF Leads, IsMark, Marks
    <3>3. Standing(buffer)' = Standing(buffer)
      BY <2>1 DEF Standing
    <3> QED
      BY <2>1, <2>2, <3>1, <3>2, <3>3 DEF OnTrack
  <2> QED
    BY <1>2, <2>1, <2>3, <2>5, <2>6 DEF LossInv
<1> QED
  BY <1>3, <1>4, <1>5 DEF ParserNext

LEMMA InitLossInv == ParserInit => LossInv
<1> SUFFICES ASSUME ParserInit
             PROVE  Starts /\ HoldsFrom(buffer) /\ OnTrack(buffer) /\ Reached /\ FramesGenuine
  BY DEF LossInv
<1>1. kind \in DOMAIN Broadcasts /\ next = 1 /\ buffer = <<>> /\ Len(sent) = 0
  BY DEF ParserInit
<1>2. Starts
  <2>1. \A n \in DOMAIN Pes : Pes[n].start \in Nat \ {0}
    BY <1>1, Row
  <2>2. \A n \in DOMAIN Pes : ~(Pes[n].start < next)
    BY <1>1, <2>1
  <2> QED
    BY <1>1, <2>2 DEF Starts
<1>3. Reached
  <2>1. \A o \in Frames : ~(o[1] < next)
    BY <1>1, FramesAre
  <2> QED
    BY <2>1 DEF Reached
<1>4. OnTrack(buffer)
  <2>1. ASSUME NEW o \in Frames PROVE 1 - 1 \notin Near(o)
    <3>1. Near(o) \subseteq 1 .. o[2] /\ o[2] \in Nat
      BY <1>1, FramesAre, NearProperties
    <3> QED
      BY <3>1
  <2>2. Standing(buffer) = 1
    BY <1>1 DEF Standing
  <2> QED
    BY <2>1, <2>2 DEF OnTrack, Leads
<1> QED
  BY <1>1, <1>2, <1>3, <1>4 DEF HoldsFrom, FramesGenuine

LEMMA SparedFrameOnce ==
  ASSUME ParserInv, OrderInv, LossInv, kind \in Framed, Recoverable, NEW o \in Frames, Spared(o),
         ~Waits(o)
  PROVE  Cardinality({i \in DOMAIN sent : Is(i, o)}) = 1
<1>1. /\ BufferContext /\ next \in Nat /\ kind \in DOMAIN Broadcasts
      /\ o[1] \in Nat /\ o[2] \in Nat /\ o[1] <= o[2] /\ DOMAIN sent = 1 .. Len(sent) /\ Len(sent) \in Nat
      /\ DOMAIN buffer = 1 .. Len(buffer) /\ Len(buffer) \in Nat
  <2>1. BufferContext
    BY BufferIs
  <2>2. /\ DOMAIN sent = 1 .. Len(sent) /\ Len(sent) \in Nat
        /\ DOMAIN buffer = 1 .. Len(buffer) /\ Len(buffer) \in Nat
    BY LenProperties DEF ParserInv, ParserTypeOK
  <2> QED
    BY <2>1, <2>2, FramesAre DEF BufferContext
<1>2. o[2] < next /\ o[1] < next
  BY <1>1 DEF Waits
<1>3. ~In(buffer, o[1])
  <2> SUFFICES ASSUME In(buffer, o[1]) PROVE FALSE
    OBVIOUS
  <2>1. PICK q \in 1 .. Len(buffer) : buffer[q] = o[1]
    BY DEF In
  <2>2. 1 \in 1 .. Len(buffer) /\ buffer # <<>>
    <3>1. 1 \in 1 .. Len(buffer)
      BY <1>1, <2>1
    <3> QED
      BY <1>1, <3>1
  <2>3. q = 1 \/ 1 < q
    BY <1>1
  <2>4. buffer[1] <= o[1] /\ buffer[1] \in Nat
    BY <1>1, <2>1, <2>2, <2>3 DEF BufferContext, Rising
  <2>5. o[2] \in buffer[1] .. (next - 1)
    BY <1>1, <1>2, <2>4
  <2>6. o[2] \notin gone
    BY <1>1, SparedStarts
  <2>7. In(buffer, o[2])
    BY <2>2, <2>5, <2>6 DEF LossInv, HoldsFrom
  <2> QED
    BY <1>1, <2>7 DEF In, Waits
<1>4. PICK i \in 1 .. Len(sent) : Is(i, o)
  BY <1>2, <1>3 DEF LossInv, Reached
<1>5. ASSUME NEW j \in 1 .. Len(sent), Is(j, o) PROVE j = i
  <2>1. 1 \in 1 .. Len(sent[i].data) /\ sent[j].data = sent[i].data /\ sent[i].data[1] = o[1]
    <3>1. Len(Units(o[1], o[2])) = o[2] + 1 - o[1] /\ Units(o[1], o[2])[1] = o[1]
      <4>1. o[1] <= o[2] + 1
        BY <1>1
      <4>2. Len(Units(o[1], o[2])) = o[2] + 1 - o[1]
        BY <1>1, <4>1, UnitsProperties
      <4> QED
        BY <1>1, <4>2, FramesAre
    <3>2. 1 \in 1 .. (o[2] + 1 - o[1])
      BY <1>1
    <3> QED
      BY <1>4, <1>5, <3>1, <3>2 DEF Is
  <2>2. ~(i < j) /\ ~(j < i)
    <3>1. ~(o[1] < o[1])
      BY <1>1
    <3> QED
      BY <2>1, <3>1 DEF OrderInv, NothingTwice, Ahead
  <2> QED
    BY <1>1, <2>2
<1>6. {k \in DOMAIN sent : Is(k, o)} = {i}
  BY <1>1, <1>4, <1>5
<1> QED
  BY <1>6, FS_Singleton

(* Whatever TS packets are lost, and also when the buffer overflows, every *)
(* frame near which nothing is lost is sent once as it was broadcast, or   *)
(* it still waits; what else is sent overlaps a frame that is not spared;  *)
(* and all is sent in order.  The parser of frames finds its way again     *)
(* (parser.c: FindAlignmentOffset, CheckAlignmentHeader).  What looks like *)
(* the header of a frame is inside of one and leads to the frames behind.  *)
THEOREM FramesFoundAgain == ParserSpec => [](kind \in Framed /\ Recoverable => WholeAndOnce)
<1>1. ParserInit => ParserInv /\ OrderInv /\ LossInv
  BY InitParserInv, InitOrderInv, InitLossInv
<1>2. ParserInv /\ OrderInv /\ LossInv /\ [ParserNext]_parserVars => ParserInv' /\ OrderInv' /\ LossInv'
  BY ParserStep, OrderStep, LossStep
<1>3. ParserInv /\ OrderInv /\ LossInv => (kind \in Framed /\ Recoverable => WholeAndOnce)
  <2> SUFFICES ASSUME ParserInv, OrderInv, LossInv, kind \in Framed, Recoverable PROVE WholeAndOnce
    OBVIOUS
  <2>1. Owed = Frames /\ DOMAIN sent = 1 .. Len(sent)
    BY LenProperties DEF Owed, ParserInv, ParserTypeOK
  <2>2. SparedOnce
    BY <2>1, SparedFrameOnce DEF SparedOnce
  <2>3. OnlyOwedOrSpoilt
    BY <2>1 DEF OnlyOwedOrSpoilt, LossInv, FramesGenuine
  <2>4. InBroadcastOrder
    BY FramesOrdered DEF OrderInv
  <2> QED
    BY <2>2, <2>3, <2>4 DEF WholeAndOnce
<1> QED
  BY <1>1, <1>2, <1>3, PTL DEF ParserSpec
=============================================================================
