--------------------------- MODULE Recordings_proofs ---------------------------
(***************************************************************************)
(* Theorems about the play counts and positions of recordings, for any     *)
(* number of recordings, clients, changes and restarts: a position is what *)
(* a client set last, what was saved survives a restart, and no change of  *)
(* the list is forgotten.                                                  *)
(***************************************************************************)
EXTENDS Recordings, TLAPS

(***************************************************************************)
(* Changes of VDR's list.                                                  *)
(***************************************************************************)
LEMMA PendingStep == ChangePending /\ [Next]_vars => ChangePending'
<1> SUFFICES ASSUME ChangePending, [Next]_vars PROVE ChangePending'
  OBVIOUS
<1>1. ASSUME UNCHANGED <<newState, outdated, trigger>> PROVE ChangePending'
  BY <1>1 DEF ChangePending
<1>2. CASE UNCHANGED vars
  BY <1>1, <1>2 DEF vars, vdr, loop, history
<1>3. CASE VDR
  <2>1. CASE EndScan \/ TimePasses
    BY <1>1, <2>1 DEF EndScan, TimePasses, vdr, loop, history
  <2>2. CASE StartScan \/ \E r \in Recs : Found(r) \/ Delete(r)
    BY <2>2 DEF StartScan, Found, Delete, ListChanged, ChangePending
  <2> QED
    BY <1>3, <2>1, <2>2 DEF VDR
<1>4. CASE Server
  <2>1. CASE CheckState
    BY <2>1 DEF CheckState, ChangePending, history
  <2>2. CASE NotifyClients
    BY <2>2 DEF NotifyClients, ChangePending
  <2>3. CASE TestReload \/ TestChanged \/ Gc
    BY <1>1, <2>3 DEF TestReload, TestChanged, Gc, vdr, history
  <2> QED
    BY <1>4, <2>1, <2>2, <2>3 DEF Server
<1>5. CASE Restart
  BY <1>5 DEF Restart, ChangePending
<1>6. ASSUME NEW c \in Clients, Client(c) PROVE ChangePending'
  BY <1>1, <1>6 DEF Client, GetList, SetLastPlayedPosition, SetPlayCount, SaveOpen,
                    SaveClose, SaveFails, SaveCut, vdr, loop, history
<1> QED
  BY <1>2, <1>3, <1>4, <1>5, <1>6 DEF Next

(* Until the clients are asked to reload the list, a change of it is still *)
(* to be seen by the server or its trigger is set, ChangePending, although *)
(* the trigger is reset after a change of a play count as well: a change   *)
(* sets the state that StateChanged reads, and what that reads is kept in  *)
(* the trigger until the clients are notified (xvdrserver.c:317-324, 344). *)
THEOREM ChangeStaysPending == Spec => []ChangePending
<1>1. Init => ChangePending
  BY DEF Init, ChangePending
<1>2. ChangePending /\ [Next]_vars => ChangePending'
  BY PendingStep
<1> QED
  BY <1>1, <1>2, PTL DEF Spec

-----------------------------------------------------------------------------
(***************************************************************************)
(* Types.                                                                  *)
(***************************************************************************)
Item == [named : BOOLEAN, pos : Values, count : Values]

ListTypes ==
  /\ existing \subseteq Recs /\ listed \subseteq Recs
  /\ scanning \in BOOLEAN /\ newState \in BOOLEAN
  /\ outdated \in BOOLEAN /\ stale \in BOOLEAN /\ forgotten \subseteq Recs

LoopTypes ==
  /\ changed \in BOOLEAN /\ trigger \in BOOLEAN /\ timeout \in BOOLEAN
  /\ gcDue \in BOOLEAN
  /\ server \in {"check", "test", "retest", "gc", "notify"}

DataTypes ==
  /\ DOMAIN cache \subseteq Recs /\ \A r \in DOMAIN cache : cache[r] \in Item
  /\ DOMAIN file \subseteq Recs /\ \A r \in DOMAIN file : file[r] \in Resume

ClientTypes ==
  /\ pc \in [Clients -> {"idle", "save", "write"}]
  /\ setting \in [Clients -> SUBSET Recs]
  /\ position \in [Recs -> Values]

TypeInv == ListTypes /\ LoopTypes /\ DataTypes /\ ClientTypes

LEMMA Zero == 0 \in Values
BY RecordingsAssumption DEF Values

LEMMA InitTypeInv == Init => TypeInv
BY Zero DEF Init, NoLines, TypeInv, ListTypes, LoopTypes, DataTypes, ClientTypes

LEMMA EntryType == ASSUME DataTypes, NEW r PROVE Entry(r) \in Item
BY Zero DEF DataTypes, Entry, NewEntry, Item

\* Registering names the entries that are registered, creates those that are
\* missing and changes no position or count.
LEMMA RegisteredEffect ==
  ASSUME DataTypes, NEW rs \in SUBSET Recs
  PROVE  /\ DOMAIN Registered(rs) = DOMAIN cache \cup rs
         /\ \A r \in DOMAIN cache \cup rs :
              /\ Registered(rs)[r] \in Item
              /\ Registered(rs)[r].pos = Entry(r).pos
              /\ Registered(rs)[r].count = Entry(r).count
<1>1. DOMAIN Registered(rs) = DOMAIN cache \cup rs
  BY DEF Registered
<1>2. ASSUME NEW r \in DOMAIN cache \cup rs
      PROVE  /\ Registered(rs)[r] \in Item
             /\ Registered(rs)[r].pos = Entry(r).pos
             /\ Registered(rs)[r].count = Entry(r).count
  <2>1. Entry(r) \in Item
    BY EntryType
  <2>2. CASE r \in rs
    <3>1. Registered(rs)[r] = [Entry(r) EXCEPT !.named = TRUE]
      BY <2>2 DEF Registered
    <3> QED
      BY <2>1, <3>1 DEF Item
  <2>3. CASE r \notin rs
    <3>1. Registered(rs)[r] = cache[r] /\ Entry(r) = cache[r]
      BY <1>2, <2>3 DEF Registered, Entry
    <3> QED
      BY <2>1, <3>1
  <2> QED
    BY <2>2, <2>3
<1> QED
  BY <1>1, <1>2

LEMMA ListTypesStep == ListTypes /\ [Next]_vars => ListTypes'
<1> SUFFICES ASSUME ListTypes, [Next]_vars PROVE ListTypes'
  OBVIOUS
<1> USE DEF ListTypes, vdr, history
<1>1. CASE UNCHANGED vars
  BY <1>1 DEF vars
<1>2. CASE VDR
  BY <1>2 DEF VDR, StartScan, Found, EndScan, Delete, TimePasses, ListChanged
<1>3. CASE Server
  BY <1>3 DEF Server, CheckState, TestReload, TestChanged, Gc, NotifyClients
<1>4. CASE Restart
  BY <1>4 DEF Restart, Unlocked
<1>5. ASSUME NEW c \in Clients, Client(c) PROVE ListTypes'
  BY <1>5 DEF Client, GetList, SetLastPlayedPosition, SetPlayCount, SaveOpen, SaveClose,
         SaveFails, SaveCut, Answered
<1> QED
  BY <1>1, <1>2, <1>3, <1>4, <1>5 DEF Next

LEMMA LoopTypesStep == LoopTypes /\ [Next]_vars => LoopTypes'
<1> SUFFICES ASSUME LoopTypes, [Next]_vars PROVE LoopTypes'
  OBVIOUS
<1> USE DEF LoopTypes, data, loop, history
<1>1. CASE UNCHANGED vars
  BY <1>1 DEF vars
<1>2. CASE VDR
  BY <1>2 DEF VDR, StartScan, Found, EndScan, Delete, TimePasses
<1>3. CASE Server
  BY <1>3 DEF Server, CheckState, TestReload, TestChanged, Gc, NotifyClients, ReloadDue
<1>4. CASE Restart
  BY <1>4 DEF Restart
<1>5. ASSUME NEW c \in Clients, Client(c) PROVE LoopTypes'
  <2>1. CASE GetList(c) \/ SaveOpen(c) \/ SaveClose(c) \/ SaveFails(c) \/ SaveCut(c)
    BY <2>1 DEF GetList, SaveOpen, SaveClose, SaveFails, SaveCut
  <2>2. ASSUME NEW r \in Recs, NEW v \in Values, SetLastPlayedPosition(c, r, v)
        PROVE  LoopTypes'
    BY <2>2 DEF SetLastPlayedPosition
  <2>3. ASSUME NEW r \in Recs, NEW v \in Values, SetPlayCount(c, r, v)
        PROVE  LoopTypes'
    BY <2>3 DEF SetPlayCount
  <2> QED
    BY <1>5, <2>1, <2>2, <2>3 DEF Client
<1> QED
  BY <1>1, <1>2, <1>3, <1>4, <1>5 DEF Next

\* Setting a position or a count leaves the rest of the cache alone.
LEMMA SetEffect ==
  ASSUME DataTypes, NEW r \in DOMAIN cache, NEW v \in Values, NEW new,
         new = [cache EXCEPT ![r].pos = v] \/ new = [cache EXCEPT ![r].count = v]
  PROVE  /\ DOMAIN new = DOMAIN cache /\ \A x \in DOMAIN new : new[x] \in Item
         /\ \A x \in DOMAIN new \ {r} : new[x] = cache[x]
         /\ new = [cache EXCEPT ![r].pos = v] =>
              new[r].pos = v /\ new[r].count = cache[r].count
         /\ new = [cache EXCEPT ![r].count = v] => new[r].pos = cache[r].pos
<1>1. \A x \in DOMAIN cache : cache[x] \in Item
  BY DEF DataTypes
<1> DEFINE a == [cache[r] EXCEPT !.pos = v]
           b == [cache[r] EXCEPT !.count = v]
<1>2. /\ a \in Item /\ a.pos = v /\ a.count = cache[r].count
      /\ b \in Item /\ b.pos = cache[r].pos
  BY <1>1 DEF Item
<1>3. CASE new = [cache EXCEPT ![r].pos = v]
  <2>1. new = [cache EXCEPT ![r] = a]
    BY <1>3
  <2> HIDE DEF a, b
  <2>2. DOMAIN new = DOMAIN cache /\ new[r] = a
        /\ \A x \in DOMAIN cache \ {r} : new[x] = cache[x]
    BY <2>1
  <2>3. new = [cache EXCEPT ![r].count = v] => new[r] = b
    BY DEF b
  <2> QED
    BY <1>1, <1>2, <2>2, <2>3
<1>4. CASE new = [cache EXCEPT ![r].count = v]
  <2>1. new = [cache EXCEPT ![r] = b]
    BY <1>4
  <2> HIDE DEF a, b
  <2>2. DOMAIN new = DOMAIN cache /\ new[r] = b
        /\ \A x \in DOMAIN cache \ {r} : new[x] = cache[x]
    BY <2>1
  <2>3. new = [cache EXCEPT ![r].pos = v] => new[r] = a
    BY DEF a
  <2> QED
    BY <1>1, <1>2, <2>2, <2>3
<1> QED
  BY <1>3, <1>4

LEMMA LinesType ==
  ASSUME DataTypes
  PROVE  /\ DOMAIN Lines \subseteq Recs /\ \A r \in DOMAIN Lines : Lines[r] \in Resume
         /\ \A r \in DOMAIN Lines : /\ r \in DOMAIN cache
                                    /\ Lines[r].pos = cache[r].pos
                                    /\ Lines[r].count = cache[r].count
         /\ \A r \in DOMAIN cache \ DOMAIN Lines : cache[r].pos = 0 /\ cache[r].count = 0
BY DEF DataTypes, Lines, Worth, Item, Resume

LEMMA DataTypesStep == ListTypes /\ DataTypes /\ [Next]_vars => DataTypes'
<1> SUFFICES ASSUME ListTypes, DataTypes, [Next]_vars PROVE DataTypes'
  OBVIOUS
<1>0. listed \in SUBSET Recs
  BY DEF ListTypes
<1>1. ASSUME UNCHANGED <<cache, file>> PROVE DataTypes'
  BY <1>1 DEF DataTypes
<1>2. CASE UNCHANGED vars
  BY <1>1, <1>2 DEF vars, data
<1>3. CASE VDR
  BY <1>1, <1>3 DEF VDR, StartScan, Found, EndScan, Delete, TimePasses, data
<1>4. CASE CheckState \/ TestReload \/ TestChanged \/ NotifyClients
  BY <1>1, <1>4 DEF CheckState, TestReload, TestChanged, NotifyClients, data
<1>5. CASE Gc
  BY <1>0, <1>5, RegisteredEffect DEF Gc, Outdated, DataTypes
<1>6. CASE Restart
  <2>1. ASSUME NEW r \in DOMAIN file
        PROVE  [named |-> FALSE, pos |-> file[r].pos, count |-> file[r].count] \in Item
    BY DEF DataTypes, Resume, Item
  <2> QED
    BY <1>6, <2>1 DEF Restart, DataTypes
<1>7. ASSUME NEW c \in Clients, Client(c) PROVE DataTypes'
  <2>1. CASE GetList(c)
    BY <1>0, <2>1, RegisteredEffect DEF GetList, DataTypes
  <2>2. CASE SaveOpen(c)
    BY <2>2 DEF SaveOpen, DataTypes, NoLines
  <2>3. CASE SaveClose(c)
    BY <2>3, LinesType DEF SaveClose, DataTypes
  <2>5. CASE SaveFails(c)
    BY <1>1, <2>5 DEF SaveFails, data
  <2>6. CASE SaveCut(c)
    <3>1. PICK rs \in SUBSET DOMAIN Lines : file' = [r \in rs |-> Lines[r]]
      BY <2>6 DEF SaveCut
    <3> QED
      BY <2>6, <3>1, LinesType DEF SaveCut, DataTypes
  <2>4. ASSUME NEW r \in Recs, NEW v \in Values,
               SetLastPlayedPosition(c, r, v) \/ SetPlayCount(c, r, v)
        PROVE  DataTypes'
    <3>1. UNCHANGED file
      BY <2>4 DEF SetLastPlayedPosition, SetPlayCount
    <3>2. CASE r \notin DOMAIN cache
      BY <1>1, <2>4, <3>1, <3>2 DEF SetLastPlayedPosition, SetPlayCount
    <3>3. CASE r \in DOMAIN cache
      <4>1. cache' = [cache EXCEPT ![r].pos = v] \/ cache' = [cache EXCEPT ![r].count = v]
        BY <2>4, <3>3 DEF SetLastPlayedPosition, SetPlayCount
      <4> QED
        BY <3>1, <3>3, <4>1, SetEffect DEF DataTypes
    <3> QED
      BY <3>2, <3>3
  <2> QED
    BY <1>7, <2>1, <2>2, <2>3, <2>4, <2>5, <2>6 DEF Client
<1> QED
  BY <1>2, <1>3, <1>4, <1>5, <1>6, <1>7 DEF Next, Server

LEMMA ClientTypesStep == DataTypes /\ ClientTypes /\ [Next]_vars => ClientTypes'
<1> SUFFICES ASSUME DataTypes, ClientTypes, [Next]_vars PROVE ClientTypes'
  OBVIOUS
<1>1. ASSUME UNCHANGED <<pc, setting, position>> PROVE ClientTypes'
  BY <1>1 DEF ClientTypes
<1>2. CASE UNCHANGED vars
  BY <1>1, <1>2 DEF vars, history
<1>3. CASE VDR
  BY <1>1, <1>3 DEF VDR, StartScan, Found, EndScan, Delete, TimePasses, history
<1>4. CASE Server
  BY <1>1, <1>4 DEF Server, CheckState, TestReload, TestChanged, Gc, NotifyClients, history
<1>5. CASE Restart
  <2>1. \A r \in DOMAIN file : file[r].pos \in Values
    BY DEF DataTypes, Resume
  <2>2. position' \in [Recs -> Values]
    BY <1>5, <2>1, Zero DEF Restart, ClientTypes
  <2> QED
    BY <1>5, <2>2 DEF Restart, ClientTypes
<1>6. ASSUME NEW c \in Clients, Client(c) PROVE ClientTypes'
  <2>1. CASE GetList(c)
    BY <1>1, <2>1 DEF GetList, history
  <2>2. CASE SaveOpen(c) \/ SaveClose(c) \/ SaveFails(c) \/ SaveCut(c)
    BY <2>2 DEF SaveOpen, SaveClose, SaveFails, SaveCut, Answered, ClientTypes,
                history
  <2>3. ASSUME NEW r \in Recs, NEW v \in Values,
               SetLastPlayedPosition(c, r, v) \/ SetPlayCount(c, r, v)
        PROVE  ClientTypes'
    BY <2>3 DEF SetLastPlayedPosition, SetPlayCount, ClientTypes, history
  <2> QED
    BY <1>6, <2>1, <2>2, <2>3 DEF Client
<1> QED
  BY <1>2, <1>3, <1>4, <1>5, <1>6 DEF Next

LEMMA TypeStep == TypeInv /\ [Next]_vars => TypeInv'
BY ListTypesStep, LoopTypesStep, DataTypesStep, ClientTypesStep DEF TypeInv

(* The types: cache and resume.data only have entries of recordings that   *)
(* exist or once did, whose positions and counts are in their range.       *)
THEOREM TypeCorrect == Spec => []TypeOK
<1>1. Init => TypeInv
  BY InitTypeInv
<1>2. TypeInv /\ [Next]_vars => TypeInv'
  BY TypeStep
<1>3. TypeInv => TypeOK
  BY DEF TypeInv, ListTypes, LoopTypes, DataTypes, ClientTypes, TypeOK, Item
<1> QED
  BY <1>1, <1>2, <1>3, PTL DEF Spec

-----------------------------------------------------------------------------
(***************************************************************************)
(* Positions.  VDR's list has what exists unless VDR is filling it.  One   *)
(* client at a time writes the file, and only those whose request is not   *)
(* finished have a position that may not be in it yet.                     *)
(***************************************************************************)
ListInv == listed \subseteq existing /\ (~scanning => existing \subseteq listed)

WriterInv ==
  /\ \A c \in Clients : pc[c] = "idle" => setting[c] = {}
  /\ \A c, d \in Clients : pc[c] = "write" /\ pc[d] = "write" => c = d

\* What resume.data holds of r, and what the cache does.
Saved(r) == IF r \in DOMAIN file THEN file[r] ELSE [pos |-> 0, count |-> 0]
Value(r) == [pos |-> Entry(r).pos, count |-> Entry(r).count]

\* The cache has the last position of what is not forgotten, and so has the
\* file if nobody writes it or is about to and it is not stale.
CacheKept == \A r \in existing \ forgotten : Entry(r).pos = position[r]
FileKept ==
  Unlocked /\ ~stale => \A r \in existing \ forgotten :
     (\A c \in Clients : r \notin setting[c]) => Saved(r).pos = position[r]

\* Once all requests are finished, the file has all that the cache has.
AllSaved ==
  (\A c \in Clients : pc[c] = "idle") /\ ~stale =>
     \A r \in existing \cup DOMAIN cache : Saved(r) = Value(r)

KeptInv == CacheKept /\ FileKept /\ AllSaved

PositionInv == ListInv /\ WriterInv /\ KeptInv

LEMMA ListStep == ListInv /\ [Next]_vars => ListInv'
<1> SUFFICES ASSUME ListInv, [Next]_vars PROVE ListInv'
  OBVIOUS
<1> USE DEF ListInv, vdr
<1>1. CASE UNCHANGED vars
  BY <1>1 DEF vars
<1>2. CASE VDR
  BY <1>2 DEF VDR, StartScan, Found, EndScan, Delete, TimePasses
<1>3. CASE Server
  BY <1>3 DEF Server, CheckState, TestReload, TestChanged, Gc, NotifyClients
<1>4. CASE Restart
  BY <1>4 DEF Restart
<1>5. ASSUME NEW c \in Clients, Client(c) PROVE ListInv'
  BY <1>5 DEF Client, GetList, SetLastPlayedPosition, SetPlayCount, SaveOpen, SaveClose,
         SaveFails, SaveCut, Answered
<1> QED
  BY <1>1, <1>2, <1>3, <1>4, <1>5 DEF Next

LEMMA WriterStep == ClientTypes /\ WriterInv /\ [Next]_vars => WriterInv'
<1> SUFFICES ASSUME ClientTypes, WriterInv, [Next]_vars PROVE WriterInv'
  OBVIOUS
<1>1. ASSUME UNCHANGED <<pc, setting>> PROVE WriterInv'
  BY <1>1 DEF WriterInv
<1>2. CASE UNCHANGED vars
  BY <1>1, <1>2 DEF vars, history
<1>3. CASE VDR
  BY <1>1, <1>3 DEF VDR, StartScan, Found, EndScan, Delete, TimePasses, history
<1>4. CASE Server
  BY <1>1, <1>4 DEF Server, CheckState, TestReload, TestChanged, Gc, NotifyClients, history
<1>5. CASE Restart
  BY <1>5 DEF Restart, WriterInv
<1>6. ASSUME NEW c \in Clients, Client(c) PROVE WriterInv'
  <2>1. CASE GetList(c)
    BY <1>1, <2>1 DEF GetList, history
  <2>2. CASE SaveOpen(c)
    BY <2>2 DEF SaveOpen, Unlocked, WriterInv, ClientTypes, history
  <2>3. CASE SaveClose(c) \/ SaveCut(c) \/ SaveFails(c)
    BY <2>3 DEF SaveClose, SaveCut, SaveFails, Answered, WriterInv, ClientTypes
  <2>4. ASSUME NEW r \in Recs, NEW v \in Values,
               SetLastPlayedPosition(c, r, v) \/ SetPlayCount(c, r, v)
        PROVE  WriterInv'
    BY <2>4 DEF SetLastPlayedPosition, SetPlayCount, WriterInv, ClientTypes, history
  <2> QED
    BY <1>6, <2>1, <2>2, <2>3, <2>4 DEF Client
<1> QED
  BY <1>2, <1>3, <1>4, <1>5, <1>6 DEF Next

\* A step of VDR or of the server that leaves positions and clients alone.
LEMMA QuietStep ==
  ASSUME KeptInv, existing' \subseteq existing,
         UNCHANGED <<cache, file, pc, setting, position, stale, forgotten>>
  PROVE  KeptInv'
BY DEF KeptInv, CacheKept, FileKept, AllSaved, Entry, Saved, Value, Unlocked

\* A step that does not change what the cache has of the recordings that
\* exist, but for those it forgets, nor more of the others than to forget
\* them.
LEMMA SameEntries ==
  ASSUME KeptInv, existing' = existing,
         UNCHANGED <<file, pc, setting, position>>,
         stale => stale', forgotten \subseteq forgotten',
         \A r \in existing \ forgotten' : Entry(r)'.pos = Entry(r).pos,
         ~stale' => \A r \in existing \cup DOMAIN cache' :
                      /\ Entry(r)'.pos = Entry(r).pos /\ Entry(r)'.count = Entry(r).count
                      /\ r \in existing \cup DOMAIN cache
  PROVE  KeptInv'
<1>1. CacheKept /\ FileKept /\ AllSaved
  BY DEF KeptInv
<1>2. \A r : Saved(r)' = Saved(r)
  BY DEF Saved
<1>3. CacheKept'
  BY <1>1 DEF CacheKept
<1>4. FileKept'
  BY <1>1, <1>2 DEF FileKept, Unlocked
<1>5. AllSaved'
  BY <1>1, <1>2 DEF AllSaved, Value
<1> QED
  BY <1>3, <1>4, <1>5 DEF KeptInv

LEMMA GetListStep ==
  ASSUME TypeInv, PositionInv, NEW c \in Clients, GetList(c)
  PROVE  KeptInv'
<1>1. cache' = Registered(listed) /\ listed \subseteq existing /\ existing' = existing
      /\ UNCHANGED <<file, pc, setting, position, stale, forgotten>>
  BY DEF GetList, PositionInv, ListInv, vdr, history
<1>2. DataTypes /\ listed \in SUBSET Recs
  BY DEF TypeInv, ListTypes
<1>3. /\ DOMAIN cache' = DOMAIN cache \cup listed
      /\ \A r \in DOMAIN cache' : /\ cache'[r].pos = Entry(r).pos
                                  /\ cache'[r].count = Entry(r).count
  BY <1>1, <1>2, RegisteredEffect
<1>4. ASSUME NEW r \in existing \cup DOMAIN cache'
      PROVE  /\ Entry(r)'.pos = Entry(r).pos /\ Entry(r)'.count = Entry(r).count
             /\ r \in existing \cup DOMAIN cache
  <2>1. CASE r \in DOMAIN cache'
    BY <1>1, <1>3, <2>1 DEF Entry
  <2>2. CASE r \notin DOMAIN cache'
    BY <1>3, <2>2 DEF Entry
  <2> QED
    BY <2>1, <2>2
<1> QED
  BY <1>1, <1>4, SameEntries DEF PositionInv

LEMMA GcStep ==
  ASSUME TypeInv, PositionInv, Gc
  PROVE  KeptInv'
<1> DEFINE all  == Registered(listed)
           gone == Outdated(DOMAIN all)
           lost == IF scanning THEN gone \cap existing ELSE {}
<1>1. /\ cache' = [r \in DOMAIN all \ gone |-> all[r]]
      /\ forgotten' = forgotten \cup lost /\ stale' = (stale \/ lost # {})
      /\ existing' = existing
      /\ UNCHANGED <<file, pc, setting, position>>
  BY DEF Gc, vdr
<1>2. /\ DataTypes /\ listed \in SUBSET Recs /\ listed \subseteq existing
      /\ ~scanning => existing \subseteq listed
      /\ scanning \in BOOLEAN /\ stale \in BOOLEAN
  BY DEF TypeInv, ListTypes, PositionInv, ListInv
<1>3. /\ DOMAIN all = DOMAIN cache \cup listed
      /\ \A r \in DOMAIN all : all[r].pos = Entry(r).pos /\ all[r].count = Entry(r).count
  BY <1>2, RegisteredEffect
<1>4. gone \subseteq DOMAIN all /\ gone \cap listed = {}
  BY DEF Outdated
<1> HIDE DEF all, gone
<1>5. gone \cap existing = lost
  BY <1>2, <1>4
<1> HIDE DEF lost
<1>6. ASSUME NEW r \in existing \cup DOMAIN cache', r \notin lost
      PROVE  /\ Entry(r)'.pos = Entry(r).pos /\ Entry(r)'.count = Entry(r).count
             /\ r \in existing \cup DOMAIN cache
  <2>1. r \notin gone
    BY <1>1, <1>5, <1>6
  <2>2. CASE r \in DOMAIN all
    <3>1. r \in DOMAIN cache' /\ cache'[r] = all[r]
      BY <1>1, <2>1, <2>2
    <3>2. Entry(r)' = all[r]
      BY <3>1 DEF Entry
    <3> QED
      BY <1>2, <1>3, <2>2, <3>2
  <2>3. CASE r \notin DOMAIN all
    <3>1. r \notin DOMAIN cache /\ r \notin DOMAIN cache' /\ r \in existing
      BY <1>1, <1>3, <1>6, <2>3
    <3> QED
      BY <3>1 DEF Entry
  <2> QED
    BY <2>2, <2>3
<1>7. \A r \in existing \ forgotten' : Entry(r)'.pos = Entry(r).pos
  BY <1>1, <1>6
<1>8. ~stale' => lost = {}
  BY <1>1
<1>9. (stale => stale') /\ forgotten \subseteq forgotten'
  BY <1>1
<1> QED
  BY <1>1, <1>6, <1>7, <1>8, <1>9, SameEntries DEF PositionInv

\* A position or a play count is set in the cache; the file is to follow.
LEMMA SetStep ==
  ASSUME TypeInv, PositionInv, NEW c \in Clients, NEW r \in Recs, NEW v \in Values,
         SetLastPlayedPosition(c, r, v) \/ SetPlayCount(c, r, v)
  PROVE  KeptInv'
<1> SUFFICES CacheKept' /\ FileKept' /\ AllSaved'
  BY DEF KeptInv
<1>1. /\ pc[c] = "idle" /\ Unlocked /\ pc' = [pc EXCEPT ![c] = "save"]
      /\ UNCHANGED <<existing, file, stale>>
  BY DEF SetLastPlayedPosition, SetPlayCount, vdr, history
<1>2. CacheKept /\ FileKept /\ setting[c] = {}
  BY <1>1 DEF PositionInv, KeptInv, WriterInv
<1>3. /\ pc \in [Clients -> {"idle", "save", "write"}]
      /\ setting \in [Clients -> SUBSET Recs] /\ position \in [Recs -> Values]
      /\ DataTypes
  BY DEF TypeInv, ClientTypes
<1>4. AllSaved'
  <2>1. pc'[c] = "save"
    BY <1>1, <1>3
  <2> QED
    BY <2>1 DEF AllSaved
<1>5. \A x : Saved(x)' = Saved(x)
  BY <1>1 DEF Saved
<1>6. CASE UNCHANGED <<setting, position, forgotten>> /\ \A x : Entry(x)'.pos = Entry(x).pos
  BY <1>1, <1>2, <1>4, <1>5, <1>6 DEF CacheKept, FileKept
<1>7. CASE r \in DOMAIN cache /\ SetPlayCount(c, r, v)
  <2>1. /\ cache' = [cache EXCEPT ![r].count = v]
        /\ UNCHANGED <<setting, position, forgotten>>
    BY <1>7 DEF SetPlayCount, history
  <2>2. /\ DOMAIN cache' = DOMAIN cache
        /\ \A x \in DOMAIN cache : cache'[x].pos = cache[x].pos
    BY <1>3, <1>7, <2>1, SetEffect
  <2>3. \A x : Entry(x)'.pos = Entry(x).pos
    BY <2>2 DEF Entry
  <2> QED
    BY <1>6, <2>1, <2>3
<1>8. CASE r \in DOMAIN cache /\ SetLastPlayedPosition(c, r, v)
  <2>1. /\ cache' = [cache EXCEPT ![r].pos = v]
        /\ position' = [position EXCEPT ![r] = v]
        /\ setting' = [setting EXCEPT ![c] = {r}]
        /\ forgotten' = forgotten \ {r}
    BY <1>8 DEF SetLastPlayedPosition
  <2>2. /\ DOMAIN cache' = DOMAIN cache /\ cache'[r].pos = v
        /\ \A x \in DOMAIN cache \ {r} : cache'[x] = cache[x]
    BY <1>3, <1>8, <2>1, SetEffect
  <2>3. Entry(r)'.pos = v /\ \A x : x # r => Entry(x)' = Entry(x)
    BY <1>8, <2>2 DEF Entry
  <2>4. /\ position'[r] = v /\ \A x \in Recs : x # r => position'[x] = position[x]
        /\ existing \subseteq Recs
    BY <1>3, <2>1 DEF TypeInv, ListTypes
  <2>5. CacheKept'
    BY <1>1, <1>2, <2>1, <2>3, <2>4 DEF CacheKept
  <2>6. ASSUME ~stale, NEW x \in existing \ forgotten', \A d \in Clients : x \notin setting'[d]
        PROVE  Saved(x)'.pos = position'[x]
    <3>1. x # r /\ \A d \in Clients : x \notin setting[d]
      BY <1>2, <1>3, <2>1, <2>6
    <3>2. x \in existing \ forgotten
      BY <2>1, <2>6, <3>1
    <3> QED
      BY <1>1, <1>2, <1>5, <2>4, <2>6, <3>1, <3>2 DEF FileKept
  <2>7. FileKept'
    BY <1>1, <2>6 DEF FileKept
  <2> QED
    BY <1>4, <2>5, <2>7
<1>9. CASE r \notin DOMAIN cache
  <2>1. UNCHANGED <<cache, setting, position, forgotten>>
    BY <1>9 DEF SetLastPlayedPosition, SetPlayCount, history
  <2> QED
    BY <1>6, <2>1 DEF Entry
<1> QED
  BY <1>7, <1>8, <1>9

LEMMA OpenStep ==
  ASSUME TypeInv, PositionInv, NEW c \in Clients, SaveOpen(c)
  PROVE  KeptInv'
<1> SUFFICES CacheKept' /\ FileKept' /\ AllSaved'
  BY DEF KeptInv
<1>1. pc'[c] = "write" /\ UNCHANGED <<existing, cache, position, forgotten>>
  BY DEF SaveOpen, vdr, history, TypeInv, ClientTypes
<1>2. CacheKept'
  BY <1>1 DEF PositionInv, KeptInv, CacheKept, Entry
<1>3. ~Unlocked' /\ AllSaved'
  BY <1>1 DEF Unlocked, AllSaved
<1> QED
  BY <1>2, <1>3 DEF FileKept

\* The file that was written has everything that is in the cache.
LEMMA CloseStep ==
  ASSUME TypeInv, PositionInv, NEW c \in Clients, SaveClose(c)
  PROVE  KeptInv'
<1> SUFFICES CacheKept' /\ FileKept' /\ AllSaved'
  BY DEF KeptInv
<1>1. UNCHANGED <<existing, cache, position, forgotten>> /\ file' = Lines
  BY DEF SaveClose, vdr
<1>2. \A r : Entry(r)' = Entry(r)
  BY <1>1 DEF Entry
<1>3. CacheKept /\ CacheKept'
  BY <1>1, <1>2 DEF PositionInv, KeptInv, CacheKept
<1>4. ASSUME NEW r PROVE Saved(r)' = Value(r)' /\ Saved(r)'.pos = Entry(r)'.pos
  <2>0. Value(r)' = [pos |-> Entry(r).pos, count |-> Entry(r).count]
    BY <1>2 DEF Value
  <2>1. /\ \A x \in DOMAIN Lines : Lines[x] \in Resume
        /\ \A x \in DOMAIN Lines : /\ x \in DOMAIN cache
                                   /\ Lines[x].pos = cache[x].pos
                                   /\ Lines[x].count = cache[x].count
        /\ \A x \in DOMAIN cache \ DOMAIN Lines : cache[x].pos = 0 /\ cache[x].count = 0
    BY LinesType DEF TypeInv
  <2>2. CASE r \in DOMAIN Lines
    <3>1. Saved(r)' = Lines[r] /\ Entry(r) = cache[r]
      BY <1>1, <2>1, <2>2 DEF Saved, Entry
    <3>2. Lines[r] = [pos |-> Lines[r].pos, count |-> Lines[r].count]
      BY <2>1, <2>2 DEF Resume
    <3> QED
      BY <1>2, <2>0, <2>1, <2>2, <3>1, <3>2
  <2>3. CASE r \notin DOMAIN Lines
    <3>1. Saved(r)' = [pos |-> 0, count |-> 0]
      BY <1>1, <2>3 DEF Saved
    <3>2. Entry(r).pos = 0 /\ Entry(r).count = 0
      BY <2>1, <2>3 DEF Entry, NewEntry
    <3> QED
      BY <1>2, <2>0, <3>1, <3>2
  <2> QED
    BY <2>2, <2>3
<1>5. FileKept'
  BY <1>3, <1>4 DEF FileKept, CacheKept
<1>6. AllSaved'
  BY <1>4 DEF AllSaved
<1> QED
  BY <1>3, <1>5, <1>6

\* A save that fails, as a whole or in part, leaves the file stale.
LEMMA FailStep ==
  ASSUME TypeInv, PositionInv, NEW c \in Clients, SaveFails(c) \/ SaveCut(c)
  PROVE  KeptInv'
<1>1. UNCHANGED <<existing, cache, position, forgotten>> /\ stale' = TRUE
  BY DEF SaveFails, SaveCut, vdr, data
<1>2. CacheKept'
  BY <1>1 DEF PositionInv, KeptInv, CacheKept, Entry
<1> QED
  BY <1>1, <1>2 DEF KeptInv, FileKept, AllSaved

\* After a restart the cache has what the file had.
LEMMA RestartStep ==
  ASSUME TypeInv, PositionInv, Restart
  PROVE  KeptInv'
<1>1. UNCHANGED <<existing, file>> /\ existing \subseteq Recs
  BY DEF Restart, TypeInv, ListTypes
<1>2. PICK readable \in BOOLEAN :
        /\ cache' = [x \in (IF readable THEN DOMAIN file ELSE {}) |->
                       [named |-> FALSE, pos |-> file[x].pos, count |-> file[x].count]]
        /\ forgotten' = IF readable /\ Unlocked /\ ~stale THEN forgotten ELSE Recs
        /\ stale' = ~readable
  BY DEF Restart
<1>3. CASE ~readable
  BY <1>1, <1>2, <1>3 DEF KeptInv, CacheKept, FileKept, AllSaved
<1>4. CASE readable
  <2>1. cache' = [x \in DOMAIN file |->
                    [named |-> FALSE, pos |-> file[x].pos, count |-> file[x].count]]
    BY <1>2, <1>4
  <2>2. ASSUME NEW r PROVE Saved(r)' = Saved(r) /\ Entry(r)'.pos = Saved(r).pos
                           /\ Saved(r)' = Value(r)'
    <3>1. Saved(r)' = Saved(r)
      BY <1>1 DEF Saved
    <3>2. Value(r)' = [pos |-> Entry(r)'.pos, count |-> Entry(r)'.count]
      BY DEF Value
    <3>3. CASE r \in DOMAIN file
      <4>1. Entry(r)' = [named |-> FALSE, pos |-> file[r].pos, count |-> file[r].count]
        BY <2>1, <3>3 DEF Entry
      <4>2. /\ Saved(r) = file[r]
            /\ file[r] = [pos |-> file[r].pos, count |-> file[r].count]
        BY <3>3 DEF Saved, TypeInv, DataTypes, Resume
      <4> QED
        BY <3>1, <3>2, <4>1, <4>2
    <3>4. CASE r \notin DOMAIN file
      <4>1. Entry(r)' = NewEntry /\ Saved(r) = [pos |-> 0, count |-> 0]
        BY <2>1, <3>4 DEF Entry, Saved
      <4> QED
        BY <3>1, <3>2, <4>1 DEF NewEntry
    <3> QED
      BY <3>3, <3>4
  <2>3. ASSUME NEW r \in existing \ forgotten' PROVE position'[r] = Saved(r).pos
    <3> DEFINE open == UNION {setting[c] : c \in Clients}
    <3>1. r \in Recs /\ Unlocked /\ ~stale /\ r \notin forgotten
      BY <1>1, <1>2, <2>3
    <3>2. position' = [x \in Recs |-> IF x \notin open THEN position[x]
                         ELSE IF x \in DOMAIN file THEN file[x].pos ELSE 0]
      BY DEF Restart
    <3>3. CASE r \notin open
      <4>1. \A c \in Clients : r \notin setting[c]
        BY <3>3
      <4>2. position[r] = Saved(r).pos
        BY <2>3, <3>1, <4>1 DEF PositionInv, KeptInv, FileKept
      <4> QED
        BY <3>1, <3>2, <3>3, <4>2
    <3>4. CASE r \in open
      <4>1. position'[r] = IF r \in DOMAIN file THEN file[r].pos ELSE 0
        BY <3>1, <3>2, <3>4
      <4> QED
        BY <4>1 DEF Saved
    <3> QED
      BY <3>3, <3>4
  <2>4. CacheKept' /\ FileKept'
    BY <1>1, <2>2, <2>3 DEF CacheKept, FileKept
  <2>5. AllSaved'
    BY <2>2 DEF AllSaved
  <2> QED
    BY <2>4, <2>5 DEF KeptInv
<1> QED
  BY <1>3, <1>4

LEMMA PositionStep == TypeInv /\ PositionInv /\ [Next]_vars => PositionInv'
<1> SUFFICES ASSUME TypeInv, PositionInv, [Next]_vars PROVE PositionInv'
  OBVIOUS
<1>1. ListInv' /\ WriterInv'
  BY ListStep, WriterStep DEF TypeInv, PositionInv
<1>2. KeptInv
  BY DEF PositionInv
<1>3. ASSUME UNCHANGED vars PROVE KeptInv'
  BY <1>2, <1>3, QuietStep DEF vars, vdr, data, history, KeptInv
<1>4. ASSUME VDR PROVE KeptInv'
  BY <1>2, <1>4, QuietStep DEF VDR, StartScan, Found, EndScan, Delete, TimePasses,
                                vdr, data, history
<1>5. ASSUME CheckState \/ TestReload \/ TestChanged \/ NotifyClients PROVE KeptInv'
  BY <1>2, <1>5, QuietStep DEF CheckState, TestReload, TestChanged, NotifyClients,
                                vdr, data, history
<1>6. ASSUME Gc PROVE KeptInv'
  BY <1>6, GcStep
<1>7. ASSUME Restart PROVE KeptInv'
  BY <1>7, RestartStep
<1>8. ASSUME NEW c \in Clients, Client(c) PROVE KeptInv'
  BY <1>8, GetListStep, OpenStep, CloseStep, FailStep, SetStep DEF Client
<1>9. KeptInv'
  BY <1>3, <1>4, <1>5, <1>6, <1>7, <1>8 DEF Next, Server
<1> QED
  BY <1>1, <1>9 DEF PositionInv

LEMMA SpecPositionInv == Spec => [](TypeInv /\ PositionInv)
<1>1. Init => TypeInv
  BY InitTypeInv
<1>2. Init => PositionInv
  BY DEF Init, PositionInv, ListInv, WriterInv, KeptInv, CacheKept, FileKept,
         AllSaved, Entry, NewEntry, NoLines, Saved, Value
<1>3. TypeInv /\ PositionInv /\ [Next]_vars => (TypeInv /\ PositionInv)'
  BY TypeStep, PositionStep
<1> QED
  BY <1>1, <1>2, <1>3, PTL DEF Spec

(* The position of a recording is the last one a client set, PositionKept, *)
(* for any number of recordings, clients, rescans, collections, saves and  *)
(* restarts.  A recording that exists loses it, until it is set again,     *)
(* only if gc (recordingscache.c:202-219) runs while VDR fills its list,   *)
(* or at a restart that comes between fopen and fclose (174-189), after a  *)
(* save that failed (176-190), or when the file cannot be opened (145).    *)
THEOREM PositionStaysKept == Spec => []PositionKept
<1>1. PositionInv => PositionKept
  BY DEF PositionInv, KeptInv, CacheKept, PositionKept, LastPlayedPosition
<1> QED
  BY <1>1, SpecPositionInv, PTL

(* When no request is unfinished the file has what the cache has, OnDisk,  *)
(* whichever clients saved in which order and after every restart that     *)
(* could read the file, unless the last save failed or gc has since        *)
(* removed a recording that exists while VDR filled its list.              *)
THEOREM AnsweredIsOnDisk == Spec => []OnDisk
<1>1. PositionInv => OnDisk
  BY DEF PositionInv, KeptInv, AllSaved, OnDisk, Saved, Value, Entry
<1> QED
  BY <1>1, SpecPositionInv, PTL
=============================================================================
