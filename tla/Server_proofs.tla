----------------------------- MODULE Server_proofs -----------------------------
(***************************************************************************)
(* Theorems about the server, its channel list and any number of clients,  *)
(* for every sequence of lists VDR may come to have: the list a client     *)
(* reads does not change under it, and the types.                          *)
(***************************************************************************)
EXTENDS Server, FiniteSetTheorems, TLAPS

(***************************************************************************)
(* The list that is read.  A client holds no list, or the one that Get()   *)
(* returns now.                                                            *)
(***************************************************************************)
HeldInv ==
  /\ DOMAIN held = Clients
  /\ \A c \in Clients : held[c] \in {NotHeld, Current}

\* VDR changes its list only while nobody reads that, and then nobody holds
\* any list unless it is the private copy.
LEMMA VdrWaits ==
  ASSUME HeldInv, VdrChanges
  PROVE  HeldInv'
<1>1. /\ UNCHANGED channels /\ UNCHANGED held
  BY DEF VdrChanges, client
<1>2. CASE channels.copy = 0
  <2>1. OwnReaders = {}
    BY <1>2 DEF VdrChanges, VdrReaders
  <2>2. \A c \in Clients : held[c] = NotHeld
    BY <2>1 DEF OwnReaders, Reading
  <2> QED
    BY <1>1, <2>2 DEF HeldInv
<1>3. CASE channels.copy # 0
  <2>1. Current' = Current
    BY <1>1, <1>3 DEF Current
  <2> QED
    BY <1>1, <2>1 DEF HeldInv
<1> QED
  BY <1>2, <1>3

\* CheckUpdates replaces the copy only while nobody holds the list.
LEMMA UpgradeWaits ==
  ASSUME HeldInv, Upgrade
  PROVE  HeldInv'
<1>1. \A c \in Clients : held[c] = NotHeld
  BY DEF Upgrade, OwnReaders, Reading
<1> QED
  BY <1>1 DEF HeldInv, Upgrade, client

\* A step that neither changes what Get() returns nor what is held.
LEMMA HeldKept ==
  ASSUME HeldInv, UNCHANGED <<vdrList, channels, held>>
  PROVE  HeldInv'
BY DEF HeldInv, Current

\* A step of a client that locks the list or releases it.
LEMMA HeldOne ==
  ASSUME HeldInv, NEW c \in Clients, Lock(c) \/ Unlock(c),
         UNCHANGED <<vdrList, channels>>
  PROVE  HeldInv'
BY DEF HeldInv, Current, Lock, Unlock

LEMMA HeldStep == HeldInv /\ [Next]_vars => HeldInv'
<1> SUFFICES ASSUME HeldInv, [Next]_vars PROVE HeldInv'
  OBVIOUS
<1>1. CASE UNCHANGED vars
  BY <1>1, HeldKept DEF vars, list, client
<1>2. CASE VdrChanges
  BY <1>2, VdrWaits
<1>3. CASE Elapse
  BY <1>3, HeldKept DEF Elapse, list, client
<1>4. CASE ServerStep
  <2>1. CASE Upgrade
    BY <2>1, UpgradeWaits
  <2>2. CASE RemoveDisconnected
    BY <2>2, HeldKept DEF RemoveDisconnected, list
  <2>3. CASE CheckUpdates \/ Compare \/ EndOfTurn
    BY <2>3, HeldKept DEF CheckUpdates, Compare, EndOfTurn, list, client
  <2>4. ASSUME NEW c \in Clients, ChannelsChanged(c) PROVE HeldInv'
    BY <2>4, HeldKept DEF ChannelsChanged, list
  <2> QED
    BY <1>4, <2>1, <2>2, <2>3, <2>4 DEF ServerStep
<1>5. ASSUME NEW c \in Clients,
             \/ NewClientConnected(c) \/ EnableStatusInterface(c)
             \/ ChannelFilter(c) \/ Close(c) \/ End(c)
      PROVE  HeldInv'
  BY <1>5, HeldKept DEF NewClientConnected, EnableStatusInterface, ChannelFilter,
                        Close, End, list
<1>6. ASSUME NEW c \in Clients,
             LockToCount(c) \/ Open(c) \/ ClientStep(c)
      PROVE  HeldInv'
  BY <1>6, HeldOne DEF LockToCount, Open, ClientStep, Count, LockToSend, Send,
                       FindChannel, list
<1> QED
  BY <1>1, <1>2, <1>3, <1>4, <1>5, <1>6 DEF Next

(* The list a client has locked stays as it was, ListStays, for every      *)
(* number of clients and every list: VDR and CheckUpdates both wait for    *)
(* the readers of what they change (xvdrchannels.c:18, 30-31 and 201-203). *)
THEOREM AlwaysTheSameList == Spec => []ListStays
<1>1. Init => HeldInv
  BY DEF Init, HeldInv
<1>2. HeldInv /\ [Next]_vars => HeldInv'
  BY HeldStep
<1>3. HeldInv => ListStays
  BY DEF HeldInv, ListStays, Reading
<1> QED
  BY <1>1, <1>2, <1>3, PTL DEF Spec

-----------------------------------------------------------------------------
(***************************************************************************)
(* Types.  The server's part and the clients' part are apart: a step of    *)
(* the one leaves the other's variables alone, but for the clients that    *)
(* come and go.                                                            *)
(***************************************************************************)
Hashes == {NoHash} \cup {ChannelsHash(n) : n \in 1 .. vdrList}

ServerTypes ==
  /\ vdrList \in DOMAIN Lists
  /\ channels.copy \in 0 .. 2 /\ channels.list \in 0 .. vdrList
  /\ channels.copy # 0 => channels.list \in DOMAIN Lists
  /\ hash \in Hashes /\ listHash \in Hashes /\ channelsHash \in Hashes
  /\ at \in {"select", "check", "upgrade", "compare", "notify"}
  /\ reloadTrigger \in BOOLEAN /\ elapsed \in BOOLEAN

\* What a client's count of its channels can be.
Counts == {0} \cup UNION {1 .. Cardinality(Lists[n]) : n \in DOMAIN Lists}

ClientTypes ==
  /\ state \in [Clients -> {"none", "connected", "ended"}]
  /\ pc \in [Clients -> {"idle", "count", "between", "send", "find"}]
  /\ channelCount \in [Clients -> Counts]
  /\ DOMAIN streaming = Clients
  /\ \A c \in Clients :
       state[c] # "connected" => pc[c] = "idle" /\ streaming[c] = NoStream

\* Only the clients the server has are still to be notified.
TodoInv ==
  /\ todo \subseteq {c \in Clients : state[c] # "none"}
  /\ at # "notify" => todo = {}

TypeInv == ServerTypes /\ ClientTypes /\ TodoInv

\* The lists are numbered from 1.
LEMMA ListNumbers == \A n \in DOMAIN Lists : n \in Nat /\ n > 0 /\ {0, n} \subseteq 0 .. n
<1> DEFINE k == Cardinality(DOMAIN Lists)
<1>1. DOMAIN Lists = 1 .. k
  BY ServerAssumption
<1> HIDE DEF k
<1>2. \A n \in 1 .. k : n \in Nat /\ n > 0
  OBVIOUS
<1> QED
  BY <1>1, <1>2

LEMMA InitTypeInv == Init => TypeInv
<1> SUFFICES ASSUME Init PROVE TypeInv
  OBVIOUS
<1>1. 1 \in DOMAIN Lists
  BY ServerAssumption
<1>2. ServerTypes
  <2>1. /\ vdrList = 1 /\ channels.copy = 0 /\ channels.list = 0
        /\ hash = NoHash /\ listHash = NoHash /\ channelsHash = NoHash
        /\ at = "select" /\ reloadTrigger = FALSE /\ elapsed = FALSE
    BY DEF Init, VdrsList
  <2>2. 0 \in 0 .. 1 /\ 0 \in 0 .. 2
    OBVIOUS
  <2> QED
    BY <1>1, <2>1, <2>2 DEF ServerTypes, Hashes
<1>3. ClientTypes
  BY DEF Init, ClientTypes, Counts
<1>4. TodoInv
  BY DEF Init, TodoInv
<1> QED
  BY <1>2, <1>3, <1>4 DEF TypeInv

\* A client counts at most the channels of the list that is read.
LEMMA CountOfList ==
  ASSUME ServerTypes, NEW c \in Clients
  PROVE  ChannelsCount(c) \in Counts
<1> DEFINE n == Current.list
           wanted == {ch \in Get : IsChannelWanted(c, ch)}
<1>1. n \in DOMAIN Lists
  BY DEF ServerTypes, Current
<1>2. IsFiniteSet(Lists[n]) /\ wanted \subseteq Lists[n]
  BY <1>1, ServerAssumption DEF Get
<1>3. /\ Cardinality(wanted) <= Cardinality(Lists[n])
      /\ Cardinality(wanted) \in Nat /\ Cardinality(Lists[n]) \in Nat
  BY <1>2, FS_Subset, FS_CardinalityType
<1>4. Cardinality(wanted) \in {0} \cup 1 .. Cardinality(Lists[n])
  BY <1>3
<1> QED
  BY <1>1, <1>4 DEF Counts, ChannelsCount

LEMMA ServerTypesKept ==
  ASSUME ServerTypes,
         UNCHANGED <<list, at, hash, channelsHash, reloadTrigger, elapsed>>
  PROVE  ServerTypes'
BY DEF ServerTypes, Hashes, list

LEMMA ServerTypesStep == ServerTypes /\ [Next]_vars => ServerTypes'
<1> SUFFICES ASSUME ServerTypes, [Next]_vars PROVE ServerTypes'
  OBVIOUS
<1>1. CASE UNCHANGED vars
  BY <1>1, ServerTypesKept DEF vars, server
<1>2. CASE VdrChanges
  <2>1. vdrList \in Nat /\ vdrList + 1 \in DOMAIN Lists
    BY <1>2, ListNumbers DEF VdrChanges, ServerTypes
  <2>2. /\ \A x \in 0 .. vdrList : x \in 0 .. (vdrList + 1)
        /\ \A x \in 1 .. vdrList : x \in 1 .. (vdrList + 1)
    BY <2>1
  <2>3. vdrList' = vdrList + 1 /\ UNCHANGED <<channels, listHash, server>>
    BY <1>2 DEF VdrChanges
  <2>4. \A h \in Hashes : h \in Hashes'
    BY <2>2, <2>3 DEF Hashes, ChannelsHash
  <2> QED
    BY <2>1, <2>2, <2>3, <2>4 DEF ServerTypes, server
<1>3. CASE Elapse
  BY <1>3 DEF Elapse, ServerTypes, Hashes, list
<1>4. CASE RemoveDisconnected
  BY <1>4 DEF RemoveDisconnected, ServerTypes, Hashes, list
<1>5. CASE CheckUpdates
  <2>1. vdrList \in 1 .. vdrList
    BY ListNumbers DEF ServerTypes
  <2>2. ChannelsHash(vdrList) \in Hashes
    BY <2>1 DEF Hashes
  <2> QED
    BY <1>5, <2>2 DEF CheckUpdates, ServerTypes, Hashes, list
<1>6. CASE Upgrade
  <2>1. vdrList \in DOMAIN Lists /\ vdrList \in 0 .. vdrList /\ 0 \in 0 .. vdrList
    BY ListNumbers DEF ServerTypes
  <2>2. channels' \in Reorder /\ UNCHANGED vdrList
    BY <1>6 DEF Upgrade
  <2>3. /\ channels'.copy \in 0 .. 2 /\ channels'.list \in 0 .. vdrList
        /\ channels'.copy # 0 => channels'.list \in DOMAIN Lists
    BY <2>1, <2>2 DEF Reorder, VdrsList
  <2> QED
    BY <1>6, <2>2, <2>3 DEF Upgrade, ServerTypes, Hashes
<1>7. CASE Compare
  BY <1>7 DEF Compare, ServerTypes, Hashes, list, RememberHash
<1>8. CASE EndOfTurn
  BY <1>8 DEF EndOfTurn, ServerTypes, Hashes, list, RememberHash
<1>9. ASSUME NEW c \in Clients,
             \/ ChannelsChanged(c) \/ NewClientConnected(c)
             \/ EnableStatusInterface(c) \/ ChannelFilter(c) \/ LockToCount(c)
             \/ Open(c) \/ Close(c) \/ End(c) \/ ClientStep(c)
      PROVE  ServerTypes'
  BY <1>9, ServerTypesKept
     DEF ChannelsChanged, NewClientConnected, EnableStatusInterface,
         ChannelFilter, LockToCount, Open, Close, End, ClientStep, Count,
         LockToSend, Send, FindChannel, server
<1> QED
  BY <1>1, <1>2, <1>3, <1>4, <1>5, <1>6, <1>7, <1>8, <1>9 DEF Next, ServerStep

LEMMA ClientTypesKept ==
  ASSUME ClientTypes, UNCHANGED <<state, pc, channelCount, streaming>>
  PROVE  ClientTypes'
BY DEF ClientTypes

LEMMA ClientTypesStep == ServerTypes /\ ClientTypes /\ [Next]_vars => ClientTypes'
<1> SUFFICES ASSUME ServerTypes, ClientTypes, [Next]_vars PROVE ClientTypes'
  OBVIOUS
<1>0. 0 \in Counts
  BY DEF Counts
<1>1. CASE UNCHANGED vars
  BY <1>1, ClientTypesKept DEF vars, client
<1>2. CASE VdrChanges \/ Elapse \/ CheckUpdates \/ Upgrade \/ Compare \/ EndOfTurn
  BY <1>2, ClientTypesKept DEF VdrChanges, Elapse, CheckUpdates, Upgrade, Compare,
                               EndOfTurn, client
<1>3. CASE RemoveDisconnected
  BY <1>0, <1>3 DEF RemoveDisconnected, ClientTypes
<1>4. ASSUME NEW c \in Clients,
             ChannelsChanged(c) \/ EnableStatusInterface(c) \/ ChannelFilter(c)
      PROVE  ClientTypes'
  BY <1>4, ClientTypesKept DEF ChannelsChanged, EnableStatusInterface, ChannelFilter
<1>5. ASSUME NEW c \in Clients, NewClientConnected(c)
      PROVE  ClientTypes'
  BY <1>0, <1>5 DEF NewClientConnected, NewClient, ClientTypes
<1>6. ASSUME NEW c \in Clients, LockToCount(c) \/ Open(c) \/ Close(c) \/ End(c)
      PROVE  ClientTypes'
  BY <1>6 DEF LockToCount, Open, Close, End, Request, Idle, ClientTypes
<1>7. ASSUME NEW c \in Clients, LockToSend(c) \/ Send(c) \/ FindChannel(c)
      PROVE  ClientTypes'
  BY <1>7 DEF LockToSend, Send, FindChannel, ClientTypes
<1>8. ASSUME NEW c \in Clients, Count(c)
      PROVE  ClientTypes'
  <2>1. ChannelsCount(c) \in Counts
    BY CountOfList
  <2>2. PICK next \in {"idle", "between"} : pc' = [pc EXCEPT ![c] = next]
    BY <1>8 DEF Count
  <2>3. /\ pc[c] = "count" /\ UNCHANGED <<state, streaming>>
        /\ channelCount' = [channelCount EXCEPT ![c] = ChannelsCount(c)]
    BY <1>8 DEF Count
  <2> QED
    BY <2>1, <2>2, <2>3 DEF ClientTypes
<1> QED
  BY <1>1, <1>2, <1>3, <1>4, <1>5, <1>6, <1>7, <1>8
     DEF Next, ServerStep, ClientStep

LEMMA TodoStep == ClientTypes /\ TodoInv /\ [Next]_vars => TodoInv'
<1> SUFFICES ASSUME ClientTypes, TodoInv, [Next]_vars PROVE TodoInv'
  OBVIOUS
<1>1. ASSUME UNCHANGED <<at, todo, state>> PROVE TodoInv'
  BY <1>1 DEF TodoInv
<1>2. CASE UNCHANGED vars
  BY <1>1, <1>2 DEF vars, server, client
<1>3. CASE VdrChanges \/ Elapse
  BY <1>1, <1>3 DEF VdrChanges, Elapse, server, client
<1>4. CASE CheckUpdates \/ Upgrade \/ Compare \/ EndOfTurn
  BY <1>4 DEF CheckUpdates, Upgrade, Compare, EndOfTurn, TodoInv, client
<1>5. CASE RemoveDisconnected
  BY <1>5 DEF RemoveDisconnected, TodoInv
<1>6. ASSUME NEW c \in Clients, ChannelsChanged(c)
      PROVE  TodoInv'
  BY <1>6 DEF ChannelsChanged, TodoInv
<1>7. ASSUME NEW c \in Clients, NewClientConnected(c) \/ End(c)
      PROVE  TodoInv'
  <2>1. /\ UNCHANGED <<at, todo>>
        /\ \A d \in Clients : state[d] # "none" => state'[d] # "none"
    BY <1>7 DEF NewClientConnected, End, ClientTypes, server
  <2> QED
    BY <2>1 DEF TodoInv
<1>8. ASSUME NEW c \in Clients,
             \/ EnableStatusInterface(c) \/ ChannelFilter(c) \/ LockToCount(c)
             \/ Open(c) \/ Close(c) \/ ClientStep(c)
      PROVE  TodoInv'
  BY <1>1, <1>8 DEF EnableStatusInterface, ChannelFilter, LockToCount, Open, Close,
                    ClientStep, Count, LockToSend, Send, FindChannel, server
<1> QED
  BY <1>2, <1>3, <1>4, <1>5, <1>6, <1>7, <1>8 DEF Next, ServerStep

(* The types, for every number of clients and every sequence of lists: the *)
(* server knows no hash but of a list VDR has had, notifies none but its   *)
(* clients, and a client never counts more channels than a list has.       *)
THEOREM TypeCorrect == Spec => []TypeOK
<1>1. Init => TypeInv
  BY InitTypeInv
<1>2. TypeInv /\ [Next]_vars => TypeInv'
  BY ServerTypesStep, ClientTypesStep, TodoStep DEF TypeInv
<1>3. TypeInv => TypeOK
  <2> SUFFICES ASSUME TypeInv PROVE TypeOK
    OBVIOUS
  <2>1. \A c \in Clients : channelCount[c] \in Counts
    BY DEF TypeInv, ClientTypes
  <2>2. \A c \in Clients :
          \/ channelCount[c] = 0
          \/ \E n \in DOMAIN Lists : channelCount[c] \in 1 .. Cardinality(Lists[n])
    BY <2>1 DEF Counts
  <2> QED
    BY <2>2 DEF TypeInv, ServerTypes, Hashes, ClientTypes, TodoInv, TypeOK
<1> QED
  BY <1>1, <1>2, <1>3, PTL DEF Spec
=============================================================================
