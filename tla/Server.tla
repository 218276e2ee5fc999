-------------------------------- MODULE Server --------------------------------
(***************************************************************************)
(* The server's thread (src/src/xvdr/xvdrserver.c), the channel list that  *)
(* it shares with the clients (src/src/xvdr/xvdrchannels.c) and the life   *)
(* of a client from its connection to its removal, with the requests about *)
(* channels (src/src/xvdr/xvdrclient.c).                                   *)
(*                                                                         *)
(* Two locks are read: the list's own (cXVDRChannels is a cRwLock) and     *)
(* that of the list it stands for, VDR's Channels or a private copy that   *)
(* the command ReorderCmd has put into another order.  VDR writes Channels *)
(* under their lock.  A channel is its UID and whether it is free to air,  *)
(* which stands for all a client's filter asks of it; a list is a set of   *)
(* them, for nothing here depends on their order.  The hash of a list sees *)
(* the UIDs of its channels and nothing else of them.                      *)
(***************************************************************************)
EXTENDS Naturals, FiniteSets

CONSTANTS
  Clients,      \* the connections the server can accept
  Lists,        \* VDR's lists, one after the other
  Uids,         \* the UIDs that clients ask to open
  Asks,         \* the kinds of request each client sends
  MaxRequests   \* bound of the model: requests about channels of each client

NoHash == {}    \* of the list before channels.conf is read

ASSUME ServerAssumption ==
  /\ DOMAIN Lists = 1 .. Cardinality(DOMAIN Lists) /\ 1 \in DOMAIN Lists
  /\ \A n \in DOMAIN Lists :
       /\ IsFiniteSet(Lists[n])
       /\ \A ch \in Lists[n] : ch.uid \in Nat \ {0} /\ ch.fta \in BOOLEAN
  /\ Uids \subseteq Nat \ {0}
  /\ Asks \in [Clients -> SUBSET {"status", "filter", "channels", "stream"}]
  /\ MaxRequests \in [Clients -> Nat]

VARIABLES
  vdrList,       \* Channels: how far VDR has come in Lists
  channels,      \* the list that Get() returns: VDR's or a private copy
  listHash,      \* cXVDRChannels::channelsHash
  at,            \* where the server's thread is
  hash,          \* what CheckUpdates has computed or returned in this turn
  channelsHash,  \* the hash of its last turn, local to Action
  reloadTrigger, \* channelReloadTrigger
  elapsed,       \* channelReloadTimer.Elapsed() is 10 s or more
  todo,          \* the clients ChannelsChanged is still to be called for
  state,         \* each client: "none", "connected", "ended" (not removed)
  enabled,       \* m_StatusInterfaceEnabled
  wantFta,       \* m_wantfta
  channelCount,  \* m_channelCount
  told,          \* a CHANNELCHANGE was queued since it last asked
  streaming,     \* m_Streamer: the channel, or NoStream
  pc,            \* where the client's request is
  wants,         \* the UID a request wants to open
  held,          \* the list a client has locked, as it was then (history)
  requests       \* number of requests (bound)

list   == <<vdrList, channels, listHash>>
server == <<at, hash, channelsHash, reloadTrigger, elapsed, todo>>
client == <<state, enabled, wantFta, channelCount, told, streaming, pc, wants, held, requests>>
vars   == <<list, server, client>>

NoStream == 0
NotHeld  == [copy |-> 0, list |-> 0]
VdrsList == [copy |-> 0, list |-> 0]

\* What Get() refers to: VDR's list as it is now, or the private copy.
Current ==
  [copy |-> channels.copy, list |-> IF channels.copy = 0 THEN vdrList ELSE channels.list]
Get == Lists[Current.list]

\* Number and XOR of the UIDs: two sets of UIDs whose XOR is the same are not
\* considered.
ChannelsHash(n) == {ch.uid : ch \in Lists[n]}

\* IsChannelWanted, without types and languages.
IsChannelWanted(c, ch) == ch.fta => wantFta[c]

ChannelsCount(c) == Cardinality({ch \in Get : IsChannelWanted(c, ch)})
-----------------------------------------------------------------------------
(* The locks.  A waiting writer does not keep readers out: cRwLock prefers *)
(* readers.                                                                *)
Reading == {c \in Clients : held[c] # NotHeld}

\* The list's own lock is held for reading by clients, or by the server
\* while it notifies.
OwnReaders == Reading \cup IF at = "notify" THEN {"server"} ELSE {}

\* The lock of Channels, which CheckUpdates keeps while it waits.
VdrReaders ==
  (IF channels.copy = 0 THEN OwnReaders ELSE {})
    \cup IF at = "upgrade" THEN {"server"} ELSE {}

Lock(c)   == held' = [held EXCEPT ![c] = Current]
Unlock(c) == held' = [held EXCEPT ![c] = NotHeld]

Init ==
  /\ vdrList = 1 /\ channels = VdrsList /\ listHash = NoHash
  /\ at = "select" /\ hash = NoHash /\ channelsHash = NoHash
  /\ reloadTrigger = FALSE /\ elapsed = FALSE /\ todo = {}
  /\ state = [c \in Clients |-> "none"]
  /\ enabled = [c \in Clients |-> FALSE] /\ wantFta = [c \in Clients |-> TRUE]
  /\ channelCount = [c \in Clients |-> 0] /\ told = [c \in Clients |-> FALSE]
  /\ streaming = [c \in Clients |-> NoStream] /\ pc = [c \in Clients |-> "idle"]
  /\ wants = [c \in Clients |-> 0]
  /\ held = [c \in Clients |-> NotHeld] /\ requests = [c \in Clients |-> 0]

\* VDR changes its list; it waits for those who read it.
VdrChanges ==
  /\ vdrList + 1 \in DOMAIN Lists /\ VdrReaders = {}
  /\ vdrList' = vdrList + 1
  /\ UNCHANGED <<channels, listHash, server, client>>
-----------------------------------------------------------------------------
(* The server's thread.                                                    *)

\* Mutant: the constructor does not set m_channelCount.
NewClientUnset(c) ==
  /\ enabled' = [enabled EXCEPT ![c] = FALSE]
  /\ wantFta' = [wantFta EXCEPT ![c] = TRUE]
  /\ channelCount' = [channelCount EXCEPT ![c] = 9999]

\* The constructor of cXVDRClient.
NewClient(c) ==
  /\ enabled' = [enabled EXCEPT ![c] = FALSE]
  /\ wantFta' = [wantFta EXCEPT ![c] = TRUE]
  /\ channelCount' = [channelCount EXCEPT ![c] = 0]

\* A connection is accepted.  A peer that is refused changes nothing.
NewClientConnected(c) ==
  /\ at = "select" /\ state[c] = "none"
  /\ state' = [state EXCEPT ![c] = "connected"]
  /\ NewClient(c)
  /\ UNCHANGED <<list, server, told, streaming, pc, wants, held, requests>>

\* select() times out: ended clients are deleted, and the rest of the turn
\* follows when there are clients left.
RemoveDisconnected ==
  LET Gone(c) == state[c] = "ended"
  IN /\ at = "select"
     /\ state' = [c \in Clients |-> IF Gone(c) THEN "none" ELSE state[c]]
     /\ told' = [c \in Clients |-> told[c] /\ ~Gone(c)]
     /\ enabled' = [c \in Clients |-> enabled[c] /\ ~Gone(c)]
     /\ wantFta' = [c \in Clients |-> wantFta[c] \/ Gone(c)]
     /\ channelCount' = [c \in Clients |-> IF Gone(c) THEN 0 ELSE channelCount[c]]
     /\ at' = IF \E c \in Clients : state[c] = "connected" THEN "check" ELSE "select"
     /\ UNCHANGED <<list, hash, channelsHash, reloadTrigger, elapsed, todo,
                    streaming, pc, wants, held, requests>>

\* CheckUpdates up to its own read lock's release.
CheckUpdates ==
  /\ at = "check"
  /\ hash' = ChannelsHash(vdrList)
  /\ at' = IF hash' = listHash THEN "compare" ELSE "upgrade"
  /\ UNCHANGED <<list, channelsHash, reloadTrigger, elapsed, todo, client>>

\* Reorder: a new copy, or VDR's list when there is no command or it fails.
Reorder == {VdrsList, [copy |-> IF channels.copy = 1 THEN 2 ELSE 1, list |-> vdrList]}

\* Mutant: the read lock is thought to be enough.
UpgradeNow ==
  /\ at = "upgrade"
  /\ channels' \in Reorder
  /\ listHash' = hash
  /\ at' = "compare"
  /\ UNCHANGED <<vdrList, hash, channelsHash, reloadTrigger, elapsed, todo, client>>

\* CheckUpdates with the write lock, under which the old copy is deleted.
\* No other thread calls it, so neither hash nor list have changed.
Upgrade ==
  /\ at = "upgrade" /\ OwnReaders = {}
  /\ channels' \in Reorder
  /\ listHash' = hash
  /\ at' = "compare"
  /\ UNCHANGED <<vdrList, hash, channelsHash, reloadTrigger, elapsed, todo, client>>

\* Mutant: the list as it is at the end of the turn is remembered.
RememberHashLate(h) == ChannelsHash(vdrList)

RememberHash(h) == h

\* Under the read lock: has the list changed, and is it time to say so?
Compare ==
  LET changed == hash # channelsHash
      due     == (reloadTrigger \/ changed) /\ elapsed /\ ~changed
  IN /\ at = "compare"
     /\ reloadTrigger' = (reloadTrigger \/ changed)
     /\ elapsed' = (elapsed /\ ~changed)
     /\ todo' = IF due THEN {c \in Clients : state[c] # "none"} ELSE {}
     /\ at' = IF due THEN "notify" ELSE "select"
     /\ channelsHash' = IF due THEN channelsHash ELSE RememberHash(hash)
     /\ hash' = IF due THEN hash ELSE NoHash
     /\ UNCHANGED <<list, client>>

\* ChannelsChanged of one client, which waits for its m_msgLock.
ChannelsChanged(c) ==
  /\ at = "notify" /\ c \in todo /\ pc[c] = "idle"
  /\ todo' = todo \ {c}
  /\ told' = [told EXCEPT ![c] = @ \/ (enabled[c] /\ channelCount[c] # ChannelsCount(c))]
  /\ UNCHANGED <<list, at, hash, channelsHash, reloadTrigger, elapsed,
                 state, enabled, wantFta, channelCount, streaming, pc, wants, held, requests>>

\* All are notified: the read lock is released.
EndOfTurn ==
  /\ at = "notify" /\ todo = {}
  /\ reloadTrigger' = FALSE /\ elapsed' = FALSE
  /\ at' = "select"
  /\ channelsHash' = RememberHash(hash) /\ hash' = NoHash
  /\ UNCHANGED <<list, todo, client>>

\* Ten seconds have passed since the timer was set, which is only asked while
\* the trigger is set.
Elapse ==
  /\ reloadTrigger /\ ~elapsed /\ elapsed' = TRUE
  /\ UNCHANGED <<list, at, hash, channelsHash, reloadTrigger, todo, client>>
-----------------------------------------------------------------------------
(* The thread of a client.  Its requests hold m_msgLock until they are     *)
(* answered.  A client enables the status interface and sends its filter   *)
(* before it asks for channels.                                            *)
Idle(c) == state[c] = "connected" /\ pc[c] = "idle"

Request(c, kind) ==
  /\ Idle(c) /\ kind \in Asks[c] /\ requests[c] < MaxRequests[c]
  /\ requests' = [requests EXCEPT ![c] = @ + 1]

EnableStatusInterface(c) ==
  /\ Idle(c) /\ "status" \in Asks[c] /\ ~enabled[c]
  /\ enabled' = [enabled EXCEPT ![c] = TRUE]
  /\ UNCHANGED <<list, server, state, wantFta, channelCount, told,
                 streaming, pc, wants, held, requests>>

ChannelFilter(c) ==
  /\ Idle(c) /\ "filter" \in Asks[c] /\ wantFta[c] /\ channelCount[c] = 0
  /\ wantFta' = [wantFta EXCEPT ![c] = FALSE]
  /\ UNCHANGED <<list, server, state, enabled, channelCount, told,
                 streaming, pc, wants, held, requests>>

\* GetChannels, GetGroupMembers and ChannelsCount begin to count.
LockToCount(c) ==
  /\ Request(c, "channels") /\ enabled[c]
  /\ pc' = [pc EXCEPT ![c] = "count"]
  /\ Lock(c)
  /\ UNCHANGED <<list, server, state, enabled, wantFta, channelCount,
                 told, streaming, wants>>

\* The count is kept and the lock released; ChannelsCount is answered with
\* it, GetChannels and GetGroupMembers go on.
Count(c) ==
  /\ pc[c] = "count"
  /\ channelCount' = [channelCount EXCEPT ![c] = ChannelsCount(c)]
  /\ told' = [told EXCEPT ![c] = FALSE]
  /\ Unlock(c)
  /\ \E next \in {"idle", "between"} : pc' = [pc EXCEPT ![c] = next]
  /\ UNCHANGED <<list, server, state, enabled, wantFta, streaming, wants, requests>>

LockToSend(c) ==
  /\ pc[c] = "between"
  /\ pc' = [pc EXCEPT ![c] = "send"]
  /\ Lock(c)
  /\ UNCHANGED <<list, server, state, enabled, wantFta, channelCount,
                 told, streaming, wants, requests>>

\* The channels are in the response.
Send(c) ==
  /\ pc[c] = "send"
  /\ pc' = [pc EXCEPT ![c] = "idle"]
  /\ Unlock(c)
  /\ UNCHANGED <<list, server, state, enabled, wantFta, channelCount,
                 told, streaming, wants, requests>>

\* processChannelStream_Open: the old stream ends, the list is locked.
Open(c) ==
  /\ Request(c, "stream")
  /\ \E uid \in Uids : wants' = [wants EXCEPT ![c] = uid]
  /\ streaming' = [streaming EXCEPT ![c] = NoStream]
  /\ pc' = [pc EXCEPT ![c] = "find"]
  /\ Lock(c)
  /\ UNCHANGED <<list, server, state, enabled, wantFta, channelCount, told>>

\* FindChannelByUID locks the list once more, which no waiting writer may
\* prevent.
FindChannel(c) ==
  /\ pc[c] = "find"
  /\ streaming' = [streaming EXCEPT ![c] =
       IF \E ch \in Get : ch.uid = wants[c] THEN wants[c] ELSE NoStream]
  /\ wants' = [wants EXCEPT ![c] = 0]
  /\ pc' = [pc EXCEPT ![c] = "idle"]
  /\ Unlock(c)
  /\ UNCHANGED <<list, server, state, enabled, wantFta, channelCount, told, requests>>

Close(c) ==
  /\ Idle(c) /\ streaming[c] # NoStream
  /\ streaming' = [streaming EXCEPT ![c] = NoStream]
  /\ UNCHANGED <<list, server, state, enabled, wantFta, channelCount,
                 told, pc, wants, held, requests>>

\* The peer has gone: the thread stops the stream and ends.
End(c) ==
  /\ Idle(c)
  /\ state' = [state EXCEPT ![c] = "ended"]
  /\ streaming' = [streaming EXCEPT ![c] = NoStream]
  /\ UNCHANGED <<list, server, enabled, wantFta, channelCount, told,
                 pc, wants, held, requests>>

ServerStep ==
  RemoveDisconnected \/ CheckUpdates \/ Upgrade \/ Compare \/ EndOfTurn
    \/ \E c \in Clients : ChannelsChanged(c)

ClientStep(c) == Count(c) \/ LockToSend(c) \/ Send(c) \/ FindChannel(c)

Next ==
  \/ VdrChanges \/ Elapse \/ ServerStep
  \/ \E c \in Clients :
       \/ NewClientConnected(c) \/ EnableStatusInterface(c) \/ ChannelFilter(c)
       \/ LockToCount(c) \/ Open(c) \/ Close(c) \/ End(c) \/ ClientStep(c)

(* The threads run and time passes; that a client asks for anything, ends  *)
(* or connects, or that VDR changes its list, is never forced.             *)
Spec ==
  /\ Init /\ [][Next]_vars
  /\ WF_vars(ServerStep) /\ WF_vars(Elapse)
  /\ \A c \in Clients : WF_vars(ClientStep(c))
-----------------------------------------------------------------------------
\* The state has its types: hashes are of lists VDR has had, only clients of
\* the server are notified, and a client counts channels of such a list.
TypeOK ==
  /\ vdrList \in DOMAIN Lists
  /\ channels.copy \in 0 .. 2 /\ channels.list \in 0 .. vdrList
  /\ {hash, listHash, channelsHash} \subseteq
       {NoHash} \cup {ChannelsHash(n) : n \in 1 .. vdrList}
  /\ at \in {"select", "check", "upgrade", "compare", "notify"}
  /\ {reloadTrigger, elapsed} \subseteq BOOLEAN
  /\ todo \subseteq {c \in Clients : state[c] # "none"}
  /\ \A c \in Clients :
       /\ state[c] \in {"none", "connected", "ended"}
       /\ pc[c] \in {"idle", "count", "between", "send", "find"}
       /\ state[c] # "connected" => pc[c] = "idle" /\ streaming[c] = NoStream
       /\ \/ channelCount[c] = 0
          \/ \E n \in DOMAIN Lists : channelCount[c] \in 1 .. Cardinality(Lists[n])

\* A client that has locked the list goes on reading the list it has locked:
\* neither has VDR changed it nor has CheckUpdates deleted it meanwhile
\* (xvdrchannels.c:30, where the lock is released and taken again).
ListStays ==
  \A c \in Reading : held[c] = Current

\* The client believes in a number of channels that is not the list's.
OutOfDate(c) ==
  /\ state[c] = "connected" /\ channelCount[c] \notin {0, ChannelsCount(c)}

\* The list has channels that no earlier list had: attributes of the channels
\* may have changed as well, but not only they, and nothing has come back.
HasNewHash(n) == \A m \in 1 .. n - 1 : ChannelsHash(m) # ChannelsHash(n)

\* A client with the status interface that believes in another number of
\* channels than the list has, whose UIDs are others than in any list before,
\* does not stay so without being told, however its requests, the server's
\* turns, the timer and the changes of VDR's list meet (xvdrserver.c:300).
\* The hash sees neither a change of what IsChannelWanted reads
\* (xvdrchannels.c:150-160) nor a list that comes back within a turn: of
\* these nobody is told.
ClientsHear ==
  \A c \in Clients :
    LET Misled == OutOfDate(c) /\ HasNewHash(Current.list)
    IN  Misled ~> (told[c] \/ ~Misled)
=============================================================================
