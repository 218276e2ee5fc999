------------------------------ MODULE Recordings ------------------------------
(***************************************************************************)
(* cRecordingsCache (src/src/recordings/recordingscache.c), the requests   *)
(* of the clients that use it and the part of the server's thread          *)
(* (src/src/xvdr/xvdrserver.c) that cleans it up: play counts and resume   *)
(* positions of recordings, which VDR finds, records and deletes meanwhile,*)
(* and which survive a restart in the file resume.data.                    *)
(*                                                                         *)
(* A recording is its file name, which stands for its uid as well: that no *)
(* two names have the same hash is assumed.  A position is a small number. *)
(* Every method of the cache runs under m_mutex and is one step, but for   *)
(* SaveResumeData, which is one up to fopen and one up to fclose.          *)
(***************************************************************************)
EXTENDS Naturals, FiniteSets

CONSTANTS
  Recs,         \* names of recordings
  Clients,      \* the clients
  MaxPosition,  \* bound of the model: positions and play counts
  MaxChanges,   \* bound of the model: changes of the recordings
  MaxCrashes    \* bound of the model: number of restarts

ASSUME RecordingsAssumption ==
  /\ MaxPosition \in Nat /\ MaxChanges \in Nat /\ MaxCrashes \in Nat

VARIABLES
  existing,   \* the recordings on disk
  listed,     \* VDR's list Recordings
  scanning,   \* VDR is filling that list
  newState,   \* Recordings.StateChanged() has not been asked since a change
  cache,      \* m_recordings: name -> [named, pos, count]
  changed,    \* m_changed
  file,       \* resume.data: name -> [pos, count]
  pc,         \* what each client's request has still to do
  trigger,    \* recordingReloadTrigger
  timeout,    \* recordingReloadTimer.TimedOut()
  server      \* where the server's thread is

\* History, read by no action.
VARIABLES
  position,   \* the resume position that a client set last
  setting,    \* the recording whose position each client is setting
  stale,      \* resume.data has not got what answered requests set: the last
              \* save failed, or gc has since removed what exists
  forgotten,  \* recordings that lost their position for one of the reasons
              \* named at PositionKept, until it is set again
  outdated,   \* the list changed since the clients were asked to reload it
  gcDue,      \* the reload was triggered and had timed out
  changes, crashes

vdr     == <<existing, listed, scanning, newState>>
data    == <<cache, changed, file>>
loop    == <<trigger, timeout, server>>
history == <<position, setting, stale, forgotten, outdated, gcDue, changes, crashes>>
vars    == <<vdr, data, pc, loop, history>>

\* m_mutex is only held between two steps by a client that writes the file.
Unlocked == \A c \in Clients : pc[c] # "write"

Values   == 0 .. MaxPosition
NewEntry == [named |-> FALSE, pos |-> 0, count |-> 0]
NoLines  == [r \in {} |-> [pos |-> 0, count |-> 0]]

\* std::map::operator[]
Entry(r) == IF r \in DOMAIN cache THEN cache[r] ELSE NewEntry

With(map, r, v) == [x \in DOMAIN map \cup {r} |-> IF x = r THEN v ELSE map[x]]

Init ==
  /\ existing = Recs /\ listed = {} /\ scanning = TRUE /\ newState = FALSE
  /\ cache = [r \in {} |-> NewEntry] /\ changed = FALSE
  /\ file = NoLines
  /\ pc = [c \in Clients |-> "idle"]
  /\ trigger = FALSE /\ timeout = FALSE /\ server = "check"
  /\ position = [r \in Recs |-> 0]
  /\ setting = [c \in Clients |-> {}]
  /\ stale = FALSE /\ forgotten = {}
  /\ outdated = FALSE /\ gcDue = FALSE
  /\ changes = 0 /\ crashes = 0
-----------------------------------------------------------------------------
(* VDR: it looks for its recordings anew after clearing the list, makes    *)
(* recordings and deletes them.                                            *)
ListChanged ==
  /\ newState' = TRUE
  /\ outdated' = TRUE

StartScan ==
  /\ ~scanning /\ changes < MaxChanges
  /\ changes' = changes + 1
  /\ scanning' = TRUE
  /\ listed' = {}
  /\ ListChanged
  /\ UNCHANGED <<existing, data, pc, loop, position, setting, stale,
                 forgotten, gcDue, crashes>>

Found(r) ==
  /\ scanning /\ r \in existing \ listed
  /\ listed' = listed \cup {r}
  /\ ListChanged
  /\ UNCHANGED <<existing, scanning, data, pc, loop, position, setting,
                 stale, forgotten, gcDue, changes, crashes>>

EndScan ==
  /\ scanning /\ existing \subseteq listed
  /\ scanning' = FALSE
  /\ UNCHANGED <<existing, listed, newState, data, pc, loop, history>>

Delete(r) ==
  /\ r \in listed /\ r \in existing /\ changes < MaxChanges
  /\ changes' = changes + 1
  /\ existing' = existing \ {r}
  /\ listed' = listed \ {r}
  /\ ListChanged
  /\ UNCHANGED <<scanning, data, pc, loop, position, setting, stale,
                 forgotten, gcDue, crashes>>

TimePasses ==
  /\ ~timeout
  /\ timeout' = TRUE
  /\ UNCHANGED <<vdr, data, pc, trigger, server, history>>
-----------------------------------------------------------------------------
(* The clients.                                                            *)

\* Register() of every recording in the list: RECORDINGS_GETLIST, or
\* cRecordingsCache::Update().
Registered(rs) ==
  [r \in DOMAIN cache \cup rs |->
     IF r \in rs THEN [Entry(r) EXCEPT !.named = TRUE] ELSE cache[r]]

GetList(c) ==
  /\ pc[c] = "idle" /\ Unlocked
  /\ cache' = Registered(listed)
  /\ UNCHANGED <<vdr, changed, file, pc, loop, history>>

\* A recording that is not in the cache is ignored.
SetLastPlayedPosition(c, r, v) ==
  /\ pc[c] = "idle" /\ Unlocked
  /\ pc' = [pc EXCEPT ![c] = "save"]
  /\ IF r \in DOMAIN cache
       THEN /\ cache' = [cache EXCEPT ![r].pos = v]
            /\ position' = [position EXCEPT ![r] = v]
            /\ setting' = [setting EXCEPT ![c] = {r}]
            /\ forgotten' = forgotten \ {r}
       ELSE UNCHANGED <<cache, position, setting, forgotten>>
  /\ UNCHANGED <<vdr, changed, file, loop, stale, outdated, gcDue, changes,
                 crashes>>

SetPlayCount(c, r, v) ==
  /\ pc[c] = "idle" /\ Unlocked
  /\ pc' = [pc EXCEPT ![c] = "save"]
  /\ IF r \in DOMAIN cache
       THEN /\ cache' = [cache EXCEPT ![r].count = v]
            /\ changed' = TRUE
       ELSE UNCHANGED <<cache, changed>>
  /\ UNCHANGED <<vdr, file, loop, history>>

\* SaveResumeData: fopen(..., "w") ...
SaveOpen(c) ==
  /\ pc[c] = "save" /\ Unlocked
  /\ pc' = [pc EXCEPT ![c] = "write"]
  /\ file' = NoLines
  /\ UNCHANGED <<vdr, cache, changed, loop, history>>

\* The request is over, whether the file was written or not.
Answered(c) ==
  /\ pc' = [pc EXCEPT ![c] = "idle"]
  /\ setting' = [setting EXCEPT ![c] = {}]

\* ... which may fail: nothing is saved, and the request is answered all the
\* same.
SaveFails(c) ==
  /\ pc[c] = "save" /\ Unlocked
  /\ Answered(c)
  /\ stale' = TRUE
  /\ UNCHANGED <<vdr, data, loop, position, forgotten, outdated, gcDue, changes,
                 crashes>>

\* Mutant: an entry is written only if it was played and stopped.
WorthBoth(entry) == entry.pos # 0 /\ entry.count # 0

\* ... and the entries that are not empty, up to fclose.
Worth(entry) == entry.pos # 0 \/ entry.count # 0

\* Mutant: the name is written as well.
LinesWithNames == [r \in {x \in DOMAIN cache : Worth(cache[x])} |-> cache[r]]

Lines ==
  [r \in {x \in DOMAIN cache : Worth(cache[x])} |->
     [pos |-> cache[r].pos, count |-> cache[r].count]]

SaveClose(c) ==
  /\ pc[c] = "write"
  /\ Answered(c)
  /\ file' = Lines
  /\ stale' = FALSE
  /\ UNCHANGED <<vdr, cache, changed, loop, position, forgotten, outdated, gcDue,
                 changes, crashes>>

\* What fprintf and fclose return is ignored: when the disk is full the file
\* only has a part of the lines.
SaveCut(c) ==
  /\ pc[c] = "write"
  /\ Answered(c)
  /\ \E rs \in SUBSET DOMAIN Lines : file' = [r \in rs |-> Lines[r]]
  /\ stale' = TRUE
  /\ UNCHANGED <<vdr, cache, changed, loop, position, forgotten, outdated, gcDue,
                 changes, crashes>>

Client(c) ==
  \/ GetList(c) \/ SaveOpen(c) \/ SaveFails(c) \/ SaveClose(c) \/ SaveCut(c)
  \/ \E r \in Recs, v \in Values :
       SetLastPlayedPosition(c, r, v) \/ SetPlayCount(c, r, v)
-----------------------------------------------------------------------------
(* The server's thread, cXVDRServer::Action().                             *)

\* Mutant: a change that comes while the two seconds run is forgotten.
CheckStateLate ==
  /\ server = "check"
  /\ newState' = FALSE
  /\ IF newState /\ timeout
       THEN trigger' = TRUE /\ timeout' = FALSE
       ELSE UNCHANGED <<trigger, timeout>>
  /\ server' = "test"
  /\ UNCHANGED <<existing, listed, scanning, data, pc, history>>

CheckState ==
  /\ server = "check"
  /\ newState' = FALSE
  /\ IF newState
       THEN trigger' = TRUE /\ timeout' = FALSE
       ELSE UNCHANGED <<trigger, timeout>>
  /\ server' = "test"
  /\ UNCHANGED <<existing, listed, scanning, data, pc, history>>

ReloadDue == trigger /\ timeout

\* The first test: Changed() is only called when no reload is due.
TestReload ==
  /\ server = "test"
  /\ gcDue' = ReloadDue
  /\ IF ReloadDue
       THEN /\ server' = "retest"
            /\ UNCHANGED changed
       ELSE /\ Unlocked
            /\ changed' = FALSE
            /\ server' = IF changed THEN "retest" ELSE "check"
  /\ UNCHANGED <<vdr, cache, file, pc, trigger, timeout, position,
                 setting, stale, forgotten, outdated, changes, crashes>>

\* The second test.
TestChanged ==
  /\ server = "retest" /\ Unlocked
  /\ changed' = FALSE
  /\ server' = IF changed THEN "notify" ELSE "gc"
  /\ UNCHANGED <<vdr, cache, file, pc, trigger, timeout, history>>

\* Of what is registered, the entries with a name that VDR does not list.
Outdated(rs) == {r \in rs : Registered(listed)[r].named /\ r \notin listed}

\* gc(): everything VDR lists is registered, and what is outdated removed.
Gc ==
  /\ server = "gc" /\ Unlocked
  /\ LET all  == Registered(listed)
         gone == Outdated(DOMAIN all)
         lost == IF scanning THEN gone \cap existing ELSE {}
     IN  /\ cache' = [r \in DOMAIN all \ gone |-> all[r]]
         /\ forgotten' = forgotten \cup lost
         /\ stale' = (stale \/ lost # {})
  /\ server' = "notify"
  /\ UNCHANGED <<vdr, changed, file, pc, trigger, timeout, position,
                 setting, outdated, gcDue, changes, crashes>>

\* RecordingsChange() to every client.
NotifyClients ==
  /\ server = "notify"
  /\ trigger' = FALSE
  /\ outdated' = FALSE
  /\ gcDue' = FALSE
  /\ server' = "check"
  /\ UNCHANGED <<vdr, data, pc, timeout, position, setting, stale, forgotten,
                 changes, crashes>>

Server == CheckState \/ TestReload \/ TestChanged \/ Gc \/ NotifyClients
-----------------------------------------------------------------------------
\* VDR ends or crashes, and starts again with an empty list of recordings:
\* LoadResumeData creates entries without a name, or none if it cannot open
\* the file.  A request that was not finished may be in the file or not.
Restart ==
  /\ crashes < MaxCrashes
  /\ crashes' = crashes + 1
  /\ listed' = {} /\ scanning' = TRUE /\ newState' = FALSE
  /\ changed' = FALSE
  /\ pc' = [c \in Clients |-> "idle"]
  /\ trigger' = FALSE /\ timeout' = FALSE /\ server' = "check"
  /\ \E readable \in BOOLEAN :
       /\ cache' = [r \in (IF readable THEN DOMAIN file ELSE {}) |->
                      [named |-> FALSE, pos |-> file[r].pos, count |-> file[r].count]]
       /\ forgotten' = IF readable /\ Unlocked /\ ~stale THEN forgotten ELSE Recs
       /\ stale' = ~readable
  /\ LET open == UNION {setting[c] : c \in Clients} IN
       position' = [r \in Recs |->
                      IF r \notin open THEN position[r]
                      ELSE IF r \in DOMAIN file THEN file[r].pos ELSE 0]
  /\ setting' = [c \in Clients |-> {}]
  /\ outdated' = FALSE /\ gcDue' = FALSE
  /\ UNCHANGED <<existing, file, changes>>

VDR == StartScan \/ EndScan \/ TimePasses
       \/ \E r \in Recs : Found(r) \/ Delete(r)

Next == Server \/ VDR \/ Restart \/ \E c \in Clients : Client(c)

Spec == Init /\ [][Next]_vars
-----------------------------------------------------------------------------
Resume == [pos : Values, count : Values]

\* The state has its types: cache and resume.data only have entries of
\* recordings that exist or once did.
TypeOK ==
  /\ existing \subseteq Recs /\ listed \subseteq Recs
  /\ \A b \in {scanning, newState, changed, trigger, timeout, outdated, gcDue,
               stale} : b \in BOOLEAN
  /\ DOMAIN cache \subseteq Recs
  /\ \A r \in DOMAIN cache : cache[r] \in [named : BOOLEAN, pos : Values, count : Values]
  /\ DOMAIN file \subseteq Recs
  /\ \A r \in DOMAIN file : file[r] \in Resume
  /\ pc \in [Clients -> {"idle", "save", "write"}]
  /\ server \in {"check", "test", "retest", "gc", "notify"}
  /\ position \in [Recs -> Values] /\ forgotten \subseteq Recs

\* GetLastPlayedPosition()
LastPlayedPosition(r) == Entry(r).pos

\* The resume position of a recording is the last one a client set, through
\* rescans of the recordings, garbage collections, saves of several clients
\* and restarts, as long as the recording exists.  It is lost, until it is set
\* again, only if gc removes the recording while VDR fills its list, or at a
\* restart that comes while the file is being written, after a save that
\* failed, or when the file cannot be opened.
PositionKept ==
  \A r \in existing \ forgotten : LastPlayedPosition(r) = position[r]

\* When nobody is about to save, the file holds what the cache does: an
\* answered request survives a restart, whichever clients saved and in which
\* order, and also after a restart that lost positions.  The exceptions last
\* until the next save: the last one failed, the file could not be read, or
\* gc removed a recording that exists while VDR filled its list.
OnDisk ==
  ((\A c \in Clients : pc[c] = "idle") /\ ~stale) =>
    \A r \in DOMAIN cache :
      LET saved == IF r \in DOMAIN file THEN file[r] ELSE [pos |-> 0, count |-> 0]
      IN saved = [pos |-> cache[r].pos, count |-> cache[r].count]

\* No change of the list goes unnoticed: until the clients have been asked
\* to reload it, the change is still to be seen or the reload still to come,
\* although the trigger is also reset when only a play count has changed
\* (xvdrserver.c:317-324 and 344).
ChangePending == outdated => newState \/ trigger

\* xvdrserver.c:329 "start gc if reload was triggered".
GcWhenTriggered == [][Gc => gcDue]_vars
=============================================================================
