------------------------------ MODULE OnChange ------------------------------
(***************************************************************************)
(* One Subscribe request of translib (subscribe.go, subscribe_notify.go)   *)
(* over the keyspace notifications of Redis (db/subscribe.go) and the      *)
(* on_change cache of its handles (db/db_onchangecache.go).                *)
(*                                                                         *)
(* Other processes write the database; Redis announces each command on a   *)
(* channel, by its name and its key and without the value.  A goroutine    *)
(* per database takes the announcements and, under sMutex, reads the entry *)
(* again, compares it with the cached one and sends the client what        *)
(* changed.  Subscribe itself registers first, then sends the initial      *)
(* values, then the sync message, all under the same mutex.                *)
(*                                                                         *)
(* An Info is a notificationInfo: one subscribed path mapped to the table  *)
(* TableOf[i].  A key stands for one entry of its table.                   *)
(***************************************************************************)
EXTENDS Naturals, Sequences, FiniteSets

CONSTANTS
  Key,        \* entries, each of one table
  Field,      \* DB fields
  Val,        \* field values
  Leaf,       \* YANG leaf names
  Info,       \* the notificationInfos of the request
  DbNo,       \* databases the request reads
  None,
  DbOf,       \* [Key -> DbNo]
  Matching,   \* [Info -> SUBSET Key]: keys that match the pattern of the path
  LeavesOf,   \* [Info -> [Field -> SUBSET Leaf]]: dbFldYgPathMap
  KeyFieldOf, \* [Info -> Field or None]: the field mapped to a YANG key
  FlagsOf,    \* [Info -> SUBSET {"leaf", "inspect", "partial"}]
  Written,    \* field values the other processes set in one command
  MaxWrites,  \* bound: commands of the other processes
  MaxChannel, \* bound: announcements waiting on one channel
  MaxLost     \* bound: announcements lost and reads that fail

Flag == {"leaf", "inspect", "partial"}

\* The node that stands for the subscribed path itself.
Target == "target"

ASSUME OnChangeAssumption ==
  /\ None \notin Val
  /\ None \notin Field
  /\ None \notin DbNo \cup {"start", "Close", "Err"}
  /\ Target \notin Leaf
  /\ DbOf \in [Key -> DbNo]
  /\ Matching \in [Info -> SUBSET Key]
  /\ LeavesOf \in [Info -> [Field -> SUBSET Leaf]]
  /\ KeyFieldOf \in [Info -> Field \cup {None}]
  /\ FlagsOf \in [Info -> SUBSET Flag]
  /\ Written \subseteq [Field -> Val \cup {None}]
  /\ {MaxWrites, MaxChannel, MaxLost} \subseteq Nat

(***************************************************************************)
(* Entries and what a path shows of them.                                  *)
(***************************************************************************)
Entry == [Field -> Val \cup {None}]
NoEntry == [f \in Field |-> None]
IsPopulated(e) == e # NoEntry

\* A path instance: the entry it shows and, where a YANG key is a DB field,
\* the value of that field.
Instance == Key \X (Val \cup {None})
NoView == [p \in Instance |-> [l \in Leaf |-> None]]

Resolves(i, e) == KeyFieldOf[i] # None => e[KeyFieldOf[i]] # None
InstanceOf(i, k, e) ==
  <<k, IF KeyFieldOf[i] = None THEN None ELSE e[KeyFieldOf[i]]>>

\* The fields of e that are set and map to leaf l.
Showing(i, e, l) == {f \in Field : l \in LeavesOf[i][f] /\ e[f] # None}

\* getValue: what a GET of the instance returns for leaf l from entry e.
ValueAt(i, p, e, l) ==
  IF /\ IsPopulated(e) /\ Resolves(i, e)
     /\ InstanceOf(i, p[1], e) = p
     /\ Showing(i, e, l) # {}
  THEN e[CHOOSE f \in Showing(i, e, l) : TRUE]
  ELSE None

\* What a client that is up to date shows for path i of an entry e of key k.
Shown(i, k, e) ==
  [p \in Instance |-> [l \in Leaf |->
     IF p[1] = k THEN ValueAt(i, p, e, l) ELSE None]]

(***************************************************************************)
(* The difference of two versions of an entry (apis.EntryCompare) and the  *)
(* nodes it touches (findModifiedFields).                                  *)
(***************************************************************************)
EntryCreated(old, new) == ~IsPopulated(old) /\ IsPopulated(new)
EntryDeleted(old, new) == IsPopulated(old) /\ ~IsPopulated(new)
BothExist(old, new) == IsPopulated(old) /\ IsPopulated(new)

CreatedFields(old, new) ==
  {f \in Field : BothExist(old, new) /\ old[f] = None /\ new[f] # None}
DeletedFields(old, new) ==
  {f \in Field : BothExist(old, new) /\ old[f] # None /\ new[f] = None}
UpdatedFields(old, new) ==
  {f \in Field : /\ BothExist(old, new) /\ old[f] # None /\ new[f] # None
                 /\ old[f] # new[f]}

\* processKeyFields: a change of a field mapped to a YANG key deletes the old
\* instance, creates the new one, or both.
KeyCreate(i, old, new) ==
  KeyFieldOf[i] \in CreatedFields(old, new) \cup UpdatedFields(old, new)
\* Mutant: an update of the key field only creates the new instance.
KeyDeleteNoUpdate(i, old, new) == KeyFieldOf[i] \in DeletedFields(old, new)
KeyDelete(i, old, new) ==
  KeyFieldOf[i] \in DeletedFields(old, new) \cup UpdatedFields(old, new)

TargetCreate(i, old, new) == EntryCreated(old, new) \/ KeyCreate(i, old, new)
TargetDelete(i, old, new) == EntryDeleted(old, new) \/ KeyDelete(i, old, new)

\* createYangPathInfos
NodesOf(i, fields, deleted) ==
  {<<l, deleted>> : l \in UNION {LeavesOf[i][f] : f \in fields}}

\* yangNodeInfoSet.old: sent first, for the instance of the old entry.
Inspects(i, old, new) == EntryDeleted(old, new) /\ "inspect" \in FlagsOf[i]
InspectNodes(i, old) ==
  IF "partial" \in FlagsOf[i]
  THEN NodesOf(i, {f \in Field : old[f] # None}, FALSE) ELSE {}
OldNodes(i, old, new) ==
  CASE Inspects(i, old, new) /\ InspectNodes(i, old) # {} -> InspectNodes(i, old)
    [] Inspects(i, old, new) /\ InspectNodes(i, old) = {} -> {<<Target, FALSE>>}
    [] TargetDelete(i, old, new) /\ ~Inspects(i, old, new) -> {<<Target, TRUE>>}
    [] OTHER -> {}

\* yangNodeInfoSet.new: sent for the instance of the new entry.  A field
\* deleted under a leaf path that is inspected on delete is an update.
NewNodes(i, old, new) ==
  CASE TargetCreate(i, old, new) -> {<<Target, FALSE>>}
    [] TargetDelete(i, old, new) /\ ~TargetCreate(i, old, new) -> {}
    [] OTHER ->
         NodesOf(i, UpdatedFields(old, new), FALSE)
         \cup NodesOf(i, CreatedFields(old, new), FALSE)
         \cup IF {"leaf", "inspect"} \subseteq FlagsOf[i]
              THEN NodesOf(i, DeletedFields(old, new), FALSE)
              ELSE NodesOf(i, DeletedFields(old, new), TRUE)

(***************************************************************************)
(* sendNotification: a node whose GET finds a value is updated; one that   *)
(* is deleted, or that the GET does not find once the sync is done, is     *)
(* deleted at the client.  The client applies the deletes, then the        *)
(* updates.                                                                *)
(***************************************************************************)
Covers(n, l) == n[1] \in {Target, l}
Found(i, p, read, n) ==
  ~n[2] /\ \E l \in Leaf : Covers(n, l) /\ ValueAt(i, p, read, l) # None
Updates(i, p, nodes, read, l) ==
  /\ \E n \in nodes : Covers(n, l) /\ ~n[2]
  /\ ValueAt(i, p, read, l) # None
Deletes(i, p, nodes, read, syncDone, l) ==
  \E n \in nodes :
    Covers(n, l) /\ (n[2] \/ (syncDone /\ ~Found(i, p, read, n)))

SendNotification(shows, i, p, nodes, read, syncDone) ==
  [shows EXCEPT ![p] = [l \in Leaf |->
     CASE Updates(i, p, nodes, read, l) -> ValueAt(i, p, read, l)
       [] /\ ~Updates(i, p, nodes, read, l)
          /\ Deletes(i, p, nodes, read, syncDone, l) -> None
       [] OTHER -> shows[p][l]]]

\* A notification for the instance of entry e; processSubscribe cannot
\* resolve the path of an entry without its key field, and nothing is sent.
Notify(shows, i, k, e, nodes, read, syncDone) ==
  IF nodes # {} /\ Resolves(i, e)
  THEN SendNotification(shows, i, InstanceOf(i, k, e), nodes, read, syncDone)
  ELSE shows
-----------------------------------------------------------------------------
VARIABLES
  db,         \* [Key -> Entry]: the database
  channel,    \* [DbNo -> Seq(event and key)]: pschan of each subscription
  cache,      \* [Key -> Entry]: the on_change cache of the request's handles
  sMutex,     \* None, "start", or the database whose goroutine holds it
  phase,      \* where Subscribe stands
  subscribed, \* sInfo.sDBs: the subscriptions that were opened
  connLost,   \* subscriptions whose channel closed by itself
  cleanupMap, \* the map of that name
  ending,     \* [DbNo -> None, "Close", "Err"]: the last event of a goroutine
  ended,      \* goroutines that returned
  toSync,     \* <<path, key>> pairs the initial update has to scan
  work,       \* the notification under way: <<key, old, new, paths>> or <<>>
  view,       \* [Info -> [Instance -> [Leaf -> value]]]: what the client has been told
  termDone,   \* sInfo.termDone
  terms,      \* terminate messages sent
  writes,     \* commands executed (bounded)
  lost,       \* keys with an announcement that was lost or could not be read
  losses,     \* bounded
  raced       \* <<path, key>> pairs that another read of the entry overtook

subscribeVars == <<sMutex, phase, subscribed, cleanupMap, toSync>>
goroutineVars == <<connLost, ending, ended, termDone, terms>>
faultVars == <<lost, losses, raced>>
vars == <<db, channel, cache, work, view, writes, subscribeVars,
          goroutineVars, faultVars>>

NoWork == <<>>

\* Mutant: closeAllDbs leaves the closed handles in dbs.
OpenForEver == phase = phase
\* The handles of the request are open: closeAllDbs has not cleared dbs.
Open == phase \in {"idle", "starting", "syncing", "running"}

Init ==
  /\ db \in [Key -> Written \cup {NoEntry}]
  /\ channel = [d \in DbNo |-> <<>>]
  /\ cache = [k \in Key |-> NoEntry]
  /\ sMutex = None
  /\ phase = "idle"
  /\ subscribed = {} /\ cleanupMap = {} /\ connLost = {} /\ ended = {}
  /\ ending = [d \in DbNo |-> None]
  /\ toSync = {}
  /\ work = NoWork
  /\ view = [i \in Info |-> NoView]
  /\ termDone = FALSE /\ terms = 0 /\ writes = 0
  /\ lost = {} /\ losses = 0 /\ raced = {}

-----------------------------------------------------------------------------
(***************************************************************************)
(* The other processes.  HDEL of the last field and DEL of an entry both   *)
(* announce a del.  An announcement may be lost (the channel of the client *)
(* library is full, or it reconnects) while the request runs.              *)
(***************************************************************************)
Listening(d) == Open /\ d \in subscribed \ connLost

Announce(k, events, dropped) ==
  LET d == DbOf[k] IN
  /\ Listening(d) /\ ~dropped => Len(channel[d]) + Len(events) <= MaxChannel
  /\ channel' = IF Listening(d) /\ ~dropped
                THEN [channel EXCEPT ![d] = @ \o
                        [n \in 1..Len(events) |-> <<events[n], k>>]]
                ELSE channel
  /\ dropped => phase = "running" /\ Listening(d) /\ losses < MaxLost
  /\ lost' = IF dropped THEN lost \cup {k} ELSE lost
  /\ losses' = IF dropped THEN losses + 1 ELSE losses

Write(k, e, events, dropped) ==
  /\ writes < MaxWrites
  /\ db' = [db EXCEPT ![k] = e]
  /\ writes' = writes + 1
  /\ Announce(k, events, dropped)
  /\ UNCHANGED <<cache, work, view, raced, subscribeVars, goroutineVars>>

HSet(k, values, dropped) ==
  /\ values # NoEntry
  /\ Write(k, [f \in Field |-> IF values[f] # None THEN values[f]
                               ELSE db[k][f]], <<"HSet">>, dropped)

HDel(k, f, dropped) ==
  /\ db[k][f] # None
  /\ LET e == [db[k] EXCEPT ![f] = None]
     IN  Write(k, e, IF IsPopulated(e) THEN <<"HDel">> ELSE <<"HDel", "Del">>,
               dropped)

Del(k, dropped) == IsPopulated(db[k]) /\ Write(k, NoEntry, <<"Del">>, dropped)

-----------------------------------------------------------------------------
(***************************************************************************)
(* Subscribe: startSubscribe holds sMutex from the first registration to   *)
(* the sync message.                                                       *)
(***************************************************************************)
StartSubscribe ==
  /\ phase = "idle" /\ sMutex = None
  /\ phase' = "starting" /\ sMutex' = "start"
  /\ UNCHANGED <<db, channel, cache, work, view, writes, subscribed,
                 cleanupMap, toSync, goroutineVars, faultVars>>

\* startDBSubscribe of one more database.
SubscribeDB(d) ==
  /\ phase = "starting" /\ d \notin subscribed
  /\ subscribed' = subscribed \cup {d}
  /\ cleanupMap' = cleanupMap \cup {d}
  /\ UNCHANGED <<db, channel, cache, work, view, writes, sMutex, phase, toSync,
                 goroutineVars, faultVars>>

\* Every database listens: the keys of each path remain to be scanned.
StartSync ==
  /\ phase = "starting" /\ subscribed = DbNo
  /\ phase' = "syncing"
  /\ toSync' = {s \in Info \X Key : s[2] \in Matching[s[1]]}
  /\ UNCHANGED <<db, channel, cache, work, view, writes, sMutex, subscribed,
                 cleanupMap, goroutineVars, faultVars>>

\* GetEntry and getValue of a handle: the cache first, else Redis; what is
\* read is cached.
Read(k) == IF IsPopulated(cache[k]) THEN cache[k] ELSE db[k]

\* The read takes an entry into the cache ahead of its announcement: paths
\* that have seen the entry absent will find no difference any more.
Overtakes(k, paths) ==
  raced' = IF IsPopulated(cache'[k]) /\ ~IsPopulated(cache[k])
           THEN raced \cup {<<i, k>> : i \in {j \in paths : k \in Matching[j]}}
           ELSE raced

\* sendInitialUpdate of one key: the cursor returns it if it is in Redis.
InitialUpdate(i, k) ==
  /\ phase = "syncing" /\ <<i, k>> \in toSync
  /\ toSync' = toSync \ {<<i, k>>}
  /\ IF IsPopulated(db[k])
     THEN /\ view' = [view EXCEPT ![i] =
                Notify(@, i, k, Read(k), {<<Target, FALSE>>}, Read(k), FALSE)]
          /\ cache' = [cache EXCEPT ![k] = Read(k)]
     ELSE UNCHANGED <<view, cache>>
  /\ Overtakes(k, {j \in Info \ {i} : <<j, k>> \notin toSync})
  /\ UNCHANGED <<db, channel, work, writes, sMutex, phase, subscribed,
                 cleanupMap, goroutineVars, lost, losses>>

\* Mutant: the mutex is not released after the sync message.
SyncDoneLocked ==
  /\ phase = "syncing" /\ toSync = {}
  /\ phase' = "running"
  /\ UNCHANGED <<db, channel, cache, work, view, writes, sMutex, subscribed,
                 cleanupMap, toSync, goroutineVars, faultVars>>
\* sendSyncNotification, and stophandler starts.
SyncDone ==
  /\ phase = "syncing" /\ toSync = {}
  /\ phase' = "running" /\ sMutex' = None
  /\ UNCHANGED <<db, channel, cache, work, view, writes, subscribed,
                 cleanupMap, toSync, goroutineVars, faultVars>>

\* cleanup: the subscriptions and the handles are closed.
Cleanup(next) ==
  /\ phase' = next /\ sMutex' = None
  /\ UNCHANGED <<db, channel, cache, work, view, writes, subscribed,
                 cleanupMap, toSync, goroutineVars, faultVars>>

\* A database cannot be subscribed or a cursor fails: Subscribe cleans up.
SubscribeFails ==
  /\ \/ phase = "starting" /\ subscribed # DbNo
     \/ phase = "syncing" /\ toSync # {}
  /\ Cleanup("failed")

\* The client stops the request; stophandler cleans up.
Stop == phase = "running" /\ sMutex = None /\ Cleanup("stopped")

-----------------------------------------------------------------------------
(***************************************************************************)
(* The goroutine of one database: notificationHandler under sMutex.        *)
(***************************************************************************)
\* The announcements of key k that have not been taken.
Pending(k) ==
  {n \in 1..Len(channel[DbOf[k]]) : channel[DbOf[k]][n][2] = k}
DelPending(k) == \E n \in Pending(k) : channel[DbOf[k]][n][1] = "Del"

\* Mutant: the cache keeps the old value.
DiffNoMerge(d, k, old, new) ==
  LET todo == {i \in Info : k \in Matching[i]} IN
  /\ UNCHANGED cache
  /\ IF old # new /\ todo # {}
     THEN /\ work' = <<k, old, new, todo>>
          /\ sMutex' = d
     ELSE UNCHANGED <<work, sMutex>>
\* DiffAndMergeOnChangeCache: old and new are compared, the cache follows.
Diff(d, k, old, new) ==
  LET todo == {i \in Info : k \in Matching[i]} IN
  /\ cache' = [cache EXCEPT ![k] = new]
  /\ IF old # new /\ todo # {}
     THEN /\ work' = <<k, old, new, todo>>
          /\ sMutex' = d
     ELSE UNCHANGED <<work, sMutex>>

Take(d) ==
  /\ sMutex = None
  /\ d \in subscribed /\ channel[d] # <<>>
  /\ channel' = [channel EXCEPT ![d] = Tail(@)]

TakeDel(d) ==
  /\ Take(d) /\ Open /\ Head(channel[d])[1] = "Del"
  /\ LET k == Head(channel[d])[2]
     IN  Diff(d, k, cache[k], NoEntry) /\ raced' = raced \ (Info \X {k})
  /\ UNCHANGED <<db, view, writes, phase, subscribed, cleanupMap, toSync,
                 goroutineVars, lost, losses>>

\* The entry is read again, whatever was announced; one that is gone, or a
\* read that fails, leaves the cache as it is and is not notified.
TakeSet(d) ==
  /\ Take(d) /\ Open /\ Head(channel[d])[1] # "Del"
  /\ LET k == Head(channel[d])[2] IN
       \/ /\ IsPopulated(db[k])
          /\ Diff(d, k, cache[k], db[k])
          /\ lost' = IF DelPending(k) THEN lost ELSE lost \ {k}
          /\ UNCHANGED <<losses, raced>>
       \/ /\ ~IsPopulated(db[k])
          /\ UNCHANGED <<cache, work, sMutex, faultVars>>
       \/ /\ losses < MaxLost
          /\ lost' = lost \cup {k} /\ losses' = losses + 1
          /\ UNCHANGED <<cache, work, sMutex, raced>>
  /\ UNCHANGED <<db, view, writes, phase, subscribed, cleanupMap, toSync,
                 goroutineVars>>

\* The handles are closed: a defunct subscription.
TakeDefunct(d) ==
  /\ Take(d) /\ ~Open
  /\ UNCHANGED <<db, cache, work, view, writes, subscribeVars, goroutineVars,
                 faultVars>>

\* process, for one of the paths: the old nodes, then the new ones.
NotifyPath(i) ==
  /\ work # NoWork
  /\ LET k == work[1]  old == work[2]  new == work[3]
         reads == \E n \in OldNodes(i, old, new) \cup NewNodes(i, old, new) : ~n[2]
     IN  /\ i \in work[4]
         /\ view' = [view EXCEPT ![i] =
              Notify(Notify(@, i, k, old, OldNodes(i, old, new), Read(k), TRUE),
                     i, k, new, NewNodes(i, old, new), Read(k), TRUE)]
         /\ cache' = [cache EXCEPT ![k] = IF reads THEN Read(k) ELSE @]
         /\ Overtakes(k, Info)
         /\ IF work[4] = {i}
            THEN work' = NoWork /\ sMutex' = None
            ELSE work' = [work EXCEPT ![4] = @ \ {i}] /\ UNCHANGED sMutex
  /\ UNCHANGED <<db, channel, writes, phase, subscribed, cleanupMap, toSync,
                 goroutineVars, lost, losses>>

\* The channel of a subscription closes by itself.
ConnectionLost(d) ==
  /\ Listening(d)
  /\ connLost' = connLost \cup {d}
  /\ UNCHANGED <<db, channel, cache, work, view, writes, subscribeVars, ending,
                 ended, termDone, terms, faultVars>>

\* The closed channel is drained: Close if UnsubscribeDB set sCIP, else Err.
ChannelDrained(d) ==
  /\ d \in subscribed \ ended
  /\ ending[d] = None /\ channel[d] = <<>> /\ sMutex # d
  /\ d \in connLost \/ ~Open
  /\ ending' = [ending EXCEPT ![d] = IF Open THEN "Err" ELSE "Close"]
  /\ UNCHANGED <<db, channel, cache, work, view, writes, subscribeVars,
                 connLost, ended, termDone, terms, faultVars>>

\* Mutant: termDone is not consulted.
LastEventNoTermDone(d) ==
  /\ ending[d] # None /\ d \notin ended /\ sMutex = None
  /\ ended' = ended \cup {d}
  /\ cleanupMap' = cleanupMap \ {d}
  /\ IF ending[d] = "Err" /\ d \in cleanupMap
     THEN terms' = terms + 1 /\ termDone' = TRUE
     ELSE UNCHANGED <<terms, termDone>>
  /\ UNCHANGED <<db, channel, cache, work, view, writes, sMutex, phase,
                 subscribed, toSync, connLost, ending, faultVars>>
\* Mutant: only an error removes the subscription from the map.
LastEventKeepsClosed(d) ==
  /\ ending[d] # None /\ d \notin ended /\ sMutex = None
  /\ ended' = ended \cup {d}
  /\ IF ending[d] = "Err"
     THEN cleanupMap' = cleanupMap \ {d} /\ terms' = terms + 1 /\ termDone' = TRUE
     ELSE UNCHANGED <<cleanupMap, terms, termDone>>
  /\ UNCHANGED <<db, channel, cache, work, view, writes, sMutex, phase,
                 subscribed, toSync, connLost, ending, faultVars>>
\* notificationHandler of the last event.
LastEvent(d) ==
  /\ ending[d] # None /\ d \notin ended /\ sMutex = None
  /\ ended' = ended \cup {d}
  /\ cleanupMap' = cleanupMap \ {d}
  /\ IF ending[d] = "Err" /\ d \in cleanupMap /\ ~termDone
     THEN terms' = terms + 1 /\ termDone' = TRUE
     ELSE UNCHANGED <<terms, termDone>>
  /\ UNCHANGED <<db, channel, cache, work, view, writes, sMutex, phase,
                 subscribed, toSync, connLost, ending, faultVars>>
-----------------------------------------------------------------------------
Goroutine(d) ==
  TakeDel(d) \/ TakeSet(d) \/ TakeDefunct(d) \/ ChannelDrained(d) \/ LastEvent(d)

Subscriber ==
  \/ StartSubscribe \/ StartSync \/ SyncDone
  \/ \E d \in DbNo : SubscribeDB(d)
  \/ \E i \in Info, k \in Key : InitialUpdate(i, k)

Environment ==
  \/ \E k \in Key, dropped \in BOOLEAN :
       \/ \E values \in Written : HSet(k, values, dropped)
       \/ \E f \in Field : HDel(k, f, dropped)
       \/ Del(k, dropped)
  \/ \E d \in DbNo : ConnectionLost(d)
  \/ SubscribeFails \/ Stop

Done == phase \in {"failed", "stopped"} /\ ended = subscribed /\ UNCHANGED vars

Next ==
  \/ Environment
  \/ Subscriber
  \/ \E d \in DbNo : Goroutine(d)
  \/ \E i \in Info : NotifyPath(i)
  \/ Done

Fairness ==
  /\ WF_vars(Subscriber)
  /\ \A d \in DbNo : SF_vars(Goroutine(d))
  /\ WF_vars(\E i \in Info : NotifyPath(i))

Spec == Init /\ [][Next]_vars
FairSpec == Spec /\ Fairness
-----------------------------------------------------------------------------
InWork(i, k) == work # NoWork /\ work[1] = k /\ i \in work[4]
Synced(i, k) ==
  phase \in {"syncing", "running"} /\ k \in Matching[i] /\ <<i, k>> \notin toSync

UpToDate(i, k) ==
  \A p \in Instance : p[1] = k => view[i][p] = Shown(i, k, db[k])[p]

Quiet(i, k) ==
  /\ phase = "running" /\ work = NoWork
  /\ k \in Matching[i] /\ DbOf[k] \notin connLost
  /\ Pending(k) = {} /\ k \notin lost

\* Once the channel is drained and no announcement was lost or unreadable
\* since the last successful read, the client of a running request has been
\* told of a path exactly what the database holds, unless another read took
\* the entry into the on_change cache ahead of its announcement.
Converged ==
  \A i \in Info, k \in Key : Quiet(i, k) /\ <<i, k>> \notin raced => UpToDate(i, k)

\* The on_change cache is what the client was told: the next difference is
\* computed from what the client shows, not from what Redis held in between.
CacheIsClientView ==
  Open => \A i \in Info, k \in Key :
    Synced(i, k) /\ ~InWork(i, k) /\ <<i, k>> \notin raced /\ DbOf[k] \notin connLost
      => \A p \in Instance : p[1] = k =>
           \/ view[i][p] = Shown(i, k, cache[k])[p]
           \/ /\ DelPending(k)
              /\ \A l \in Leaf : view[i][p][l] \in {None, Shown(i, k, cache[k])[p][l]}

\* A request is terminated at most once, however many of its databases lose
\* their connection.
TerminatedOnce == terms <= 1

\* After the cleanup of a request its client is told nothing more of any path.
SilentAfterCleanup == [][(phase \in {"failed", "stopped"}) => UNCHANGED view]_vars

\* Every goroutine of a request that ended returns and leaves the cleanupMap.
CleanedUp ==
  phase \in {"failed", "stopped"} ~> (ended = subscribed /\ cleanupMap = {})

\* Announcements do not pile up: the channels of a request are drained again
\* and again.
Drained == []<>(\A d \in DbNo : channel[d] = <<>> /\ work = NoWork)
=============================================================================
