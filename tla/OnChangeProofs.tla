---------------------------- MODULE OnChangeProofs ----------------------------
(***************************************************************************)
(* What holds of a Subscribe request for every set of entries, paths,      *)
(* databases and mappings, however the other processes write.              *)
(*                                                                         *)
(* The argument for Converged goes through the cache.  The channel tells   *)
(* how the cache differs from the database (Followed), and what the client *)
(* shows is what the cache holds, or held before the notification under    *)
(* way (Told).                                                             *)
(***************************************************************************)
EXTENDS OnChange, SequenceTheorems, TLAPS

(***************************************************************************)
(* Types.                                                                  *)
(***************************************************************************)
Phase == {"idle", "starting", "syncing", "running", "failed", "stopped"}
Event == {"HSet", "HDel", "Del"} \X Key
EventOf(d) == {"HSet", "HDel", "Del"} \X {k \in Key : DbOf[k] = d}
Channels == {c \in [DbNo -> Seq(Event)] : \A d \in DbNo : c[d] \in Seq(EventOf(d))}
View == [Instance -> [Leaf -> Val \cup {None}]]
Work == Key \X Entry \X Entry \X SUBSET Info

StateOK ==
  /\ db \in [Key -> Entry]
  /\ channel \in Channels
  /\ cache \in [Key -> Entry]
  /\ view \in [Info -> View]
  /\ work \in Work \cup {NoWork}
ControlOK ==
  /\ phase \in Phase
  /\ sMutex \in DbNo \cup {None, "start"}
  /\ subscribed \subseteq DbNo /\ connLost \subseteq DbNo
  /\ cleanupMap \subseteq DbNo /\ ended \subseteq DbNo
  /\ ending \in [DbNo -> {None, "Close", "Err"}]
  /\ toSync \subseteq Info \X Key
  /\ lost \subseteq Key /\ raced \subseteq Info \X Key
  /\ termDone \in BOOLEAN
  /\ terms \in Nat /\ writes \in Nat /\ losses \in Nat

OnChangeTypeOK == StateOK /\ ControlOK

(***************************************************************************)
(* Who holds the mutex, and the notification under way.                    *)
(***************************************************************************)
\* Subscribe holds sMutex until the sync message; later a notification does.
MutexInv ==
  /\ phase \in {"starting", "syncing"} => sMutex = "start"
  /\ work # NoWork => phase = "running" /\ sMutex # None
  /\ phase = "idle" => subscribed = {}
  /\ phase \in {"syncing", "running"} => subscribed = DbNo
  /\ phase = "running" => toSync = {}
  /\ Open /\ phase # "running" => lost = {}
  /\ phase \in {"idle", "starting"} =>
       raced = {} /\ \A k \in Key : cache[k] = NoEntry

\* A notification is of a difference; the cache holds the new entry, unless
\* that is gone and a read for one of its paths has found another.
WorkInv ==
  work # NoWork =>
    LET k == work[1]  old == work[2]  new == work[3] IN
    /\ old # new
    /\ \A i \in work[4] : k \in Matching[i]
    /\ IsPopulated(new) => cache[k] = new
    /\ ~IsPopulated(new) =>
         \/ cache[k] = NoEntry
         \/ \A i \in Info : k \in Matching[i] => <<i, k>> \in raced

(***************************************************************************)
(* What the channel tells of the database.                                 *)
(***************************************************************************)
\* The last of the announcements of k that wait is a del.
LastIsDel(k) ==
  \E n \in Pending(k) : /\ \A m \in Pending(k) : m <= n
                        /\ channel[DbOf[k]][n][1] = "Del"

NotRead(k) ==
  /\ cache[k] = NoEntry
  /\ phase = "starting" \/ \A i \in Info : k \in Matching[i] => <<i, k>> \in toSync

\* Of an entry that is followed the last announcement says whether it is there,
\* and without one the cache holds what the database holds.
IsFollowed(k) ==
  /\ phase \in {"starting", "syncing", "running"}
  /\ DbOf[k] \in subscribed \ connLost /\ k \notin lost
FollowedAt(k) ==
  /\ Pending(k) = {} => cache[k] = db[k] \/ NotRead(k)
  /\ Pending(k) # {} => (LastIsDel(k) <=> ~IsPopulated(db[k]))
Followed == \A k \in Key : IsFollowed(k) => FollowedAt(k)
Unsubscribed ==
  Open => \A k \in Key : DbOf[k] \notin subscribed => Pending(k) = {}

(***************************************************************************)
(* What the client shows of a path (v) against an entry.                   *)
(***************************************************************************)
\* p is the instance that shows entry e of key k.
IsAt(i, k, e, p) == IsPopulated(e) /\ Resolves(i, e) /\ InstanceOf(i, k, e) = p
InstancesOf(k) == {p \in Instance : p[1] = k}

Empty(v, k) == \A p \in InstancesOf(k), l \in Leaf : v[p][l] = None
OnlyAt(v, i, k, e) ==
  \A p \in InstancesOf(k), l \in Leaf : ~IsAt(i, k, e, p) => v[p][l] = None
Partly(v, i, k, e) ==
  \A p \in InstancesOf(k), l \in Leaf : v[p][l] \in {None, ValueAt(i, p, e, l)}
Exactly(v, i, k, e) ==
  \A p \in InstancesOf(k), l \in Leaf : v[p][l] = ValueAt(i, p, e, l)

\* An inspected path that is only a part of its entry.
ByParts(i) == {"inspect", "partial"} \subseteq FlagsOf[i]

\* What is shown is of the instance of e, also when another read overtook it.
Roughly(v, i, k, e) == OnlyAt(v, i, k, e) /\ (ByParts(i) => Partly(v, i, k, e))
Told(v, i, k, e) ==
  /\ Roughly(v, i, k, e)
  /\ <<i, k>> \notin raced /\ DbOf[k] \notin connLost =>
       Exactly(v, i, k, e) \/ (DelPending(k) /\ Partly(v, i, k, e))

ToldAt(i, k) ==
  /\ Synced(i, k) /\ ~InWork(i, k) => Told(view[i], i, k, cache[k])
  /\ InWork(i, k) /\ IsPopulated(work[3]) => Told(view[i], i, k, work[2])
  /\ InWork(i, k) /\ ~IsPopulated(work[3]) => Roughly(view[i], i, k, work[2])
  /\ Open /\ k \in Matching[i] /\ ~Synced(i, k) => Empty(view[i], k)
ToldInv == \A i \in Info, k \in Key : ToldAt(i, k)

IInv == MutexInv /\ WorkInv /\ Followed /\ Unsubscribed /\ ToldInv

\* A leaf shows one field: the hypothesis of what follows about values.
OneFieldPerLeaf ==
  \A i \in Info, f, g \in Field : LeavesOf[i][f] \cap LeavesOf[i][g] # {} => f = g

TermInv == terms = IF termDone THEN 1 ELSE 0

(***************************************************************************)
(* Types are kept.                                                         *)
(***************************************************************************)
\* A notification under way is told from none.
LEMMA WorkShape ==
  /\ NoWork \notin Work
  /\ \A w \in Work : /\ w[1] \in Key /\ w[2] \in Entry /\ w[3] \in Entry
                     /\ w[4] \in SUBSET Info
  /\ \A k \in Key, old \in Entry, new \in Entry, todo \in SUBSET Info :
       <<k, old, new, todo>> \in Work
BY DEF Work, NoWork

LEMMA WorkExcept ==
  ASSUME NEW w \in Work, NEW todo \in SUBSET Info
  PROVE  /\ [w EXCEPT ![4] = todo] \in Work
         /\ [w EXCEPT ![4] = todo][1] = w[1]
         /\ [w EXCEPT ![4] = todo][2] = w[2]
         /\ [w EXCEPT ![4] = todo][3] = w[3]
         /\ [w EXCEPT ![4] = todo][4] = todo
BY DEF Work

LEMMA NoEntryIsEntry == NoEntry \in Entry
BY DEF NoEntry, Entry

LEMMA InstanceType ==
  ASSUME NEW i \in Info, NEW k \in Key, NEW e \in Entry
  PROVE  InstanceOf(i, k, e) \in Instance
BY OnChangeAssumption DEF InstanceOf, Instance, Entry

\* What a path shows of an entry are values of its fields.
LEMMA ValueType ==
  ASSUME NEW i \in Info, NEW p \in Instance, NEW e \in Entry, NEW l \in Leaf
  PROVE  ValueAt(i, p, e, l) \in Val \cup {None}
<1>1. Showing(i, e, l) # {} => (CHOOSE f \in Showing(i, e, l) : TRUE) \in Field
  BY DEF Showing
<1> QED
  BY <1>1 DEF ValueAt, Entry

LEMMA NotifyType ==
  ASSUME NEW v \in View, NEW i \in Info, NEW k \in Key, NEW e \in Entry,
         NEW nodes, NEW read \in Entry, NEW syncDone
  PROVE  Notify(v, i, k, e, nodes, read, syncDone) \in View
<1> DEFINE p == InstanceOf(i, k, e)
           leaves == [l \in Leaf |->
             CASE Updates(i, p, nodes, read, l) -> ValueAt(i, p, read, l)
               [] /\ ~Updates(i, p, nodes, read, l)
                  /\ Deletes(i, p, nodes, read, syncDone, l) -> None
               [] OTHER -> v[p][l]]
<1>1. p \in Instance
  BY InstanceType
<1>2. \A l \in Leaf : ValueAt(i, p, read, l) \in Val \cup {None}
  BY <1>1, ValueType
<1>3. \A l \in Leaf : v[p][l] \in Val \cup {None}
  BY <1>1 DEF View
<1> HIDE DEF p
<1>4. leaves \in [Leaf -> Val \cup {None}]
  BY <1>2, <1>3
<1> HIDE DEF leaves
<1>5. [v EXCEPT ![p] = leaves] \in View
  BY <1>1, <1>4 DEF View
<1>6. SendNotification(v, i, p, nodes, read, syncDone) = [v EXCEPT ![p] = leaves]
  BY DEF SendNotification, leaves
<1> QED
  BY <1>5, <1>6 DEF Notify, p

LEMMA TypeInit == Init => OnChangeTypeOK
<1> SUFFICES ASSUME Init PROVE OnChangeTypeOK
  OBVIOUS
<1>1. Written \cup {NoEntry} \subseteq Entry
  BY OnChangeAssumption, NoEntryIsEntry DEF Entry
<1>2. db \in [Key -> Entry] /\ cache \in [Key -> Entry]
  BY <1>1 DEF Init
<1>3. NoView \in View
  BY DEF NoView, View
<1>4. channel \in Channels
  <2>1. <<>> \in Seq(Event) /\ \A d \in DbNo : <<>> \in Seq(EventOf(d))
    OBVIOUS
  <2> QED
    BY <2>1 DEF Init, Channels
<1>5. StateOK
  BY <1>2, <1>3, <1>4 DEF Init, StateOK
<1>6. ending \in [DbNo -> {None, "Close", "Err"}] /\ phase \in Phase
  BY DEF Init, Phase
<1>7. termDone \in BOOLEAN
  BY DEF Init
<1>8. ControlOK
  BY <1>6, <1>7 DEF Init, ControlOK
<1> QED
  BY <1>5, <1>8 DEF OnChangeTypeOK

\* An announcement is put at the end of the channel of its database.
LEMMA ChannelType ==
  ASSUME NEW c \in Channels, NEW d \in DbNo, NEW s \in Seq(EventOf(d))
  PROVE  /\ c[d] \in Seq(EventOf(d)) /\ c[d] \in Seq(Event) /\ s \in Seq(Event)
         /\ [c EXCEPT ![d] = s] \in Channels
<1>1. EventOf(d) \subseteq Event
  BY DEF EventOf, Event
<1>2. s \in Seq(Event)
  BY <1>1, SeqMonotonic
<1> QED
  BY <1>2 DEF Channels

LEMMA AnnounceType ==
  ASSUME StateOK, ControlOK, NEW k \in Key, NEW dropped \in BOOLEAN,
         NEW events \in Seq({"HSet", "HDel", "Del"}), Announce(k, events, dropped)
  PROVE  channel' \in Channels /\ lost' \subseteq Key /\ losses' \in Nat
<1> DEFINE add == [n \in 1..Len(events) |-> <<events[n], k>>]
           d == DbOf[k]
<1>1. d \in DbNo /\ channel \in Channels
  BY OnChangeAssumption DEF StateOK
<1>2. add \in Seq(EventOf(d))
  BY DEF EventOf
<1>3. channel[d] \in Seq(EventOf(d))
  BY <1>1 DEF Channels
<1> HIDE DEF add
<1>4. channel[d] \o add \in Seq(EventOf(d))
  BY <1>2, <1>3
<1>5. channel' = channel \/ channel' = [channel EXCEPT ![d] = channel[d] \o add]
  BY DEF Announce, add
<1> HIDE DEF d
<1>6. channel' \in Channels
  BY <1>1, <1>4, <1>5, ChannelType
<1> QED
  BY <1>6 DEF Announce, ControlOK

LEMMA WriteType ==
  ASSUME StateOK, ControlOK, NEW k \in Key, NEW e \in Entry, NEW dropped \in BOOLEAN,
         NEW events \in Seq({"HSet", "HDel", "Del"}), Write(k, e, events, dropped)
  PROVE  OnChangeTypeOK'
<1>1. db' \in [Key -> Entry]
  BY DEF Write, StateOK
<1>2. channel' \in Channels /\ lost' \subseteq Key /\ losses' \in Nat
  BY AnnounceType DEF Write
<1>3. writes' \in Nat
  BY DEF Write, ControlOK
<1>4. StateOK'
  BY <1>1, <1>2 DEF Write, StateOK
<1>5. ControlOK'
  BY <1>2, <1>3 DEF Write, ControlOK, subscribeVars, goroutineVars
<1> QED
  BY <1>4, <1>5 DEF OnChangeTypeOK

\* What each command leaves of an entry.
LEMMA HSetWrites ==
  ASSUME StateOK, NEW k \in Key, NEW values \in Written, NEW dropped, HSet(k, values, dropped)
  PROVE  \E e \in Entry : IsPopulated(e) /\ Write(k, e, <<"HSet">>, dropped)
<1> DEFINE e == [f \in Field |-> IF values[f] # None THEN values[f] ELSE db[k][f]]
<1>1. values \in Entry /\ values # NoEntry
  BY OnChangeAssumption DEF HSet, Entry
<1>2. e \in Entry
  BY <1>1 DEF StateOK, Entry
<1>3. PICK f \in Field : values[f] # None
  BY <1>1 DEF Entry, NoEntry
<1>4. e[f] # NoEntry[f]
  BY <1>3 DEF NoEntry
<1>5. Write(k, e, <<"HSet">>, dropped)
  BY DEF HSet
<1> HIDE DEF e
<1>6. IsPopulated(e)
  BY <1>4 DEF IsPopulated
<1> QED
  BY <1>2, <1>5, <1>6

LEMMA HDelWrites ==
  ASSUME StateOK, NEW k \in Key, NEW f \in Field, NEW dropped, HDel(k, f, dropped)
  PROVE  \E e \in Entry :
           Write(k, e, IF IsPopulated(e) THEN <<"HDel">> ELSE <<"HDel", "Del">>, dropped)
<1> DEFINE e == [db[k] EXCEPT ![f] = None]
<1>1. e \in Entry
  BY DEF StateOK, Entry
<1>2. Write(k, e, IF IsPopulated(e) THEN <<"HDel">> ELSE <<"HDel", "Del">>, dropped)
  BY DEF HDel
<1> QED
  BY <1>1, <1>2

LEMMA TakeType ==
  ASSUME StateOK, NEW d \in DbNo, Take(d)
  PROVE  /\ channel[d] \in Seq(Event) /\ channel[d] # <<>>
         /\ Head(channel[d]) \in Event /\ Head(channel[d]) \in EventOf(d)
         /\ Head(channel[d])[2] \in Key /\ DbOf[Head(channel[d])[2]] = d
         /\ channel' \in Channels
<1>1. channel \in Channels /\ channel[d] \in Seq(EventOf(d)) /\ channel[d] # <<>>
  BY DEF StateOK, Take, Channels
<1>2. Head(channel[d]) \in EventOf(d) /\ Tail(channel[d]) \in Seq(EventOf(d))
  BY <1>1
<1>3. /\ Head(channel[d])[2] \in Key /\ DbOf[Head(channel[d])[2]] = d
      /\ Head(channel[d]) \in Event
  BY <1>2 DEF Event, EventOf
<1>4. channel' = [channel EXCEPT ![d] = Tail(channel[d])]
  BY DEF Take
<1> QED
  BY <1>1, <1>2, <1>3, <1>4, ChannelType

LEMMA DiffType ==
  ASSUME StateOK, ControlOK, NEW d \in DbNo, NEW k \in Key,
         NEW old \in Entry, NEW new \in Entry, Diff(d, k, old, new)
  PROVE  /\ cache' \in [Key -> Entry] /\ work' \in Work \cup {NoWork}
         /\ sMutex' \in DbNo \cup {None, "start"}
<1> DEFINE todo == {i \in Info : k \in Matching[i]}
<1>1. <<k, old, new, todo>> \in Work
  BY WorkShape
<1> QED
  BY <1>1 DEF Diff, StateOK, ControlOK

LEMMA TakeDelType ==
  ASSUME StateOK, ControlOK, NEW d \in DbNo, TakeDel(d)
  PROVE  OnChangeTypeOK'
<1> DEFINE k == Head(channel[d])[2]
<1>1. k \in Key /\ channel' \in Channels
  BY TakeType DEF TakeDel
<1>2. cache[k] \in Entry /\ NoEntry \in Entry
  BY <1>1, NoEntryIsEntry DEF StateOK
<1>3. Diff(d, k, cache[k], NoEntry) /\ raced' = raced \ (Info \X {k})
  BY DEF TakeDel
<1> HIDE DEF k
<1>4. /\ cache' \in [Key -> Entry] /\ work' \in Work \cup {NoWork}
      /\ sMutex' \in DbNo \cup {None, "start"}
  BY <1>1, <1>2, <1>3, DiffType
<1> QED
  BY <1>1, <1>3, <1>4 DEF TakeDel, StateOK, ControlOK, OnChangeTypeOK, goroutineVars

LEMMA TakeSetType ==
  ASSUME StateOK, ControlOK, NEW d \in DbNo, TakeSet(d)
  PROVE  OnChangeTypeOK'
<1> DEFINE k == Head(channel[d])[2]
<1>1. k \in Key /\ channel' \in Channels
  BY TakeType DEF TakeSet
<1>2. cache[k] \in Entry /\ db[k] \in Entry
  BY <1>1 DEF StateOK
<1>3. \/ Diff(d, k, cache[k], db[k])
      \/ UNCHANGED <<cache, work, sMutex>>
  BY DEF TakeSet
<1>4. lost' \subseteq Key /\ losses' \in Nat /\ raced' = raced
  BY <1>1 DEF TakeSet, faultVars, ControlOK
<1> HIDE DEF k
<1>5. /\ cache' \in [Key -> Entry] /\ work' \in Work \cup {NoWork}
      /\ sMutex' \in DbNo \cup {None, "start"}
  <2>1. CASE Diff(d, k, cache[k], db[k])
    BY <1>1, <1>2, <2>1, DiffType
  <2>2. CASE UNCHANGED <<cache, work, sMutex>>
    BY <2>2 DEF StateOK, ControlOK
  <2> QED
    BY <1>3, <2>1, <2>2
<1> QED
  BY <1>1, <1>4, <1>5 DEF TakeSet, StateOK, ControlOK, OnChangeTypeOK, goroutineVars

LEMMA ReadType ==
  ASSUME StateOK, NEW k \in Key
  PROVE  Read(k) \in Entry
BY DEF Read, StateOK

LEMMA OvertakesType ==
  ASSUME ControlOK, NEW k \in Key, NEW paths \in SUBSET Info, Overtakes(k, paths)
  PROVE  raced' \subseteq Info \X Key
BY DEF Overtakes, ControlOK

LEMMA InitialUpdateType ==
  ASSUME StateOK, ControlOK, NEW i \in Info, NEW k \in Key, InitialUpdate(i, k)
  PROVE  OnChangeTypeOK'
<1> DEFINE v == Notify(view[i], i, k, Read(k), {<<Target, FALSE>>}, Read(k), FALSE)
<1>1. Read(k) \in Entry /\ view[i] \in View
  BY ReadType DEF StateOK
<1>2. v \in View
  BY <1>1, NotifyType
<1>3. \/ view' = [view EXCEPT ![i] = v] /\ cache' = [cache EXCEPT ![k] = Read(k)]
      \/ UNCHANGED <<view, cache>>
  BY DEF InitialUpdate
<1> HIDE DEF v
<1>4. view' \in [Info -> View] /\ cache' \in [Key -> Entry]
  BY <1>1, <1>2, <1>3 DEF StateOK
<1>5. raced' \subseteq Info \X Key
  BY OvertakesType DEF InitialUpdate
<1>6. toSync' \subseteq Info \X Key
  BY DEF InitialUpdate, ControlOK
<1> QED
  BY <1>4, <1>5, <1>6 DEF InitialUpdate, StateOK, ControlOK, OnChangeTypeOK, goroutineVars

\* What the step of one path does, in one place.
Reads(i, old, new) ==
  \E n \in OldNodes(i, old, new) \cup NewNodes(i, old, new) : ~n[2]
Tell(v, i, k, e, nodes, read) == Notify(v, i, k, e, nodes, read, TRUE)
Clears(i, p, nodes, read, l) == Deletes(i, p, nodes, read, TRUE, l)
NotifiedView(v, i, k, old, new, read) ==
  Tell(Tell(v, i, k, old, OldNodes(i, old, new), read),
       i, k, new, NewNodes(i, old, new), read)

LEMMA NotifyPathStep ==
  ASSUME StateOK, NEW i \in Info, NotifyPath(i)
  PROVE  \E k \in Key, old \in Entry, new \in Entry :
           /\ work # NoWork /\ work \in Work
           /\ work[1] = k /\ work[2] = old /\ work[3] = new /\ i \in work[4]
           /\ view' = [view EXCEPT ![i] = NotifiedView(view[i], i, k, old, new, Read(k))]
           /\ cache' = [cache EXCEPT ![k] = IF Reads(i, old, new) THEN Read(k) ELSE cache[k]]
           /\ Overtakes(k, Info)
           /\ \/ work[4] = {i} /\ work' = NoWork /\ sMutex' = None
              \/ /\ work[4] # {i} /\ UNCHANGED sMutex
                 /\ work' = [work EXCEPT ![4] = work[4] \ {i}]
           /\ UNCHANGED <<db, channel, writes, phase, subscribed, cleanupMap, toSync,
                          goroutineVars, lost, losses>>
<1>1. work # NoWork /\ work \in Work
  BY DEF NotifyPath, StateOK
<1>2. work[1] \in Key /\ work[2] \in Entry /\ work[3] \in Entry
  BY <1>1, WorkShape
<1>3. view' = [view EXCEPT ![i] = NotifiedView(view[i], i, work[1], work[2], work[3], Read(work[1]))]
  BY DEF NotifyPath, NotifiedView, Tell
<1>4. cache' = [cache EXCEPT ![work[1]] =
                  IF Reads(i, work[2], work[3]) THEN Read(work[1]) ELSE cache[work[1]]]
  BY DEF NotifyPath, Reads
<1>5. \/ work[4] = {i} /\ work' = NoWork /\ sMutex' = None
      \/ /\ work[4] # {i} /\ UNCHANGED sMutex
         /\ work' = [work EXCEPT ![4] = work[4] \ {i}]
  BY DEF NotifyPath
<1>6. /\ i \in work[4] /\ Overtakes(work[1], Info)
      /\ UNCHANGED <<db, channel, writes, phase, subscribed, cleanupMap, toSync,
                     goroutineVars, lost, losses>>
  BY DEF NotifyPath
<1> QED
  BY <1>1, <1>2, <1>3, <1>4, <1>5, <1>6

LEMMA NotifyPathType ==
  ASSUME StateOK, ControlOK, NEW i \in Info, NotifyPath(i)
  PROVE  OnChangeTypeOK'
<1>1. PICK k \in Key, old \in Entry, new \in Entry :
           /\ work # NoWork /\ work \in Work
           /\ work[1] = k /\ work[2] = old /\ work[3] = new /\ i \in work[4]
           /\ view' = [view EXCEPT ![i] = NotifiedView(view[i], i, k, old, new, Read(k))]
           /\ cache' = [cache EXCEPT ![k] = IF Reads(i, old, new) THEN Read(k) ELSE cache[k]]
           /\ Overtakes(k, Info)
           /\ \/ work[4] = {i} /\ work' = NoWork /\ sMutex' = None
              \/ /\ work[4] # {i} /\ UNCHANGED sMutex
                 /\ work' = [work EXCEPT ![4] = work[4] \ {i}]
           /\ UNCHANGED <<db, channel, writes, phase, subscribed, cleanupMap, toSync,
                          goroutineVars, lost, losses>>
  BY NotifyPathStep
<1>2. Read(k) \in Entry /\ view[i] \in View
  BY ReadType DEF StateOK
<1>3. NotifiedView(view[i], i, k, old, new, Read(k)) \in View
  BY <1>2, NotifyType DEF NotifiedView, Tell
<1>4. view' \in [Info -> View] /\ cache' \in [Key -> Entry]
  BY <1>1, <1>2, <1>3 DEF StateOK
<1>5. raced' \subseteq Info \X Key
  BY <1>1, OvertakesType
<1>6. work' \in Work \cup {NoWork}
  <2>1. work[4] \ {i} \in SUBSET Info
    BY <1>1, WorkShape
  <2> QED
    BY <1>1, <2>1, WorkExcept
<1>7. sMutex' \in DbNo \cup {None, "start"}
  BY <1>1 DEF ControlOK
<1> QED
  BY <1>1, <1>4, <1>5, <1>6, <1>7 DEF StateOK, ControlOK, OnChangeTypeOK, goroutineVars

\* The steps that touch the control state only.
ControlStep ==
  \/ StartSubscribe \/ StartSync \/ SyncDone \/ SubscribeFails \/ Stop
  \/ \E d \in DbNo :
       SubscribeDB(d) \/ ConnectionLost(d) \/ ChannelDrained(d) \/ LastEvent(d)

LEMMA ControlStepKeeps ==
  ControlStep => UNCHANGED <<db, channel, cache, work, view, writes, lost, losses, raced>>
BY DEF ControlStep, StartSubscribe, StartSync, SyncDone, SubscribeFails, Stop,
       SubscribeDB, ConnectionLost, ChannelDrained, LastEvent, Cleanup, faultVars

LEMMA ControlStepType ==
  ASSUME StateOK, ControlOK, ControlStep
  PROVE  OnChangeTypeOK'
<1> USE DEF goroutineVars, subscribeVars, faultVars, ControlOK, Phase
<1>1. StateOK'
  BY ControlStepKeeps DEF StateOK
<1>2. CASE StartSubscribe \/ StartSync \/ SyncDone \/ SubscribeFails \/ Stop
  BY <1>1, <1>2
     DEF OnChangeTypeOK, StartSubscribe, StartSync, SyncDone, SubscribeFails, Stop, Cleanup
<1>3. ASSUME NEW d \in DbNo, SubscribeDB(d) \/ ConnectionLost(d)
      PROVE  OnChangeTypeOK'
  BY <1>1, <1>3 DEF OnChangeTypeOK, SubscribeDB, ConnectionLost
<1>4. ASSUME NEW d \in DbNo, ChannelDrained(d)
      PROVE  OnChangeTypeOK'
  BY <1>1, <1>4 DEF OnChangeTypeOK, ChannelDrained
<1>5. ASSUME NEW d \in DbNo, LastEvent(d)
      PROVE  OnChangeTypeOK'
  <2>1. terms' \in Nat
    BY <1>5 DEF LastEvent
  <2>2. termDone' = termDone \/ termDone' = TRUE
    BY <1>5 DEF LastEvent
  <2>3. termDone' \in BOOLEAN
    BY <2>2
  <2> QED
    BY <1>1, <1>5, <2>1, <2>3 DEF OnChangeTypeOK, LastEvent
<1> QED
  BY <1>2, <1>3, <1>4, <1>5 DEF ControlStep

\* The steps that touch more, and what remains.
LEMMA NextCases ==
  Next =>
    \/ ControlStep \/ UNCHANGED vars
    \/ \E k \in Key, dropped \in BOOLEAN :
         \/ \E values \in Written : HSet(k, values, dropped)
         \/ \E f \in Field : HDel(k, f, dropped)
         \/ Del(k, dropped)
    \/ \E i \in Info, k \in Key : InitialUpdate(i, k)
    \/ \E d \in DbNo : TakeDel(d) \/ TakeSet(d) \/ TakeDefunct(d)
    \/ \E i \in Info : NotifyPath(i)
BY DEF Next, Environment, Subscriber, Goroutine, Done, ControlStep

\* A command writes an entry and announces what it did.
LEMMA WriteCases ==
  ASSUME StateOK, NEW k \in Key, NEW dropped \in BOOLEAN,
         \/ \E values \in Written : HSet(k, values, dropped)
         \/ \E f \in Field : HDel(k, f, dropped)
         \/ Del(k, dropped)
  PROVE  \E e \in Entry, events \in {<<"HSet">>, <<"HDel">>, <<"HDel", "Del">>, <<"Del">>} :
           /\ Write(k, e, events, dropped)
           /\ IsPopulated(e) <=> events \in {<<"HSet">>, <<"HDel">>}
<1>1. ASSUME NEW values \in Written, HSet(k, values, dropped)
      PROVE  \E e \in Entry : IsPopulated(e) /\ Write(k, e, <<"HSet">>, dropped)
  BY <1>1, HSetWrites
<1>2. ASSUME NEW f \in Field, HDel(k, f, dropped)
      PROVE  \E e \in Entry :
           Write(k, e, IF IsPopulated(e) THEN <<"HDel">> ELSE <<"HDel", "Del">>, dropped)
  BY <1>2, HDelWrites
<1>3. ASSUME Del(k, dropped)
      PROVE  Write(k, NoEntry, <<"Del">>, dropped) /\ NoEntry \in Entry /\ ~IsPopulated(NoEntry)
  BY <1>3, NoEntryIsEntry DEF Del, IsPopulated
<1>4. /\ <<"HDel", "Del">> \notin {<<"HSet">>, <<"HDel">>}
      /\ <<"Del">> \notin {<<"HSet">>, <<"HDel">>}
  OBVIOUS
<1> QED
  BY <1>1, <1>2, <1>3, <1>4

LEMMA TypeNext == OnChangeTypeOK /\ [Next]_vars => OnChangeTypeOK'
<1> SUFFICES ASSUME StateOK, ControlOK, [Next]_vars PROVE OnChangeTypeOK'
  BY DEF OnChangeTypeOK
<1>1. CASE ControlStep
  BY <1>1, ControlStepType
<1>2. CASE UNCHANGED vars
  BY <1>2 DEF vars, subscribeVars, goroutineVars, faultVars, OnChangeTypeOK, StateOK, ControlOK
<1>3. ASSUME NEW k \in Key, NEW dropped \in BOOLEAN,
             \/ \E values \in Written : HSet(k, values, dropped)
             \/ \E f \in Field : HDel(k, f, dropped)
             \/ Del(k, dropped)
      PROVE  OnChangeTypeOK'
  <2>1. PICK e \in Entry, events \in {<<"HSet">>, <<"HDel">>, <<"HDel", "Del">>, <<"Del">>} :
          Write(k, e, events, dropped)
    BY <1>3, WriteCases
  <2> DEFINE Names == {"HSet", "HDel", "Del"}
  <2>2. events \in Seq(Names)
    <3>1. <<"HSet">> \in Seq(Names) /\ <<"HDel">> \in Seq(Names) /\ <<"Del">> \in Seq(Names)
      OBVIOUS
    <3>2. <<"HDel", "Del">> \in Seq(Names)
      OBVIOUS
    <3> QED
      BY <3>1, <3>2
  <2> QED
    BY <2>1, <2>2, WriteType
<1>4. ASSUME NEW i \in Info, NEW k \in Key, InitialUpdate(i, k) PROVE OnChangeTypeOK'
  BY <1>4, InitialUpdateType
<1>5. ASSUME NEW d \in DbNo, TakeDel(d) PROVE OnChangeTypeOK'
  BY <1>5, TakeDelType
<1>6. ASSUME NEW d \in DbNo, TakeSet(d) PROVE OnChangeTypeOK'
  BY <1>6, TakeSetType
<1>7. ASSUME NEW d \in DbNo, TakeDefunct(d) PROVE OnChangeTypeOK'
  <2>1. channel' \in Channels
    BY <1>7, TakeType DEF TakeDefunct
  <2> QED
    BY <1>7, <2>1 DEF TakeDefunct, subscribeVars, goroutineVars, faultVars,
                      OnChangeTypeOK, StateOK, ControlOK
<1>8. ASSUME NEW i \in Info, NotifyPath(i) PROVE OnChangeTypeOK'
  BY <1>8, NotifyPathType
<1> QED
  BY <1>1, <1>2, <1>3, <1>4, <1>5, <1>6, <1>7, <1>8, NextCases

\* The state of a request stays what its types allow, whatever is written,
\* announced and lost.
THEOREM OnChangeTypeCorrect == Spec => []OnChangeTypeOK
BY TypeInit, TypeNext, PTL DEF Spec

(***************************************************************************)
(* Terminate messages.                                                     *)
(***************************************************************************)
\* Of all the goroutines that lose their database one sends the message.
THEOREM TerminatedOnceAlways == Spec => []TerminatedOnce
<1>1. Init => TermInv
  BY DEF Init, TermInv
<1>2. TermInv /\ [Next]_vars => TermInv'
  <2> SUFFICES ASSUME TermInv, [Next]_vars PROVE TermInv'
    OBVIOUS
  <2>1. ASSUME NEW d \in DbNo, LastEvent(d) PROVE TermInv'
    BY <2>1 DEF LastEvent, TermInv
  <2>2. CASE UNCHANGED <<terms, termDone>>
    BY <2>2 DEF TermInv
  <2> QED
    BY <2>1, <2>2 DEF Next, Environment, Subscriber, Goroutine, Done, vars, goroutineVars,
       HSet, HDel, Del, Write, ConnectionLost, SubscribeFails, Stop, Cleanup, StartSubscribe,
       StartSync, SyncDone, SubscribeDB, InitialUpdate, TakeDel, TakeSet, TakeDefunct,
       ChannelDrained, NotifyPath
<1>3. TermInv => TerminatedOnce
  BY DEF TermInv, TerminatedOnce
<1> QED
  BY <1>1, <1>2, <1>3, PTL DEF Spec

(***************************************************************************)
(* The mutex.                                                              *)
(***************************************************************************)
LEMMA MutexInit == Init => MutexInv
BY DEF Init, MutexInv, Open

\* An announcement of a request that is open is taken when it runs, and alone.
LEMMA TakesWhileRunning ==
  ASSUME ControlOK, MutexInv, NEW d \in DbNo, Take(d), Open
  PROVE  phase = "running" /\ work = NoWork
BY OnChangeAssumption DEF MutexInv, Take, Open, Phase, ControlOK

LEMMA MutexNext ==
  ASSUME OnChangeTypeOK, MutexInv, [Next]_vars
  PROVE  MutexInv'
<1> USE DEF MutexInv, Open, Phase
<1>0. StateOK /\ ControlOK
  BY DEF OnChangeTypeOK
<1>1. CASE ControlStep
  <2>1. UNCHANGED <<cache, work, raced, lost>>
    BY <1>1, ControlStepKeeps
  <2>2. CASE StartSubscribe \/ StartSync \/ SyncDone
    BY <2>1, <2>2 DEF StartSubscribe, StartSync, SyncDone
  <2>3. CASE SubscribeFails \/ Stop
    BY <1>0, <2>1, <2>3, OnChangeAssumption DEF SubscribeFails, Stop, Cleanup, ControlOK
  <2>4. ASSUME NEW d \in DbNo, SubscribeDB(d) PROVE MutexInv'
    BY <2>1, <2>4 DEF SubscribeDB
  <2>5. ASSUME NEW d \in DbNo, ConnectionLost(d) \/ ChannelDrained(d) \/ LastEvent(d)
        PROVE  MutexInv'
    BY <2>1, <2>5 DEF ConnectionLost, ChannelDrained, LastEvent, subscribeVars
  <2> QED
    BY <1>1, <2>2, <2>3, <2>4, <2>5 DEF ControlStep
<1>2. CASE UNCHANGED vars
  BY <1>2 DEF vars, subscribeVars, faultVars
<1>3. ASSUME NEW k \in Key, NEW dropped \in BOOLEAN,
             \/ \E values \in Written : HSet(k, values, dropped)
             \/ \E f \in Field : HDel(k, f, dropped)
             \/ Del(k, dropped)
      PROVE  MutexInv'
  <2>1. PICK e, events : Write(k, e, events, dropped)
    BY <1>0, <1>3, WriteCases
  <2>2. lost' = lost \/ phase = "running"
    BY <2>1 DEF Write, Announce
  <2> QED
    BY <2>1, <2>2 DEF Write, subscribeVars
<1>4. ASSUME NEW i \in Info, NEW k \in Key, InitialUpdate(i, k) PROVE MutexInv'
  BY <1>4 DEF InitialUpdate
<1>5. ASSUME NEW d \in DbNo, TakeDel(d) \/ TakeSet(d) PROVE MutexInv'
  <2>1. phase = "running" /\ work = NoWork
    BY <1>0, <1>5, TakesWhileRunning DEF TakeDel, TakeSet
  <2>2. UNCHANGED <<phase, subscribed, toSync>>
    BY <1>5 DEF TakeDel, TakeSet
  <2>3. \/ UNCHANGED <<work, sMutex>>
        \/ sMutex' = d
    BY <1>5 DEF TakeDel, TakeSet, Diff
  <2> QED
    BY <2>1, <2>2, <2>3, OnChangeAssumption
<1>6. ASSUME NEW d \in DbNo, TakeDefunct(d) PROVE MutexInv'
  BY <1>6 DEF TakeDefunct, subscribeVars, faultVars
<1>7. ASSUME NEW i \in Info, NotifyPath(i) PROVE MutexInv'
  <2>1. UNCHANGED <<phase, subscribed, toSync>> /\ work # NoWork
    BY <1>7 DEF NotifyPath
  <2>2. work' = NoWork \/ UNCHANGED sMutex
    BY <1>7 DEF NotifyPath
  <2> QED
    BY <2>1, <2>2
<1> QED
  BY <1>1, <1>2, <1>3, <1>4, <1>5, <1>6, <1>7, NextCases

LEMMA MutexCorrect == Spec => []MutexInv
BY MutexInit, MutexNext, OnChangeTypeCorrect, PTL DEF Spec

\* A notification that is under way when the client stops the request is
\* finished first, and none is begun after: the client hears no more.
THEOREM SilentAfterCleanupAlways == Spec => SilentAfterCleanup
<1>1. MutexInv /\ [Next]_vars =>
        [(phase \in {"failed", "stopped"}) => UNCHANGED view]_vars
  <2> SUFFICES ASSUME MutexInv, Next, phase \in {"failed", "stopped"}
               PROVE  UNCHANGED view
    OBVIOUS
  <2>1. work = NoWork
    BY DEF MutexInv
  <2> QED
    BY <2>1 DEF Next, Environment, Subscriber, Goroutine, Done, vars, HSet, HDel, Del,
       Write, ConnectionLost, SubscribeFails, Stop, Cleanup, StartSubscribe, StartSync,
       SyncDone, SubscribeDB, InitialUpdate, TakeDel, TakeSet, TakeDefunct,
       ChannelDrained, LastEvent, NotifyPath
<1> QED
  BY <1>1, MutexCorrect, PTL DEF Spec, SilentAfterCleanup

(***************************************************************************)
(* Announcements in a channel (s), and how a channel changes.              *)
(***************************************************************************)
PendingIn(s, k) == {n \in 1..Len(s) : s[n][2] = k}
DelPendingIn(s, k) == \E n \in PendingIn(s, k) : s[n][1] = "Del"
LastIsDelIn(s, k) ==
  \E n \in PendingIn(s, k) : (\A m \in PendingIn(s, k) : m <= n) /\ s[n][1] = "Del"

LEMMA PendingInChannel ==
  ASSUME NEW k \in Key
  PROVE  /\ Pending(k) = PendingIn(channel[DbOf[k]], k)
         /\ DelPending(k) <=> DelPendingIn(channel[DbOf[k]], k)
         /\ LastIsDel(k) <=> LastIsDelIn(channel[DbOf[k]], k)
BY DEF Pending, DelPending, LastIsDel, PendingIn, DelPendingIn, LastIsDelIn

LEMMA ConcatElements ==
  ASSUME NEW s \in Seq(Event), NEW t \in Seq(Event)
  PROVE  /\ s \o t \in Seq(Event) /\ Len(s \o t) = Len(s) + Len(t)
         /\ Len(s) \in Nat /\ Len(t) \in Nat
         /\ \A n \in 1..Len(s) : (s \o t)[n] = s[n]
         /\ \A n \in Len(s)+1..Len(s)+Len(t) : (s \o t)[n] = t[n - Len(s)]
BY ConcatProperties, LenProperties

LEMMA PendingOthers ==
  ASSUME NEW s \in Seq(Event), NEW t \in Seq(Event), NEW q,
         \A n \in 1..Len(t) : t[n][2] # q
  PROVE  /\ PendingIn(s \o t, q) = PendingIn(s, q)
         /\ DelPendingIn(s \o t, q) <=> DelPendingIn(s, q)
         /\ LastIsDelIn(s \o t, q) <=> LastIsDelIn(s, q)
<1>1. \A n \in 1..Len(s \o t) :
        \/ n \in 1..Len(s) /\ (s \o t)[n] = s[n]
        \/ n \notin 1..Len(s) /\ (s \o t)[n][2] # q
  <2> SUFFICES ASSUME NEW n \in 1..Len(s \o t), n \notin 1..Len(s)
               PROVE  (s \o t)[n][2] # q
    BY ConcatElements
  <2>1. n \in Len(s)+1..Len(s)+Len(t) /\ n - Len(s) \in 1..Len(t)
    BY ConcatElements
  <2> QED
    BY <2>1, ConcatElements
<1>2. 1..Len(s) \subseteq 1..Len(s \o t)
  BY ConcatElements
<1>3. PendingIn(s \o t, q) = PendingIn(s, q)
  BY <1>1, <1>2 DEF PendingIn
<1>4. \A n \in PendingIn(s, q) : (s \o t)[n] = s[n]
  BY ConcatElements DEF PendingIn
<1> QED
  BY <1>3, <1>4 DEF DelPendingIn, LastIsDelIn

\* After an announcement of k the last of it is the last of its own.
LEMMA PendingAnnounced ==
  ASSUME NEW s \in Seq(Event), NEW t \in Seq(Event), NEW k, Len(t) > 0,
         \A n \in 1..Len(t) : t[n][2] = k
  PROVE  /\ PendingIn(s \o t, k) # {}
         /\ DelPendingIn(s, k) => DelPendingIn(s \o t, k)
         /\ LastIsDelIn(s \o t, k) <=> t[Len(t)][1] = "Del"
<1> DEFINE N == Len(s) + Len(t)
<1>1. /\ N \in 1..Len(s \o t) /\ N \in Len(s)+1..Len(s)+Len(t) /\ N - Len(s) = Len(t)
      /\ Len(t) \in 1..Len(t) /\ Len(s \o t) = N /\ N \in Nat
  BY ConcatElements
<1>2. (s \o t)[N] = t[Len(t)]
  BY <1>1, ConcatElements
<1> HIDE DEF N
<1>3. N \in PendingIn(s \o t, k) /\ \A m \in PendingIn(s \o t, k) : m <= N /\ m \in Nat
  BY <1>1, <1>2 DEF PendingIn
<1>4. \A n \in PendingIn(s \o t, k) : (\A m \in PendingIn(s \o t, k) : m <= n) => n = N
  BY <1>1, <1>3
<1>5. LastIsDelIn(s \o t, k) <=> t[Len(t)][1] = "Del"
  BY <1>2, <1>3, <1>4 DEF LastIsDelIn
<1>6. \A n \in PendingIn(s, k) : n \in PendingIn(s \o t, k) /\ (s \o t)[n] = s[n]
  BY ConcatElements DEF PendingIn
<1> QED
  BY <1>3, <1>5, <1>6 DEF DelPendingIn

LEMMA TailElements ==
  ASSUME NEW s \in Seq(Event), s # <<>>
  PROVE  /\ Len(s) \in Nat /\ Len(s) > 0 /\ Len(Tail(s)) = Len(s) - 1
         /\ \A n \in 1..Len(s)-1 : Tail(s)[n] = s[n + 1]
         /\ Head(s) = s[1]
BY HeadTailProperties, LenProperties, EmptySeq

\* What is left of the announcements of q when one is taken.
LEMMA PendingTaken ==
  ASSUME NEW s \in Seq(Event), s # <<>>, NEW q
  PROVE  /\ Head(s)[2] # q => (PendingIn(Tail(s), q) = {} <=> PendingIn(s, q) = {})
         /\ Head(s)[2] = q => PendingIn(s, q) # {}
         /\ PendingIn(s, q) = {} => PendingIn(Tail(s), q) = {}
         /\ PendingIn(Tail(s), q) # {} => (LastIsDelIn(Tail(s), q) <=> LastIsDelIn(s, q))
         /\ Head(s)[2] = q /\ PendingIn(Tail(s), q) = {} =>
              (LastIsDelIn(s, q) <=> Head(s)[1] = "Del")
         /\ DelPendingIn(s, q) <=>
              DelPendingIn(Tail(s), q) \/ (Head(s)[2] = q /\ Head(s)[1] = "Del")
<1>1. \A n \in 1..Len(s) : n = 1 \/ (n - 1 \in 1..Len(Tail(s)) /\ Tail(s)[n-1] = s[n])
  BY TailElements
<1>2. \A n \in 1..Len(Tail(s)) : n + 1 \in 1..Len(s) /\ Tail(s)[n] = s[n+1]
  BY TailElements
<1>3. 1 \in 1..Len(s) /\ Head(s) = s[1]
  BY TailElements
<1>4. \A n \in PendingIn(Tail(s), q) : n + 1 \in PendingIn(s, q) /\ Tail(s)[n] = s[n+1] /\ n \in Nat
  BY <1>2 DEF PendingIn
<1>5. \A n \in PendingIn(s, q) :
        /\ n \in Nat /\ n >= 1
        /\ \/ n = 1 /\ s[n] = Head(s) /\ Head(s)[2] = q
           \/ n - 1 \in PendingIn(Tail(s), q) /\ Tail(s)[n-1] = s[n]
  BY <1>1, <1>3, TailElements DEF PendingIn
<1>6. Head(s)[2] = q => 1 \in PendingIn(s, q)
  BY <1>3 DEF PendingIn
<1>7. /\ Head(s)[2] # q => (PendingIn(Tail(s), q) = {} <=> PendingIn(s, q) = {})
      /\ PendingIn(s, q) = {} => PendingIn(Tail(s), q) = {}
  BY <1>4, <1>5
<1>8. DelPendingIn(s, q) <=>
        DelPendingIn(Tail(s), q) \/ (Head(s)[2] = q /\ Head(s)[1] = "Del")
  BY <1>3, <1>4, <1>5, <1>6 DEF DelPendingIn
<1>9. ASSUME PendingIn(Tail(s), q) # {}
      PROVE  LastIsDelIn(Tail(s), q) <=> LastIsDelIn(s, q)
  <2>1. ASSUME LastIsDelIn(Tail(s), q) PROVE LastIsDelIn(s, q)
    <3>1. PICK n \in PendingIn(Tail(s), q) :
            (\A m \in PendingIn(Tail(s), q) : m <= n) /\ Tail(s)[n][1] = "Del"
      BY <2>1 DEF LastIsDelIn
    <3>2. n \in Nat /\ n + 1 \in PendingIn(s, q) /\ s[n + 1][1] = "Del"
      BY <1>4, <3>1
    <3>3. \A m \in PendingIn(s, q) : m <= n + 1
      <4> TAKE m \in PendingIn(s, q)
      <4>1. CASE m = 1
        BY <3>2, <4>1
      <4>2. CASE m - 1 \in PendingIn(Tail(s), q)
        <5>1. m - 1 <= n /\ m \in Nat
          BY <1>5, <3>1, <4>2
        <5> QED
          BY <3>2, <5>1
      <4> QED
        BY <1>5, <4>1, <4>2
    <3> QED
      BY <3>2, <3>3 DEF LastIsDelIn
  <2>2. ASSUME LastIsDelIn(s, q) PROVE LastIsDelIn(Tail(s), q)
    <3>1. PICK n \in PendingIn(s, q) :
            (\A m \in PendingIn(s, q) : m <= n) /\ s[n][1] = "Del"
      BY <2>2 DEF LastIsDelIn
    <3>2. PICK x \in PendingIn(Tail(s), q) : TRUE
      BY <1>9
    <3>3. x + 1 <= n /\ x \in Nat /\ x + 1 \in 1..Len(s)
      BY <1>4, <3>1, <3>2 DEF PendingIn
    <3>4. x >= 1
      BY <3>2, TailElements DEF PendingIn
    <3>5. n \in Nat /\ n # 1
      BY <1>5, <3>3, <3>4
    <3>6. n - 1 \in PendingIn(Tail(s), q) /\ Tail(s)[n - 1] = s[n]
      BY <1>5, <3>5
    <3>7. \A m \in PendingIn(Tail(s), q) : m <= n - 1
      <4> TAKE m \in PendingIn(Tail(s), q)
      <4>1. m + 1 <= n /\ m \in Nat
        BY <1>4, <3>1
      <4> QED
        BY <3>5, <4>1
    <3> QED
      BY <3>1, <3>6, <3>7 DEF LastIsDelIn
  <2> QED
    BY <2>1, <2>2
<1>10. ASSUME Head(s)[2] = q, PendingIn(Tail(s), q) = {}
       PROVE  LastIsDelIn(s, q) <=> Head(s)[1] = "Del"
  <2>1. PendingIn(s, q) = {1}
    BY <1>5, <1>6, <1>10
  <2> QED
    BY <1>3, <2>1 DEF LastIsDelIn
<1> QED
  BY <1>6, <1>7, <1>8, <1>9, <1>10

LEMMA PendingInChannelNext ==
  ASSUME NEW k \in Key
  PROVE  /\ Pending(k)' = PendingIn(channel'[DbOf[k]], k)
         /\ DelPending(k)' <=> DelPendingIn(channel'[DbOf[k]], k)
         /\ LastIsDel(k)' <=> LastIsDelIn(channel'[DbOf[k]], k)
BY DEF Pending, DelPending, LastIsDel, PendingIn, DelPendingIn, LastIsDelIn

\* A command is announced once, and the last that it announces says whether
\* the entry is there.
LEMMA WriteAnnounces ==
  ASSUME StateOK, NEW k \in Key, NEW e \in Entry, NEW dropped \in BOOLEAN,
         NEW events \in {<<"HSet">>, <<"HDel">>, <<"HDel", "Del">>, <<"Del">>},
         IsPopulated(e) <=> events \in {<<"HSet">>, <<"HDel">>},
         Write(k, e, events, dropped)
  PROVE  /\ \A q \in Key : q # k =>
              /\ Pending(q)' = Pending(q)
              /\ DelPending(q)' <=> DelPending(q)
              /\ LastIsDel(q)' <=> LastIsDel(q)
              /\ q \in lost' <=> q \in lost
         /\ DelPending(k) => DelPending(k)'
         /\ k \in lost => k \in lost'
         /\ Listening(DbOf[k]) /\ k \notin lost' =>
              Pending(k)' # {} /\ (LastIsDel(k)' <=> ~IsPopulated(e))
         /\ ~Listening(DbOf[k]) => channel' = channel
<1> DEFINE add == [n \in 1..Len(events) |-> <<events[n], k>>]
           d == DbOf[k]
<1>1. d \in DbNo
  BY OnChangeAssumption
<1>2. /\ Len(events) \in Nat /\ Len(events) > 0
      /\ \A n \in 1..Len(events) : events[n] \in {"HSet", "HDel", "Del"}
      /\ events[Len(events)] = "Del" <=> ~IsPopulated(e)
  OBVIOUS
<1>3. add \in Seq(Event) /\ Len(add) = Len(events)
  BY <1>2 DEF Event
<1>4. /\ \A n \in 1..Len(add) : add[n][2] = k
      /\ add[Len(add)][1] = "Del" <=> ~IsPopulated(e)
  BY <1>2, <1>3
<1>5. channel' = IF Listening(d) /\ ~dropped
                 THEN [channel EXCEPT ![d] = channel[d] \o add] ELSE channel
  BY DEF Write, Announce
<1>6. lost' = IF dropped THEN lost \cup {k} ELSE lost
  BY DEF Write, Announce
<1> HIDE DEF add
<1>7. \A q \in Key : \/ channel'[DbOf[q]] = channel[DbOf[q]]
                     \/ channel'[DbOf[q]] = channel[DbOf[q]] \o add
  BY <1>1, <1>5, OnChangeAssumption DEF StateOK, Channels
<1>8. \A q \in Key : channel[DbOf[q]] \in Seq(Event)
  BY OnChangeAssumption DEF StateOK, Channels
<1>9. ASSUME NEW q \in Key, q # k
      PROVE  /\ Pending(q)' = Pending(q)
             /\ DelPending(q)' <=> DelPending(q)
             /\ LastIsDel(q)' <=> LastIsDel(q)
             /\ q \in lost' <=> q \in lost
  <2>1. \A n \in 1..Len(add) : add[n][2] # q
    BY <1>4, <1>9
  <2>2. /\ PendingIn(channel'[DbOf[q]], q) = PendingIn(channel[DbOf[q]], q)
        /\ DelPendingIn(channel'[DbOf[q]], q) <=> DelPendingIn(channel[DbOf[q]], q)
        /\ LastIsDelIn(channel'[DbOf[q]], q) <=> LastIsDelIn(channel[DbOf[q]], q)
    <3>1. CASE channel'[DbOf[q]] = channel[DbOf[q]]
      BY <3>1
    <3>2. CASE channel'[DbOf[q]] = channel[DbOf[q]] \o add
      <4>1. channel[DbOf[q]] \in Seq(Event)
        BY <1>8
      <4> QED
        BY <1>3, <2>1, <3>2, <4>1, PendingOthers
    <3> QED
      BY <1>7, <3>1, <3>2
  <2> QED
    BY <1>6, <1>9, <2>2, PendingInChannel, PendingInChannelNext
<1>10. DelPending(k) => DelPending(k)'
  <2>1. Len(add) > 0
    BY <1>2, <1>3
  <2>2. DelPendingIn(channel[DbOf[k]], k) => DelPendingIn(channel'[DbOf[k]], k)
    BY <1>3, <1>4, <1>7, <1>8, <2>1, PendingAnnounced
  <2> QED
    BY <2>2, PendingInChannel, PendingInChannelNext
<1>11. ASSUME Listening(d), k \notin lost'
       PROVE  Pending(k)' # {} /\ (LastIsDel(k)' <=> ~IsPopulated(e))
  <2>1. channel'[d] = channel[d] \o add
    BY <1>1, <1>5, <1>6, <1>11 DEF StateOK, Channels
  <2>2. Len(add) > 0
    BY <1>2, <1>3
  <2>3. /\ PendingIn(channel'[d], k) # {}
        /\ LastIsDelIn(channel'[d], k) <=> ~IsPopulated(e)
    <3>1. channel[d] \in Seq(Event)
      BY <1>8
    <3>2. /\ PendingIn(channel[d] \o add, k) # {}
          /\ LastIsDelIn(channel[d] \o add, k) <=> add[Len(add)][1] = "Del"
      BY <1>3, <1>4, <2>2, <3>1, PendingAnnounced
    <3> QED
      BY <1>4, <2>1, <3>2
  <2> QED
    BY <2>3, PendingInChannelNext
<1> QED
  BY <1>5, <1>6, <1>9, <1>10, <1>11

LEMMA TakeAnnounced ==
  ASSUME StateOK, NEW d \in DbNo, Take(d), NEW q \in Key
  PROVE  LET h == Head(channel[d]) IN
         /\ h \in Event /\ h[2] \in Key /\ DbOf[h[2]] = d
         /\ DbOf[q] # d => /\ Pending(q)' = Pending(q)
                           /\ DelPending(q)' <=> DelPending(q)
                           /\ LastIsDel(q)' <=> LastIsDel(q)
         /\ DbOf[q] = d =>
              /\ h[2] # q => (Pending(q)' = {} <=> Pending(q) = {})
              /\ h[2] = q => Pending(q) # {}
              /\ Pending(q) = {} => Pending(q)' = {}
              /\ Pending(q)' # {} => (LastIsDel(q)' <=> LastIsDel(q))
              /\ h[2] = q /\ Pending(q)' = {} => (LastIsDel(q) <=> h[1] = "Del")
              /\ DelPending(q) <=> DelPending(q)' \/ (h[2] = q /\ h[1] = "Del")
<1>1. /\ channel[d] \in Seq(Event) /\ channel[d] # <<>> /\ Head(channel[d]) \in Event
      /\ Head(channel[d])[2] \in Key /\ DbOf[Head(channel[d])[2]] = d
      /\ channel' = [channel EXCEPT ![d] = Tail(channel[d])]
  BY TakeType DEF Take
<1>2. CASE DbOf[q] # d
  <2>1. channel'[DbOf[q]] = channel[DbOf[q]]
    BY <1>1, <1>2, OnChangeAssumption DEF StateOK, Channels
  <2> QED
    BY <1>1, <1>2, <2>1, PendingInChannel, PendingInChannelNext
<1>3. CASE DbOf[q] = d
  <2>1. channel'[DbOf[q]] = Tail(channel[d]) /\ channel[DbOf[q]] = channel[d]
    BY <1>1, <1>3 DEF StateOK, Channels
  <2> DEFINE s == channel[d]
             h == Head(s)
  <2>2. /\ h[2] # q => (PendingIn(Tail(s), q) = {} <=> PendingIn(s, q) = {})
        /\ h[2] = q => PendingIn(s, q) # {}
        /\ PendingIn(s, q) = {} => PendingIn(Tail(s), q) = {}
        /\ PendingIn(Tail(s), q) # {} => (LastIsDelIn(Tail(s), q) <=> LastIsDelIn(s, q))
        /\ h[2] = q /\ PendingIn(Tail(s), q) = {} => (LastIsDelIn(s, q) <=> h[1] = "Del")
        /\ DelPendingIn(s, q) <=>
             DelPendingIn(Tail(s), q) \/ (h[2] = q /\ h[1] = "Del")
    BY <1>1, PendingTaken
  <2> QED
    BY <1>1, <1>3, <2>1, <2>2, PendingInChannel, PendingInChannelNext
<1> QED
  BY <1>2, <1>3

(***************************************************************************)
(* The channel follows the database.                                       *)
(***************************************************************************)
LEMMA UnsubscribedNext ==
  ASSUME OnChangeTypeOK, MutexInv, Unsubscribed, [Next]_vars
  PROVE  Unsubscribed'
<1>0. StateOK /\ ControlOK
  BY DEF OnChangeTypeOK
<1> SUFFICES ASSUME Open', NEW q \in Key, DbOf[q] \notin subscribed'
             PROVE  Pending(q)' = {}
  BY DEF Unsubscribed
<1>1. CASE ControlStep
  <2>1. Pending(q)' = Pending(q)
    BY <1>1, ControlStepKeeps DEF Pending
  <2>2. Open /\ subscribed \subseteq subscribed'
    BY <1>1
       DEF ControlStep, StartSubscribe, StartSync, SyncDone, SubscribeFails, Stop, Cleanup,
           SubscribeDB, ConnectionLost, ChannelDrained, LastEvent, subscribeVars, Open
  <2> QED
    BY <2>1, <2>2 DEF Unsubscribed
<1>2. CASE UNCHANGED vars
  BY <1>2 DEF vars, subscribeVars, Unsubscribed, Open, Pending
<1>3. ASSUME NEW k \in Key, NEW dropped \in BOOLEAN,
             \/ \E values \in Written : HSet(k, values, dropped)
             \/ \E f \in Field : HDel(k, f, dropped)
             \/ Del(k, dropped)
      PROVE  Pending(q)' = {}
  <2>1. PICK e \in Entry, events \in {<<"HSet">>, <<"HDel">>, <<"HDel", "Del">>, <<"Del">>} :
           /\ Write(k, e, events, dropped)
           /\ IsPopulated(e) <=> events \in {<<"HSet">>, <<"HDel">>}
    BY <1>0, <1>3, WriteCases
  <2>2. /\ q # k => Pending(q)' = Pending(q)
        /\ ~Listening(DbOf[k]) => channel' = channel
    BY <1>0, <2>1, WriteAnnounces
  <2>3. UNCHANGED <<phase, subscribed>>
    BY <2>1 DEF Write, subscribeVars
  <2>4. q = k => Pending(q)' = Pending(q)
    BY <2>2, <2>3 DEF Listening, Pending
  <2> QED
    BY <2>2, <2>3, <2>4 DEF Unsubscribed, Open
<1>4. ASSUME NEW i \in Info, NEW k \in Key, InitialUpdate(i, k) PROVE Pending(q)' = {}
  BY <1>4 DEF InitialUpdate, Unsubscribed, Open, Pending
<1>5. ASSUME NEW d \in DbNo, TakeDel(d) \/ TakeSet(d) \/ TakeDefunct(d)
      PROVE  Pending(q)' = {}
  <2>1. Take(d) /\ UNCHANGED <<phase, subscribed>> /\ d \in subscribed
    BY <1>5 DEF TakeDel, TakeSet, TakeDefunct, Take, subscribeVars
  <2>2. Pending(q)' = Pending(q)
    BY <1>0, <2>1, TakeAnnounced
  <2> QED
    BY <2>1, <2>2 DEF Unsubscribed, Open
<1>6. ASSUME NEW i \in Info, NotifyPath(i) PROVE Pending(q)' = {}
  BY <1>6 DEF NotifyPath, Unsubscribed, Open, Pending
<1> QED
  BY <1>1, <1>2, <1>3, <1>4, <1>5, <1>6, NextCases

LEMMA LastDelIsPending ==
  ASSUME NEW k \in Key, LastIsDel(k)
  PROVE  DelPending(k)
BY DEF LastIsDel, DelPending

\* An announcement is taken of an entry whose cache follows.
LEMMA TakeFollows ==
  ASSUME OnChangeTypeOK, MutexInv, Followed, NEW d \in DbNo, TakeDel(d) \/ TakeSet(d)
  PROVE  Followed'
<1>0. StateOK /\ ControlOK
  BY DEF OnChangeTypeOK
<1> SUFFICES ASSUME NEW q \in Key, IsFollowed(q)'
             PROVE  FollowedAt(q)'
  BY DEF Followed
<1> DEFINE h == Head(channel[d])
           k == h[2]
<1>1. Take(d) /\ phase = "running" /\ db' = db
      /\ UNCHANGED <<phase, subscribed, toSync, connLost>>
  BY <1>0, TakesWhileRunning DEF TakeDel, TakeSet, goroutineVars
<1>2. h \in Event /\ k \in Key /\ DbOf[k] = d
  BY <1>0, <1>1, TakeAnnounced
<1>3. DbOf[q] # d => /\ Pending(q)' = Pending(q)
                     /\ LastIsDel(q)' <=> LastIsDel(q)
  BY <1>0, <1>1, TakeAnnounced
<1>4. DbOf[q] = d =>
        /\ k # q => (Pending(q)' = {} <=> Pending(q) = {})
        /\ k = q => Pending(q) # {}
        /\ Pending(q)' # {} => (LastIsDel(q)' <=> LastIsDel(q))
        /\ k = q /\ Pending(q)' = {} => (LastIsDel(q) <=> h[1] = "Del")
        /\ DelPending(q) <=> DelPending(q)' \/ (k = q /\ h[1] = "Del")
  BY <1>0, <1>1, TakeAnnounced
<1>5. h = Head(channel[d]) /\ k = Head(channel[d])[2]
  OBVIOUS
<1> HIDE DEF h, k
<1>6. cache' = [cache EXCEPT ![k] = cache'[k]] /\ cache \in [Key -> Entry]
  BY <1>0, <1>2, <1>5 DEF TakeDel, TakeSet, Diff, StateOK
<1>7. CASE q # k
  <2>1. cache'[q] = cache[q]
    BY <1>6, <1>7
  <2>2. q \in lost <=> q \in lost'
    BY <1>5, <1>7 DEF TakeDel, TakeSet, faultVars
  <2>3. IsFollowed(q)
    BY <1>1, <2>2 DEF IsFollowed
  <2>4. FollowedAt(q)
    BY <2>3 DEF Followed
  <2>5. NotRead(q) => NotRead(q)'
    BY <1>1, <2>1 DEF NotRead
  <2> QED
    BY <1>1, <1>3, <1>4, <1>7, <2>1, <2>4, <2>5 DEF FollowedAt
<1>8. CASE q = k /\ TakeDel(d)
  <2>1. cache'[k] = NoEntry /\ lost' = lost /\ h[1] = "Del"
    BY <1>2, <1>5, <1>6, <1>8 DEF TakeDel, Diff
  <2>2. FollowedAt(k)
    BY <1>1, <1>2, <1>8, <2>1 DEF IsFollowed, Followed
  <2>3. LastIsDel(k) <=> ~IsPopulated(db[k])
    BY <1>2, <1>4, <1>8, <2>2 DEF FollowedAt
  <2> QED
    BY <1>1, <1>2, <1>4, <1>8, <2>1, <2>3 DEF FollowedAt, IsPopulated
<1>9. CASE q = k /\ TakeSet(d)
  <2>1. h[1] # "Del"
    BY <1>5, <1>9 DEF TakeSet
  <2>2. q \notin lost => (LastIsDel(q) <=> ~IsPopulated(db[q]))
    <3>1. q \notin lost => FollowedAt(q)
      BY <1>1 DEF IsFollowed, Followed
    <3> QED
      BY <1>2, <1>4, <1>9, <3>1 DEF FollowedAt
  <2>3. CASE /\ IsPopulated(db[q]) /\ cache' = [cache EXCEPT ![q] = db[q]]
             /\ lost' = IF DelPending(q) THEN lost ELSE lost \ {q}
    <3>1. cache'[q] = db'[q]
      BY <1>1, <1>6, <2>3
    <3>2. q \in lost => ~DelPending(q)'
      BY <1>2, <1>4, <1>9, <2>1, <2>3 DEF IsFollowed
    <3>3. LastIsDel(q)' => DelPending(q)'
      BY DEF LastIsDel, DelPending
    <3>4. Pending(q)' # {} => ~LastIsDel(q)'
      BY <1>2, <1>4, <1>9, <2>2, <2>3, <3>2, <3>3
    <3> QED
      BY <1>1, <2>3, <3>1, <3>4 DEF FollowedAt
  <2>4. CASE ~IsPopulated(db[q]) /\ UNCHANGED <<cache, lost>>
    <3>1. LastIsDel(q)
      BY <2>2, <2>4 DEF IsFollowed
    <3>2. Pending(q)' # {}
      BY <1>2, <1>4, <1>9, <2>1, <3>1
    <3> QED
      BY <1>1, <1>2, <1>4, <1>9, <2>4, <3>1, <3>2 DEF FollowedAt
  <2>5. CASE lost' = lost \cup {q}
    BY <2>5 DEF IsFollowed
  <2> QED
    BY <1>5, <1>9, <2>3, <2>4, <2>5 DEF TakeSet, Diff, faultVars
<1> QED
  BY <1>7, <1>8, <1>9

LEMMA FollowedNext ==
  ASSUME OnChangeTypeOK, MutexInv, Followed, Unsubscribed, [Next]_vars
  PROVE  Followed'
<1>0. StateOK /\ ControlOK
  BY DEF OnChangeTypeOK
<1>1. CASE ControlStep
  <2> SUFFICES ASSUME NEW q \in Key, IsFollowed(q)'
               PROVE  FollowedAt(q)'
    BY DEF Followed
  <2>1. /\ Pending(q)' = Pending(q) /\ (LastIsDel(q)' <=> LastIsDel(q))
        /\ UNCHANGED <<db, cache, lost>>
    BY <1>1, ControlStepKeeps DEF Pending, LastIsDel
  <2>2. CASE StartSubscribe
    BY <2>2 DEF StartSubscribe, MutexInv, IsFollowed
  <2>3. ASSUME NEW d \in DbNo, SubscribeDB(d) PROVE FollowedAt(q)'
    <3>1. NotRead(q)'
      BY <2>1, <2>3 DEF SubscribeDB, MutexInv, NotRead
    <3>2. DbOf[q] \notin subscribed => Pending(q) = {}
      BY <2>3 DEF SubscribeDB, Unsubscribed, Open
    <3>3. DbOf[q] \in subscribed => FollowedAt(q)
      BY <2>1, <2>3 DEF SubscribeDB, IsFollowed, Followed, goroutineVars
    <3> QED
      BY <2>1, <3>1, <3>2, <3>3 DEF FollowedAt
  <2>4. CASE StartSync
    <3>1. NotRead(q)'
      BY <2>1, <2>4 DEF StartSync, MutexInv, NotRead
    <3>2. FollowedAt(q)
      BY <2>1, <2>4 DEF StartSync, IsFollowed, Followed, goroutineVars
    <3> QED
      BY <2>1, <3>1, <3>2 DEF FollowedAt
  <2>5. CASE \/ SyncDone \/ SubscribeFails \/ Stop
             \/ \E d \in DbNo : ConnectionLost(d) \/ ChannelDrained(d) \/ LastEvent(d)
    <3>1. UNCHANGED <<subscribed, toSync>> /\ connLost \subseteq connLost'
      BY <2>5 DEF SyncDone, SubscribeFails, Stop, Cleanup, ConnectionLost, ChannelDrained,
                  LastEvent, goroutineVars, subscribeVars
    <3>2. phase' \in {"starting", "syncing", "running"} =>
            /\ phase \in {"starting", "syncing", "running"}
            /\ phase = "starting" => phase' = "starting"
      BY <2>5 DEF SyncDone, SubscribeFails, Stop, Cleanup, ConnectionLost, ChannelDrained,
                  LastEvent, subscribeVars
    <3>3. IsFollowed(q)
      BY <2>1, <3>1, <3>2 DEF IsFollowed
    <3>4. FollowedAt(q)
      BY <3>3 DEF Followed
    <3>5. NotRead(q) => NotRead(q)'
      BY <2>1, <3>1, <3>2 DEF NotRead, IsFollowed
    <3> QED
      BY <2>1, <3>4, <3>5 DEF FollowedAt
  <2> QED
    BY <1>1, <2>2, <2>3, <2>4, <2>5 DEF ControlStep
<1>2. CASE UNCHANGED vars
  BY <1>2 DEF vars, subscribeVars, goroutineVars, faultVars, Followed, IsFollowed,
              FollowedAt, NotRead, Pending, LastIsDel
<1>3. ASSUME NEW k \in Key, NEW dropped \in BOOLEAN,
             \/ \E values \in Written : HSet(k, values, dropped)
             \/ \E f \in Field : HDel(k, f, dropped)
             \/ Del(k, dropped)
      PROVE  Followed'
  <2> SUFFICES ASSUME NEW q \in Key, IsFollowed(q)'
               PROVE  FollowedAt(q)'
    BY DEF Followed
  <2>1. PICK e \in Entry, events \in {<<"HSet">>, <<"HDel">>, <<"HDel", "Del">>, <<"Del">>} :
           /\ Write(k, e, events, dropped)
           /\ IsPopulated(e) <=> events \in {<<"HSet">>, <<"HDel">>}
    BY <1>0, <1>3, WriteCases
  <2>2. /\ q # k => /\ Pending(q)' = Pending(q) /\ (LastIsDel(q)' <=> LastIsDel(q))
                    /\ q \in lost' <=> q \in lost
        /\ Listening(DbOf[k]) /\ k \notin lost' =>
             Pending(k)' # {} /\ (LastIsDel(k)' <=> ~IsPopulated(e))
    BY <1>0, <2>1, WriteAnnounces
  <2>3. /\ UNCHANGED <<phase, subscribed, toSync, connLost, cache>>
        /\ db' = [db EXCEPT ![k] = e]
    BY <2>1 DEF Write, subscribeVars, goroutineVars
  <2>4. CASE q = k
    <3>1. Listening(DbOf[k]) /\ k \notin lost'
      BY <2>3, <2>4 DEF IsFollowed, Listening, Open
    <3>2. db'[k] = e
      BY <1>0, <2>3 DEF StateOK
    <3> QED
      BY <2>2, <2>4, <3>1, <3>2 DEF FollowedAt
  <2>5. CASE q # k
    <3>1. IsFollowed(q)
      BY <2>2, <2>3, <2>5 DEF IsFollowed
    <3>2. FollowedAt(q)
      BY <3>1 DEF Followed
    <3>3. db'[q] = db[q]
      BY <1>0, <2>3, <2>5 DEF StateOK
    <3>4. NotRead(q) => NotRead(q)'
      BY <2>3 DEF NotRead
    <3> QED
      BY <2>2, <2>3, <2>5, <3>2, <3>3, <3>4 DEF FollowedAt
  <2> QED
    BY <2>4, <2>5
<1>4. ASSUME NEW i \in Info, NEW k \in Key, InitialUpdate(i, k) PROVE Followed'
  <2> SUFFICES ASSUME NEW q \in Key, IsFollowed(q)'
               PROVE  FollowedAt(q)'
    BY DEF Followed
  <2>1. /\ UNCHANGED <<phase, subscribed, connLost, lost, db, channel>>
        /\ phase = "syncing" /\ toSync' = toSync \ {<<i, k>>}
        /\ \/ IsPopulated(db[k]) /\ cache' = [cache EXCEPT ![k] = Read(k)]
           \/ ~IsPopulated(db[k]) /\ cache' = cache
    BY <1>4 DEF InitialUpdate, goroutineVars
  <2>2. Pending(q)' = Pending(q) /\ (LastIsDel(q)' <=> LastIsDel(q))
    BY <2>1 DEF Pending, LastIsDel
  <2>3. FollowedAt(q)
    BY <2>1 DEF IsFollowed, Followed
  <2>4. CASE q # k
    <3>1. cache'[q] = cache[q]
      BY <1>0, <2>1, <2>4 DEF StateOK
    <3>2. NotRead(q) => NotRead(q)'
      BY <2>1, <2>4, <3>1 DEF NotRead
    <3> QED
      BY <2>1, <2>2, <2>3, <3>1, <3>2 DEF FollowedAt
  <2>5. CASE q = k
    <3>1. IsPopulated(db[k]) => cache'[k] = Read(k)
      BY <1>0, <2>1 DEF StateOK
    <3>2. cache[k] = db[k] \/ NotRead(k) => cache'[k] = db[k]
      BY <2>1, <3>1 DEF Read, NotRead, IsPopulated
    <3> QED
      BY <2>1, <2>2, <2>3, <2>5, <3>2 DEF FollowedAt
  <2> QED
    BY <2>4, <2>5
<1>5. ASSUME NEW d \in DbNo, TakeDel(d) \/ TakeSet(d) PROVE Followed'
  BY <1>5, TakeFollows
<1>6. ASSUME NEW d \in DbNo, TakeDefunct(d) PROVE Followed'
  BY <1>6 DEF TakeDefunct, subscribeVars, Open, Followed, IsFollowed
<1>7. ASSUME NEW i \in Info, NotifyPath(i) PROVE Followed'
  <2> SUFFICES ASSUME NEW q \in Key, IsFollowed(q)'
               PROVE  FollowedAt(q)'
    BY DEF Followed
  <2>1. PICK k \in Key, old \in Entry, new \in Entry :
          /\ cache' = [cache EXCEPT ![k] = IF Reads(i, old, new) THEN Read(k) ELSE cache[k]]
          /\ UNCHANGED <<db, channel, phase, subscribed, toSync, connLost, lost>>
    BY <1>0, <1>7, NotifyPathStep DEF goroutineVars
  <2>2. Pending(q)' = Pending(q) /\ (LastIsDel(q)' <=> LastIsDel(q))
    BY <2>1 DEF Pending, LastIsDel
  <2>3. FollowedAt(q)
    BY <2>1 DEF IsFollowed, Followed
  <2>4. cache'[q] = cache[q] \/ cache'[q] = Read(q)
    BY <1>0, <2>1 DEF StateOK
  <2>5. cache[q] = db[q] => cache'[q] = db[q]
    BY <2>4 DEF Read
  <2>6. NotRead(q) => cache'[q] = db[q] \/ NotRead(q)'
    BY <2>1, <2>4 DEF NotRead, Read, IsPopulated
  <2> QED
    BY <2>1, <2>2, <2>3, <2>5, <2>6 DEF FollowedAt
<1> QED
  BY <1>1, <1>2, <1>3, <1>4, <1>5, <1>6, <1>7, NextCases

(***************************************************************************)
(* The notification under way and the cache.                               *)
(***************************************************************************)
LEMMA WorkInvKept ==
  ASSUME WorkInv, UNCHANGED <<work, cache, raced>>
  PROVE  WorkInv'
BY DEF WorkInv

LEMMA DiffWork ==
  ASSUME StateOK, NEW d \in DbNo, NEW k \in Key, NEW new \in Entry, work = NoWork,
         Diff(d, k, cache[k], new)
  PROVE  WorkInv'
<1> DEFINE todo == {i \in Info : k \in Matching[i]}
<1>1. cache[k] \in Entry /\ cache'[k] = new
  BY DEF StateOK, Diff
<1>2. \/ work' = NoWork
      \/ cache[k] # new /\ work' = <<k, cache[k], new, todo>>
  BY DEF Diff
<1>3. CASE work' = NoWork
  BY <1>3 DEF WorkInv
<1>4. CASE cache[k] # new /\ work' = <<k, cache[k], new, todo>>
  <2>1. work'[1] = k /\ work'[2] = cache[k] /\ work'[3] = new /\ work'[4] = todo
    BY <1>4
  <2> QED
    BY <1>1, <1>4, <2>1 DEF WorkInv, IsPopulated
<1> QED
  BY <1>2, <1>3, <1>4

LEMMA NotifyPathWork ==
  ASSUME OnChangeTypeOK, MutexInv, WorkInv, NEW i \in Info, NotifyPath(i)
  PROVE  WorkInv'
<1>0. StateOK /\ ControlOK
  BY DEF OnChangeTypeOK
<1>1. PICK k \in Key, old \in Entry, new \in Entry :
           /\ work # NoWork /\ work \in Work
           /\ work[1] = k /\ work[2] = old /\ work[3] = new /\ i \in work[4]
           /\ cache' = [cache EXCEPT ![k] = IF Reads(i, old, new) THEN Read(k) ELSE cache[k]]
           /\ Overtakes(k, Info)
           /\ \/ work[4] = {i} /\ work' = NoWork
              \/ work' = [work EXCEPT ![4] = work[4] \ {i}]
  BY <1>0, NotifyPathStep
<1>2. work[4] \ {i} \in SUBSET Info
  BY <1>1, WorkShape
<1>3. CASE work' = NoWork
  BY <1>3 DEF WorkInv
<1>4. CASE work' = [work EXCEPT ![4] = work[4] \ {i}]
  <2>1. work'[1] = k /\ work'[2] = old /\ work'[3] = new /\ work'[4] = work[4] \ {i}
    BY <1>1, <1>2, <1>4, WorkExcept
  <2>2. /\ old # new
        /\ \A j \in work[4] : k \in Matching[j]
        /\ IsPopulated(new) => cache[k] = new
        /\ ~IsPopulated(new) =>
             \/ cache[k] = NoEntry
             \/ \A j \in Info : k \in Matching[j] => <<j, k>> \in raced
    BY <1>1 DEF WorkInv
  <2>3. cache'[k] = cache[k] \/ cache'[k] = Read(k)
    BY <1>0, <1>1 DEF StateOK
  <2>4. IsPopulated(cache[k]) => cache'[k] = cache[k]
    BY <2>3 DEF Read
  <2>5. raced \subseteq raced'
    BY <1>1 DEF Overtakes
  <2>6. ~IsPopulated(cache[k]) /\ IsPopulated(cache'[k]) =>
          \A j \in Info : k \in Matching[j] => <<j, k>> \in raced'
    BY <1>1 DEF Overtakes
  <2>7. IsPopulated(new) => cache'[k] = new
    BY <2>2, <2>4
  <2>8. ~IsPopulated(new) =>
          \/ cache'[k] = NoEntry
          \/ \A j \in Info : k \in Matching[j] => <<j, k>> \in raced'
    <3>1. CASE cache[k] = NoEntry
      BY <3>1, <2>6 DEF IsPopulated
    <3> QED
      BY <3>1, <2>2, <2>5
  <2> QED
    BY <2>1, <2>2, <2>7, <2>8 DEF WorkInv
<1> QED
  BY <1>1, <1>3, <1>4

LEMMA WorkInvNext ==
  ASSUME OnChangeTypeOK, MutexInv, WorkInv, [Next]_vars
  PROVE  WorkInv'
<1>0. StateOK /\ ControlOK
  BY DEF OnChangeTypeOK
<1>1. CASE ControlStep
  BY <1>1, ControlStepKeeps, WorkInvKept
<1>2. CASE UNCHANGED vars
  BY <1>2, WorkInvKept DEF vars, faultVars
<1>3. ASSUME NEW k \in Key, NEW dropped \in BOOLEAN,
             \/ \E values \in Written : HSet(k, values, dropped)
             \/ \E f \in Field : HDel(k, f, dropped)
             \/ Del(k, dropped)
      PROVE  WorkInv'
  <2>1. \E e \in Entry, events \in {<<"HSet">>, <<"HDel">>, <<"HDel", "Del">>, <<"Del">>} :
           Write(k, e, events, dropped)
    BY <1>0, <1>3, WriteCases
  <2> QED
    BY <2>1, WorkInvKept DEF Write
<1>4. ASSUME NEW i \in Info, NEW k \in Key, InitialUpdate(i, k) PROVE WorkInv'
  BY <1>4 DEF InitialUpdate, MutexInv, WorkInv
<1>5. ASSUME NEW d \in DbNo, TakeDel(d) PROVE WorkInv'
  BY <1>0, <1>5, TakesWhileRunning, TakeType, NoEntryIsEntry, DiffWork DEF TakeDel
<1>6. ASSUME NEW d \in DbNo, TakeSet(d) PROVE WorkInv'
  <2> DEFINE k == Head(channel[d])[2]
  <2>1. k \in Key /\ work = NoWork /\ db[k] \in Entry
    BY <1>0, <1>6, TakesWhileRunning, TakeType DEF TakeSet, StateOK
  <2>2. Diff(d, k, cache[k], db[k]) \/ UNCHANGED <<work>>
    BY <1>6 DEF TakeSet
  <2> HIDE DEF k
  <2>3. UNCHANGED <<work>> => WorkInv'
    BY <2>1 DEF WorkInv
  <2> QED
    BY <1>0, <2>1, <2>2, <2>3, DiffWork
<1>7. ASSUME NEW d \in DbNo, TakeDefunct(d) PROVE WorkInv'
  BY <1>7, WorkInvKept DEF TakeDefunct, faultVars
<1>8. ASSUME NEW i \in Info, NotifyPath(i) PROVE WorkInv'
  BY <1>8, NotifyPathWork
<1> QED
  BY <1>1, <1>2, <1>3, <1>4, <1>5, <1>6, <1>7, <1>8, NextCases

(***************************************************************************)
(* What a notification does to what the client shows.                      *)
(***************************************************************************)
LEMMA NotifyAt ==
  ASSUME NEW v \in View, NEW i \in Info, NEW k \in Key, NEW e \in Entry,
         NEW nodes, NEW read \in Entry, NEW p \in Instance, NEW l \in Leaf
  PROVE  Tell(v, i, k, e, nodes, read)[p][l] =
           IF ~(Resolves(i, e) /\ p = InstanceOf(i, k, e)) THEN v[p][l]
           ELSE IF Updates(i, p, nodes, read, l) THEN ValueAt(i, p, read, l)
           ELSE IF Clears(i, p, nodes, read, l) THEN None
           ELSE v[p][l]
<1> DEFINE P == InstanceOf(i, k, e)
           leaves == [m \in Leaf |->
             CASE Updates(i, P, nodes, read, m) -> ValueAt(i, P, read, m)
               [] /\ ~Updates(i, P, nodes, read, m)
                  /\ Clears(i, P, nodes, read, m) -> None
               [] OTHER -> v[P][m]]
<1>1. P \in Instance
  BY InstanceType
<1>2. Tell(v, i, k, e, nodes, read) =
        IF nodes # {} /\ Resolves(i, e) THEN [v EXCEPT ![P] = leaves] ELSE v
  BY DEF Tell, Clears, Notify, SendNotification
<1>3. leaves[l] = IF Updates(i, P, nodes, read, l) THEN ValueAt(i, P, read, l)
                  ELSE IF Clears(i, P, nodes, read, l) THEN None ELSE v[P][l]
  OBVIOUS
<1>4. /\ [v EXCEPT ![P] = leaves][P] = leaves
      /\ p # P => [v EXCEPT ![P] = leaves][p] = v[p]
  BY <1>1 DEF View
<1>5. nodes = {} => ~Updates(i, P, nodes, read, l) /\ ~Clears(i, P, nodes, read, l)
  BY DEF Updates, Clears, Deletes
<1> HIDE DEF P, leaves
<1> QED
  BY <1>2, <1>3, <1>4, <1>5 DEF P

\* The instances of other entries stay as they are.
LEMMA NotifiedOthers ==
  ASSUME NEW v \in View, NEW i \in Info, NEW k \in Key, NEW old \in Entry,
         NEW new \in Entry, NEW read \in Entry, NEW p \in Instance, p[1] # k
  PROVE  NotifiedView(v, i, k, old, new, read)[p] = v[p]
<1> DEFINE w == Tell(v, i, k, old, OldNodes(i, old, new), read)
<1>1. p # InstanceOf(i, k, old) /\ p # InstanceOf(i, k, new)
  BY DEF InstanceOf
<1>2. w \in View
  BY NotifyType DEF Tell
<1>3. \A u \in View, e \in Entry : \A nodes : p # InstanceOf(i, k, e) =>
        Tell(u, i, k, e, nodes, read)[p] = u[p]
  BY InstanceType DEF Tell, Notify, SendNotification, View
<1> QED
  BY <1>1, <1>2, <1>3 DEF NotifiedView

\* With one field for each leaf, a leaf shows its field.
LEMMA LeafValue ==
  ASSUME OneFieldPerLeaf, NEW i \in Info, NEW k \in Key, NEW e \in Entry,
         NEW p \in Instance, NEW l \in Leaf, IsAt(i, k, e, p)
  PROVE  /\ \A f \in Field : l \in LeavesOf[i][f] => ValueAt(i, p, e, l) = e[f]
         /\ (\A f \in Field : l \notin LeavesOf[i][f]) => ValueAt(i, p, e, l) = None
<1>1. InstanceOf(i, p[1], e) = p /\ IsPopulated(e) /\ Resolves(i, e)
  BY DEF IsAt, InstanceOf
<1>2. ASSUME NEW f \in Field, l \in LeavesOf[i][f] PROVE ValueAt(i, p, e, l) = e[f]
  <2>1. Showing(i, e, l) = IF e[f] # None THEN {f} ELSE {}
    BY <1>2 DEF Showing, OneFieldPerLeaf
  <2> QED
    BY <1>1, <2>1 DEF ValueAt
<1>3. ASSUME \A f \in Field : l \notin LeavesOf[i][f] PROVE ValueAt(i, p, e, l) = None
  BY <1>3 DEF ValueAt, Showing
<1> QED
  BY <1>2, <1>3

LEMMA ValueElsewhere ==
  ASSUME NEW i \in Info, NEW k \in Key, NEW e \in Entry,
         NEW p \in InstancesOf(k), NEW l \in Leaf, ~IsAt(i, k, e, p)
  PROVE  ValueAt(i, p, e, l) = None
BY DEF IsAt, ValueAt, InstancesOf

LEMMA ShownIsOnlyAt ==
  ASSUME NEW v \in View, NEW i \in Info, NEW k \in Key, NEW e \in Entry
  PROVE  /\ Exactly(v, i, k, e) => OnlyAt(v, i, k, e) /\ Partly(v, i, k, e)
         /\ Empty(v, k) => OnlyAt(v, i, k, e) /\ Partly(v, i, k, e)
         /\ Empty(v, k) <=> OnlyAt(v, i, k, NoEntry)
         /\ Empty(v, k) <=> Exactly(v, i, k, NoEntry)
<1>1. \A p : ~IsAt(i, k, NoEntry, p)
  BY DEF IsAt, IsPopulated
<1>2. \A p, l : ValueAt(i, p, NoEntry, l) = None
  BY DEF ValueAt, IsPopulated
<1>3. Exactly(v, i, k, e) => OnlyAt(v, i, k, e) /\ Partly(v, i, k, e)
  BY ValueElsewhere DEF Exactly, OnlyAt, Partly
<1> QED
  BY <1>1, <1>2, <1>3 DEF Empty, OnlyAt, Partly, Exactly

\* The whole instance is sent again: it shows what is read, if nothing was
\* shown of the entry before.
LEMMA NotifyTarget ==
  ASSUME NEW v \in View, NEW i \in Info, NEW k \in Key, NEW e \in Entry, Empty(v, k)
  PROVE  Exactly(Tell(v, i, k, e, {<<Target, FALSE>>}, e), i, k, e)
<1> DEFINE nodes == {<<Target, FALSE>>}
<1> SUFFICES ASSUME NEW p \in InstancesOf(k), NEW l \in Leaf
             PROVE  Tell(v, i, k, e, nodes, e)[p][l] = ValueAt(i, p, e, l)
  BY DEF Exactly
<1>0. p \in Instance /\ p[1] = k /\ v[p][l] = None
  BY DEF InstancesOf, Empty
<1>1. CASE Resolves(i, e) /\ p = InstanceOf(i, k, e)
  <2>1. Updates(i, p, nodes, e, l) <=> ValueAt(i, p, e, l) # None
    BY DEF Updates, Covers
  <2> HIDE DEF nodes
  <2> QED
    BY <1>0, <1>1, <2>1, NotifyAt
<1>2. CASE ~(Resolves(i, e) /\ p = InstanceOf(i, k, e))
  <2>1. ValueAt(i, p, e, l) = None
    BY <1>0, <1>2 DEF ValueAt
  <2> HIDE DEF nodes
  <2> QED
    BY <1>0, <1>2, <2>1, NotifyAt
<1> QED
  BY <1>1, <1>2

\* A delete of the instance of an entry leaves nothing of it.
LEMMA NotifyGone ==
  ASSUME NEW v \in View, NEW i \in Info, NEW k \in Key, NEW old \in Entry,
         NEW read \in Entry, OnlyAt(v, i, k, old)
  PROVE  Empty(Tell(v, i, k, old, {<<Target, TRUE>>}, read), k)
<1> DEFINE nodes == {<<Target, TRUE>>}
<1> SUFFICES ASSUME NEW p \in InstancesOf(k), NEW l \in Leaf
             PROVE  Tell(v, i, k, old, nodes, read)[p][l] = None
  BY DEF Empty
<1>0. p \in Instance /\ p[1] = k
  BY DEF InstancesOf
<1>1. CASE Resolves(i, old) /\ p = InstanceOf(i, k, old)
  <2>1. ~Updates(i, p, nodes, read, l) /\ Clears(i, p, nodes, read, l)
    BY DEF Updates, Clears, Deletes, Covers
  <2> HIDE DEF nodes
  <2> QED
    BY <1>0, <1>1, <2>1, NotifyAt
<1>2. CASE ~(Resolves(i, old) /\ p = InstanceOf(i, k, old))
  <2>1. v[p][l] = None
    BY <1>2 DEF OnlyAt, IsAt
  <2> HIDE DEF nodes
  <2> QED
    BY <1>0, <1>2, <2>1, NotifyAt
<1> QED
  BY <1>1, <1>2

LEMMA NotifyNothing ==
  ASSUME NEW v, NEW i, NEW k, NEW e, NEW read
  PROVE  Tell(v, i, k, e, {}, read) = v
BY DEF Tell, Notify

\* Leaf by leaf: the instance stays, and the leafs of the fields that differ
\* are sent.
LEMMA NotifyLeafs ==
  ASSUME OneFieldPerLeaf, NEW v \in View, NEW i \in Info, NEW k \in Key,
         NEW old \in Entry, NEW new \in Entry, BothExist(old, new),
         ~TargetCreate(i, old, new), ~TargetDelete(i, old, new)
  PROVE  LET w == Tell(v, i, k, new, NewNodes(i, old, new), new) IN
         /\ OnlyAt(v, i, k, old) => OnlyAt(w, i, k, new)
         /\ OnlyAt(v, i, k, old) /\ Partly(v, i, k, old) => Partly(w, i, k, new)
         /\ Exactly(v, i, k, old) => Exactly(w, i, k, new)
<1> DEFINE nodes == NewNodes(i, old, new)
           w == Tell(v, i, k, new, nodes, new)
           shown == ~({"leaf", "inspect"} \subseteq FlagsOf[i])
<1>1. nodes = NodesOf(i, UpdatedFields(old, new), FALSE)
              \cup NodesOf(i, CreatedFields(old, new), FALSE)
              \cup (IF shown THEN NodesOf(i, DeletedFields(old, new), TRUE)
                             ELSE NodesOf(i, DeletedFields(old, new), FALSE))
  BY DEF NewNodes
<1>2. KeyFieldOf[i] # None =>
        KeyFieldOf[i] \in Field /\ old[KeyFieldOf[i]] = new[KeyFieldOf[i]]
  BY OnChangeAssumption DEF TargetCreate, TargetDelete, KeyCreate, KeyDelete,
     CreatedFields, UpdatedFields, DeletedFields
<1>3. \A p : IsAt(i, k, old, p) <=> IsAt(i, k, new, p)
  BY <1>2 DEF IsAt, BothExist, Resolves, InstanceOf
<1>9. /\ UpdatedFields(old, new) \subseteq Field
      /\ CreatedFields(old, new) \subseteq Field
      /\ DeletedFields(old, new) \subseteq Field
      /\ shown \in BOOLEAN
      /\ \A f \in Field : LeavesOf[i][f] \subseteq Leaf
  BY OnChangeAssumption DEF UpdatedFields, CreatedFields, DeletedFields
<1> HIDE DEF shown
<1>10. \A n : n \in nodes <=>
         \/ \E f \in UpdatedFields(old, new) \cup CreatedFields(old, new) :
              \E m \in LeavesOf[i][f] : n = <<m, FALSE>>
         \/ \E f \in DeletedFields(old, new) : \E m \in LeavesOf[i][f] :
              (shown /\ n = <<m, TRUE>>) \/ (~shown /\ n = <<m, FALSE>>)
  BY <1>1 DEF NodesOf
<1> HIDE DEF nodes
<1>11. ASSUME NEW n \in nodes, NEW l \in Leaf, Covers(n, l)
       PROVE  /\ n = <<l, FALSE>> \/ n = <<l, TRUE>>
              /\ \E f \in Field : l \in LeavesOf[i][f]
  <2>0. PICK f \in Field : \E m \in LeavesOf[i][f] : n = <<m, FALSE>> \/ n = <<m, TRUE>>
    BY <1>9, <1>10
  <2>1. PICK m \in LeavesOf[i][f] : n = <<m, FALSE>> \/ n = <<m, TRUE>>
    BY <2>0
  <2>2. n[1] = m
    <3>1. CASE n = <<m, FALSE>>
      BY <3>1
    <3>2. CASE n = <<m, TRUE>>
      BY <3>2
    <3> QED
      BY <2>1, <3>1, <3>2
  <2>3. m = l
    <3>1. m \in Leaf
      BY <1>9
    <3> QED
      BY <1>11, <2>2, <3>1, OnChangeAssumption DEF Covers
  <2> QED
    BY <2>1, <2>3
<1>4. ASSUME NEW p \in InstancesOf(k), NEW l \in Leaf
      PROVE  /\ ~IsAt(i, k, new, p) => w[p][l] = v[p][l]
             /\ IsAt(i, k, new, p) =>
                  \/ w[p][l] = ValueAt(i, p, new, l)
                  \/ w[p][l] = v[p][l] /\ ValueAt(i, p, old, l) = ValueAt(i, p, new, l)
  <2>1. p \in Instance /\ p[1] = k
    BY DEF InstancesOf
  <2>2. CASE ~IsAt(i, k, new, p)
    BY <2>1, <2>2, NotifyAt DEF IsAt, BothExist
  <2>3. CASE IsAt(i, k, new, p)
    <3>1. IsAt(i, k, old, p) /\ Resolves(i, new) /\ p = InstanceOf(i, k, new)
      BY <1>3, <2>3 DEF IsAt
    <3>2. CASE \A f \in Field : l \notin LeavesOf[i][f]
      <4>2. ValueAt(i, p, old, l) = None /\ ValueAt(i, p, new, l) = None
        BY <2>1, <2>3, <3>1, <3>2, LeafValue
      <4>3. \A n \in nodes : ~Covers(n, l)
        <5> SUFFICES ASSUME NEW n \in nodes, Covers(n, l) PROVE FALSE
          OBVIOUS
        <5> QED
          BY <1>11, <3>2
      <4>4. ~Updates(i, p, nodes, new, l) /\ ~Clears(i, p, nodes, new, l)
        BY <4>3 DEF Updates, Clears, Deletes
      <4>5. w[p][l] = v[p][l]
        BY <2>1, <4>4, NotifyAt
      <4> QED
        BY <2>3, <4>2, <4>5
    <3>3. ASSUME NEW f \in Field, l \in LeavesOf[i][f]
          PROVE  \/ w[p][l] = new[f]
                 \/ w[p][l] = v[p][l] /\ old[f] = new[f]
      <4>1. \A g \in Field : l \in LeavesOf[i][g] => g = f
        BY <3>3 DEF OneFieldPerLeaf
      <4>2. /\ <<l, FALSE>> \in nodes <=>
                 \/ f \in UpdatedFields(old, new) \cup CreatedFields(old, new)
                 \/ f \in DeletedFields(old, new) /\ ~shown
            /\ <<l, TRUE>> \in nodes <=> f \in DeletedFields(old, new) /\ shown
        <5>1. <<l, TRUE>> \in nodes <=>
                \E g \in DeletedFields(old, new) : l \in LeavesOf[i][g] /\ shown
          BY <1>1 DEF NodesOf
        <5>2. <<l, FALSE>> \in nodes <=>
                \/ \E g \in UpdatedFields(old, new) \cup CreatedFields(old, new) :
                     l \in LeavesOf[i][g]
                \/ \E g \in DeletedFields(old, new) : l \in LeavesOf[i][g] /\ ~shown
          BY <1>1 DEF NodesOf
        <5> QED
          BY <1>9, <3>3, <4>1, <5>1, <5>2
      <4>3. \A n \in nodes : n = <<l, FALSE>> \/ n = <<l, TRUE>> \/ ~Covers(n, l)
        BY <1>11
      <4>4. ValueAt(i, p, new, l) = new[f]
        BY <2>1, <2>3, <3>3, LeafValue
      <4>5. CASE old[f] = new[f]
        <5>1. <<l, FALSE>> \notin nodes /\ <<l, TRUE>> \notin nodes
          BY <4>2, <4>5 DEF UpdatedFields, CreatedFields, DeletedFields
        <5>2. \A n \in nodes : ~Covers(n, l)
          BY <4>3, <5>1
        <5>3. ~Updates(i, p, nodes, new, l) /\ ~Clears(i, p, nodes, new, l)
          BY <5>2 DEF Updates, Clears, Deletes
        <5> QED
          BY <2>1, <3>1, <4>5, <5>3, NotifyAt
      <4>6. CASE old[f] # new[f] /\ new[f] # None
        <5>1. <<l, FALSE>> \in nodes
          BY <4>2, <4>6 DEF UpdatedFields, CreatedFields, BothExist
        <5>2. Updates(i, p, nodes, new, l)
          BY <4>4, <4>6, <5>1 DEF Updates, Covers
        <5> QED
          BY <2>1, <3>1, <4>4, <5>1, <5>2, NotifyAt
      <4>7. CASE old[f] # new[f] /\ new[f] = None
        <5>1. <<l, FALSE>> \in nodes \/ <<l, TRUE>> \in nodes
          BY <4>2, <4>7 DEF DeletedFields
        <5>2. ~Updates(i, p, nodes, new, l)
          BY <4>4, <4>7 DEF Updates
        <5>3. ~Found(i, p, new, <<l, FALSE>>)
          BY <4>4, <4>7, OnChangeAssumption DEF Found, Covers
        <5>4. Clears(i, p, nodes, new, l)
          BY <5>1, <5>3 DEF Clears, Deletes, Covers
        <5> QED
          BY <2>1, <3>1, <4>7, <5>1, <5>2, <5>4, NotifyAt
      <4> QED
        BY <4>5, <4>6, <4>7
    <3>4. \A f \in Field : l \in LeavesOf[i][f] =>
            ValueAt(i, p, old, l) = old[f] /\ ValueAt(i, p, new, l) = new[f]
      BY <2>1, <2>3, <3>1, LeafValue
    <3> QED
      BY <2>3, <3>2, <3>3, <3>4
  <2> QED
    BY <2>2, <2>3
<1>5. OnlyAt(v, i, k, old) => OnlyAt(w, i, k, new)
  BY <1>3, <1>4 DEF OnlyAt
<1>6. \A p \in InstancesOf(k), l \in Leaf : ~IsAt(i, k, new, p) =>
        ValueAt(i, p, old, l) = None /\ ValueAt(i, p, new, l) = None
  BY <1>3, ValueElsewhere
<1>7. Partly(v, i, k, old) => Partly(w, i, k, new)
  BY <1>4, <1>6 DEF Partly
<1>8. Exactly(v, i, k, old) => Exactly(w, i, k, new)
  BY <1>4, <1>6 DEF Exactly
<1> QED
  BY <1>5, <1>7, <1>8 DEF nodes

\* A notification of an entry that is there: what the client shows of the old
\* entry becomes what it shows of the new one.
LEMMA NotifySet ==
  ASSUME OneFieldPerLeaf, NEW v \in View, NEW i \in Info, NEW k \in Key,
         NEW old \in Entry, NEW new \in Entry, IsPopulated(new), OnlyAt(v, i, k, old)
  PROVE  /\ OnlyAt(NotifiedView(v, i, k, old, new, new), i, k, new)
         /\ Partly(v, i, k, old) => Partly(NotifiedView(v, i, k, old, new, new), i, k, new)
         /\ Exactly(v, i, k, old) => Exactly(NotifiedView(v, i, k, old, new, new), i, k, new)
<1> DEFINE u == Tell(v, i, k, old, OldNodes(i, old, new), new)
           w == Tell(u, i, k, new, NewNodes(i, old, new), new)
<1>1. NotifiedView(v, i, k, old, new, new) = w
  BY DEF NotifiedView
<1>2. ~EntryDeleted(old, new) /\ ~Inspects(i, old, new)
  BY DEF EntryDeleted, Inspects
<1>3. OldNodes(i, old, new) = IF TargetDelete(i, old, new) THEN {<<Target, TRUE>>} ELSE {}
  BY <1>2 DEF OldNodes
<1>4. u \in View /\ w \in View
  BY NotifyType DEF Tell
<1>5. CASE TargetCreate(i, old, new) \/ TargetDelete(i, old, new)
  <2>1. Empty(u, k)
    <3>1. CASE TargetDelete(i, old, new)
      BY <1>3, <3>1, NotifyGone
    <3>2. CASE ~TargetDelete(i, old, new) /\ TargetCreate(i, old, new)
      <4>1. u = v
        BY <1>3, <3>2, NotifyNothing
      <4>2. EntryCreated(old, new) => ~IsPopulated(old)
        BY DEF EntryCreated
      <4>3. KeyCreate(i, old, new) => ~Resolves(i, old)
        BY <3>2, OnChangeAssumption
           DEF TargetDelete, KeyCreate, KeyDelete, CreatedFields, Resolves
      <4>4. ~IsPopulated(old) \/ ~Resolves(i, old)
        BY <3>2, <4>2, <4>3 DEF TargetCreate
      <4> QED
        BY <4>1, <4>4 DEF OnlyAt, IsAt, Empty
    <3> QED
      BY <1>5, <3>1, <3>2
  <2>2. CASE TargetCreate(i, old, new)
    <3>1. w = Tell(u, i, k, new, {<<Target, FALSE>>}, new)
      BY <2>2 DEF NewNodes
    <3>2. Exactly(w, i, k, new)
      BY <1>4, <2>1, <3>1, NotifyTarget
    <3> QED
      BY <1>1, <1>4, <3>2, ShownIsOnlyAt
  <2>3. CASE ~TargetCreate(i, old, new)
    <3>1. w = u
      BY <1>5, <2>3, NotifyNothing DEF NewNodes
    <3>2. ~Resolves(i, new)
      BY <1>2, <1>5, <2>3, OnChangeAssumption
         DEF TargetCreate, TargetDelete, KeyCreate, KeyDelete, DeletedFields, Resolves
    <3>3. \A p \in InstancesOf(k), l \in Leaf : ValueAt(i, p, new, l) = None
      BY <3>2 DEF ValueAt
    <3>4. Exactly(w, i, k, new)
      BY <2>1, <3>1, <3>3 DEF Empty, Exactly
    <3> QED
      BY <1>1, <1>4, <3>4, ShownIsOnlyAt
  <2> QED
    BY <2>2, <2>3
<1>6. CASE ~TargetCreate(i, old, new) /\ ~TargetDelete(i, old, new)
  <2>1. u = v
    BY <1>3, <1>6, NotifyNothing
  <2>2. BothExist(old, new)
    BY <1>6 DEF TargetCreate, EntryCreated, BothExist
  <2>3. w = Tell(v, i, k, new, NewNodes(i, old, new), new)
    BY <2>1
  <2> QED
    BY <1>1, <1>6, <2>2, <2>3, NotifyLeafs
<1> QED
  BY <1>5, <1>6

\* A notification of an entry that is gone, with what is read of it by then.
LEMMA NotifyDel ==
  ASSUME NEW v \in View, NEW i \in Info, NEW k \in Key, NEW old \in Entry,
         IsPopulated(old), NEW read \in Entry, Roughly(v, i, k, old)
  PROVE  /\ Reads(i, old, NoEntry) =>
              Roughly(NotifiedView(v, i, k, old, NoEntry, read), i, k, read)
         /\ ~Reads(i, old, NoEntry) => Empty(NotifiedView(v, i, k, old, NoEntry, read), k)
<1> DEFINE nodes == OldNodes(i, old, NoEntry)
           w == Tell(v, i, k, old, nodes, read)
<1>1. /\ EntryDeleted(old, NoEntry) /\ TargetDelete(i, old, NoEntry)
      /\ ~TargetCreate(i, old, NoEntry)
  BY DEF EntryDeleted, TargetDelete, TargetCreate, EntryCreated, KeyCreate, CreatedFields,
         UpdatedFields, BothExist, IsPopulated
<1>2. NewNodes(i, old, NoEntry) = {}
  BY <1>1 DEF NewNodes
<1>3. NotifiedView(v, i, k, old, NoEntry, read) = w /\ w \in View
  BY <1>2, NotifyNothing, NotifyType DEF NotifiedView, Tell
<1>4. CASE ~Inspects(i, old, NoEntry)
  <2>1. nodes = {<<Target, TRUE>>}
    BY <1>1, <1>4 DEF OldNodes
  <2>2. Empty(w, k)
    BY <2>1, NotifyGone DEF Roughly
  <2>3. Roughly(w, i, k, read)
    BY <1>3, <2>2, ShownIsOnlyAt DEF Roughly
  <2> QED
    BY <1>3, <2>2, <2>3
<1>5. CASE Inspects(i, old, NoEntry)
  <2> DEFINE set == {f \in Field : old[f] # None}
  <2>1. \/ nodes = {<<Target, FALSE>>} /\ InspectNodes(i, old) = {}
        \/ nodes = NodesOf(i, set, FALSE) /\ nodes # {} /\ "partial" \in FlagsOf[i]
    BY <1>5 DEF OldNodes, InspectNodes
  <2>2. "inspect" \in FlagsOf[i]
    BY <1>5 DEF Inspects
  <2>3. \A n \in NodesOf(i, set, FALSE) : \E m : n = <<m, FALSE>>
    BY DEF NodesOf
  <2>4. Reads(i, old, NoEntry)
    <3>1. PICK n \in nodes : TRUE
      BY <2>1
    <3>2. PICK m : n = <<m, FALSE>>
      BY <2>1, <2>3
    <3>3. ~n[2]
      BY <3>2
    <3> QED
      BY <3>3 DEF Reads
  <2>5. ASSUME NEW l \in Leaf
        PROVE  /\ <<l, FALSE>> \in NodesOf(i, set, FALSE) <=>
                    \E f \in Field : old[f] # None /\ l \in LeavesOf[i][f]
               /\ (\E f \in Field : old[f] # None /\ l \in LeavesOf[i][f])
                    \/ \A p : ValueAt(i, p, old, l) = None
    BY DEF NodesOf, ValueAt, Showing
  <2>6. ASSUME NEW p \in InstancesOf(k), NEW l \in Leaf
        PROVE  \/ w[p][l] \in {None, ValueAt(i, p, read, l)}
               \/ ~ByParts(i) /\ IsAt(i, k, read, p)
    <3> HIDE DEF nodes, set
    <3>1. p \in Instance /\ p[1] = k
      BY DEF InstancesOf
    <3>2. CASE ~IsAt(i, k, old, p)
      <4>1. v[p][l] = None
        BY <3>2 DEF Roughly, OnlyAt
      <4>2. w[p][l] = v[p][l]
        BY <3>1, <3>2, NotifyAt DEF IsAt
      <4> QED
        BY <4>1, <4>2
    <3>3. CASE IsAt(i, k, old, p)
      <4>1. Resolves(i, old) /\ p = InstanceOf(i, k, old)
        BY <3>3 DEF IsAt
      <4>2. w[p][l] = IF Updates(i, p, nodes, read, l) THEN ValueAt(i, p, read, l)
                      ELSE IF Clears(i, p, nodes, read, l) THEN None
                      ELSE v[p][l]
        BY <3>1, <4>1, NotifyAt
      <4>3. CASE nodes = {<<Target, FALSE>>} /\ InspectNodes(i, old) = {}
        <5>1. Clears(i, p, nodes, read, l) <=> ~\E m \in Leaf : ValueAt(i, p, read, m) # None
          BY <4>3 DEF Clears, Deletes, Found, Covers
        <5>2. ASSUME NEW m \in Leaf, ValueAt(i, p, read, m) # None PROVE IsAt(i, k, read, p)
          BY <5>2, ValueElsewhere
        <5>3. ByParts(i) => v[p][l] = None
          <6> SUFFICES ASSUME ByParts(i) PROVE v[p][l] = None
            OBVIOUS
          <6>1. v[p][l] \in {None, ValueAt(i, p, old, l)}
            BY DEF Roughly, Partly
          <6>2. NodesOf(i, set, FALSE) = {}
            BY <4>3 DEF InspectNodes, ByParts, set
          <6> QED
            BY <2>5, <6>1, <6>2
        <5> QED
          BY <4>2, <5>1, <5>2, <5>3
      <4>4. CASE nodes = NodesOf(i, set, FALSE) /\ "partial" \in FlagsOf[i]
        <5>1. v[p][l] \in {None, ValueAt(i, p, old, l)}
          BY <2>2, <4>4 DEF Roughly, Partly, ByParts
        <5>2. CASE <<l, FALSE>> \in nodes /\ ValueAt(i, p, read, l) = None
          <6>1. ~Found(i, p, read, <<l, FALSE>>)
            BY <5>2, OnChangeAssumption DEF Found, Covers
          <6>2. Clears(i, p, nodes, read, l)
            BY <5>2, <6>1 DEF Clears, Deletes, Covers
          <6> QED
            BY <4>2, <6>2
        <5>3. CASE <<l, FALSE>> \in nodes /\ ValueAt(i, p, read, l) # None
          <6>1. Updates(i, p, nodes, read, l)
            BY <5>3 DEF Updates, Covers
          <6> QED
            BY <4>2, <6>1
        <5>4. CASE <<l, FALSE>> \notin nodes
          BY <2>5, <4>2, <4>4, <5>1, <5>4
        <5> QED
          BY <5>2, <5>3, <5>4
      <4> QED
        BY <2>1, <4>3, <4>4
    <3> QED
      BY <3>2, <3>3
  <2>7. OnlyAt(w, i, k, read)
    BY <2>6, ValueElsewhere DEF OnlyAt
  <2>8. ByParts(i) => Partly(w, i, k, read)
    BY <2>6 DEF Partly
  <2> QED
    BY <1>3, <2>4, <2>7, <2>8 DEF Roughly
<1> QED
  BY <1>4, <1>5

(***************************************************************************)
(* What the client shows follows the cache.                                *)
(***************************************************************************)
LEMMA SameInstances ==
  ASSUME NEW v, NEW w, NEW i, NEW k, NEW e, \A p \in InstancesOf(k) : w[p] = v[p]
  PROVE  /\ Empty(v, k) => Empty(w, k)
         /\ Roughly(v, i, k, e) => Roughly(w, i, k, e)
         /\ Partly(v, i, k, e) => Partly(w, i, k, e)
         /\ Exactly(v, i, k, e) => Exactly(w, i, k, e)
BY DEF Empty, Roughly, OnlyAt, Partly, Exactly

\* A step that touches neither the path nor the entry.
LEMMA ToldAtKept ==
  ASSUME NEW i \in Info, NEW k \in Key, ToldAt(i, k),
         Synced(i, k)' => Synced(i, k),
         Open' /\ k \in Matching[i] /\ ~Synced(i, k)' => Open /\ ~Synced(i, k),
         InWork(i, k)' <=> InWork(i, k),
         InWork(i, k) => work'[2] = work[2] /\ work'[3] = work[3],
         \A p \in InstancesOf(k) : view'[i][p] = view[i][p],
         cache'[k] = cache[k],
         <<i, k>> \in raced => <<i, k>> \in raced',
         connLost \subseteq connLost',
         DelPending(k) => DelPending(k)'
  PROVE  ToldAt(i, k)'
<1>1. \A e : /\ Roughly(view[i], i, k, e) => Roughly(view'[i], i, k, e)
             /\ Partly(view[i], i, k, e) => Partly(view'[i], i, k, e)
             /\ Exactly(view[i], i, k, e) => Exactly(view'[i], i, k, e)
  BY SameInstances
<1>2. Empty(view[i], k) => Empty(view'[i], k)
  BY SameInstances
<1>3. ASSUME NEW e, Told(view[i], i, k, e)
      PROVE  /\ Roughly(view'[i], i, k, e)
             /\ <<i, k>> \notin raced' /\ DbOf[k] \notin connLost' =>
                  Exactly(view'[i], i, k, e) \/ (DelPending(k)' /\ Partly(view'[i], i, k, e))
  BY <1>1, <1>3 DEF Told
<1>4. Synced(i, k)' /\ ~InWork(i, k)' => Told(view[i], i, k, cache[k])'
  BY <1>3 DEF ToldAt, Told
<1>5. InWork(i, k)' /\ IsPopulated(work[3])' => Told(view[i], i, k, work[2])'
  BY <1>3 DEF ToldAt, Told
<1>6. InWork(i, k)' /\ ~IsPopulated(work[3])' => Roughly(view[i], i, k, work[2])'
  BY <1>1 DEF ToldAt
<1>7. Open' /\ k \in Matching[i] /\ ~Synced(i, k)' => Empty(view[i], k)'
  BY <1>2 DEF ToldAt
<1> QED
  BY <1>4, <1>5, <1>6, <1>7 DEF ToldAt

LEMMA ControlStepTold ==
  ASSUME OnChangeTypeOK, MutexInv, ToldInv, ControlStep
  PROVE  ToldInv'
<1>0. StateOK /\ ControlOK
  BY DEF OnChangeTypeOK
<1> SUFFICES ASSUME NEW i \in Info, NEW k \in Key
             PROVE  ToldAt(i, k)'
  BY DEF ToldInv
<1>1. /\ UNCHANGED <<channel, cache, work, view, raced>>
      /\ DelPending(k)' <=> DelPending(k)
      /\ InWork(i, k)' <=> InWork(i, k)
  BY ControlStepKeeps DEF DelPending, Pending, InWork
<1>2. connLost \subseteq connLost'
  BY DEF ControlStep, StartSubscribe, StartSync, SyncDone, SubscribeFails, Stop, Cleanup,
         SubscribeDB, ConnectionLost, ChannelDrained, LastEvent, goroutineVars
<1>3. CASE StartSync
  <2>1. k \in Matching[i] => <<i, k>> \in toSync'
    BY <1>3 DEF StartSync
  <2>2. phase = "starting" /\ phase' = "syncing"
    BY <1>3 DEF StartSync
  <2>3. ~Synced(i, k)' /\ ~Synced(i, k) /\ Open
    BY <2>1, <2>2 DEF Synced, Open
  <2> QED
    BY <1>1, <1>2, <2>3, ToldAtKept DEF ToldInv
<1>4. CASE ~StartSync
  <2>1. toSync' = toSync
    BY <1>4 DEF ControlStep, StartSubscribe, SyncDone, SubscribeFails, Stop, Cleanup,
         SubscribeDB, ConnectionLost, ChannelDrained, LastEvent, subscribeVars
  <2>2. \/ phase' = phase \/ ~Open'
        \/ phase = "idle" /\ phase' = "starting"
        \/ phase = "syncing" /\ phase' = "running"
    BY <1>4 DEF ControlStep, StartSubscribe, SyncDone, SubscribeFails, Stop, Cleanup,
         SubscribeDB, ConnectionLost, ChannelDrained, LastEvent, subscribeVars, Open
  <2>3. /\ Synced(i, k)' => Synced(i, k)
        /\ Open' /\ k \in Matching[i] /\ ~Synced(i, k)' => Open /\ ~Synced(i, k)
    BY <2>1, <2>2 DEF Synced, Open
  <2> QED
    BY <1>1, <1>2, <2>3, ToldAtKept DEF ToldInv
<1> QED
  BY <1>3, <1>4

LEMMA WriteTold ==
  ASSUME OnChangeTypeOK, ToldInv, NEW k \in Key, NEW dropped \in BOOLEAN,
         \/ \E values \in Written : HSet(k, values, dropped)
         \/ \E f \in Field : HDel(k, f, dropped)
         \/ Del(k, dropped)
  PROVE  ToldInv'
<1>0. StateOK /\ ControlOK
  BY DEF OnChangeTypeOK
<1> SUFFICES ASSUME NEW i \in Info, NEW q \in Key
             PROVE  ToldAt(i, q)'
  BY DEF ToldInv
<1>1. PICK e \in Entry, events \in {<<"HSet">>, <<"HDel">>, <<"HDel", "Del">>, <<"Del">>} :
         /\ Write(k, e, events, dropped)
         /\ IsPopulated(e) <=> events \in {<<"HSet">>, <<"HDel">>}
  BY <1>0, WriteCases
<1>2. DelPending(q) => DelPending(q)'
  <2>1. q # k => (DelPending(q)' <=> DelPending(q))
    BY <1>0, <1>1, WriteAnnounces
  <2>2. q = k => (DelPending(q) => DelPending(q)')
    BY <1>0, <1>1, WriteAnnounces
  <2> QED
    BY <2>1, <2>2
<1>3. UNCHANGED <<cache, work, view, raced, phase, toSync, connLost>>
  BY <1>1 DEF Write, subscribeVars, goroutineVars
<1>4. /\ Synced(i, q)' <=> Synced(i, q)
      /\ InWork(i, q)' <=> InWork(i, q)
      /\ Open' <=> Open
  BY <1>3 DEF Synced, InWork, Open
<1> QED
  BY <1>2, <1>3, <1>4, ToldAtKept DEF ToldInv

\* The initial value of an instance.
TellFirst(v, i, k, e) == Notify(v, i, k, e, {<<Target, FALSE>>}, e, FALSE)

LEMMA NotifyInitial ==
  ASSUME NEW v \in View, NEW i \in Info, NEW k \in Key, NEW e \in Entry, Empty(v, k)
  PROVE  Exactly(TellFirst(v, i, k, e), i, k, e)
<1> DEFINE P == InstanceOf(i, k, e)
           nodes == {<<Target, FALSE>>}
           leaves == [l \in Leaf |->
             CASE Updates(i, P, nodes, e, l) -> ValueAt(i, P, e, l)
               [] /\ ~Updates(i, P, nodes, e, l)
                  /\ Deletes(i, P, nodes, e, FALSE, l) -> None
               [] OTHER -> v[P][l]]
           w == TellFirst(v, i, k, e)
<1>1. P \in Instance /\ P[1] = k
  BY InstanceType DEF InstanceOf
<1>2. w = IF Resolves(i, e) THEN [v EXCEPT ![P] = leaves] ELSE v
  BY DEF TellFirst, Notify, SendNotification
<1>3. \A l \in Leaf : leaves[l] = ValueAt(i, P, e, l)
  <2> SUFFICES ASSUME NEW l \in Leaf PROVE leaves[l] = ValueAt(i, P, e, l)
    OBVIOUS
  <2>1. Updates(i, P, nodes, e, l) <=> ValueAt(i, P, e, l) # None
    BY DEF Updates, Covers
  <2>2. v[P][l] = None
    BY <1>1 DEF Empty, InstancesOf
  <2> QED
    BY <2>1, <2>2
<1> HIDE DEF leaves, w
<1> SUFFICES ASSUME NEW p \in InstancesOf(k), NEW l \in Leaf
             PROVE  w[p][l] = ValueAt(i, p, e, l)
  BY DEF Exactly, w
<1>4. p \in Instance /\ p[1] = k /\ v[p][l] = None
  BY DEF InstancesOf, Empty
<1>5. CASE Resolves(i, e) /\ p = P
  BY <1>1, <1>2, <1>3, <1>5 DEF View
<1>6. CASE ~(Resolves(i, e) /\ p = P)
  <2>1. w[p] = v[p]
    BY <1>1, <1>2, <1>4, <1>6 DEF View
  <2>2. ValueAt(i, p, e, l) = None
    BY <1>4, <1>6 DEF ValueAt
  <2> QED
    BY <1>4, <2>1, <2>2
<1> QED
  BY <1>5, <1>6

\* A scan that does not find the entry: its announcement is on the way.
LEMMA InitialAbsent ==
  ASSUME OnChangeTypeOK, MutexInv, Followed, NEW k \in Key, phase = "syncing",
         ~IsPopulated(db[k]), DbOf[k] \notin connLost, ~DelPending(k)
  PROVE  cache[k] = NoEntry
<1>1. IsFollowed(k)
  BY OnChangeAssumption DEF IsFollowed, MutexInv, Open, OnChangeTypeOK
<1>2. FollowedAt(k)
  BY <1>1 DEF Followed
<1>3. Pending(k) = {}
  BY <1>2, LastDelIsPending DEF FollowedAt
<1> QED
  BY <1>2, <1>3 DEF FollowedAt, NotRead, IsPopulated

LEMMA InitialTold ==
  ASSUME OnChangeTypeOK, MutexInv, Followed, ToldInv,
         NEW i \in Info, NEW k \in Key, InitialUpdate(i, k)
  PROVE  ToldInv'
<1>0. StateOK /\ ControlOK
  BY DEF OnChangeTypeOK
<1> SUFFICES ASSUME NEW j \in Info, NEW q \in Key
             PROVE  ToldAt(j, q)'
  BY DEF ToldInv
<1>1. /\ phase = "syncing" /\ <<i, k>> \in toSync /\ toSync' = toSync \ {<<i, k>>}
      /\ UNCHANGED <<db, channel, work, phase, connLost>>
      /\ work = NoWork
  BY DEF InitialUpdate, goroutineVars, MutexInv
<1>2. \/ /\ IsPopulated(db[k])
         /\ view' = [view EXCEPT ![i] = TellFirst(view[i], i, k, Read(k))]
         /\ cache' = [cache EXCEPT ![k] = Read(k)]
      \/ ~IsPopulated(db[k]) /\ UNCHANGED <<view, cache>>
  BY DEF InitialUpdate, TellFirst
<1>3. Read(k) \in Entry /\ view[i] \in View /\ view \in [Info -> View] /\ cache \in [Key -> Entry]
  BY <1>0, ReadType DEF StateOK
<1>4. /\ ~InWork(j, q) /\ ~InWork(j, q)'
      /\ DelPending(q)' <=> DelPending(q)
      /\ Open /\ Open'
  BY <1>1 DEF InWork, DelPending, Pending, Open
<1>5. Synced(j, q)' <=> Synced(j, q) \/ (j = i /\ q = k /\ k \in Matching[i])
  BY <1>0, <1>1 DEF Synced, ControlOK
<1>6. <<j, q>> \in raced' <=>
        \/ <<j, q>> \in raced
        \/ /\ q = k /\ j # i /\ <<j, k>> \notin toSync /\ k \in Matching[j]
           /\ IsPopulated(cache'[k]) /\ ~IsPopulated(cache[k])
  BY DEF InitialUpdate, Overtakes
<1>7. ToldAt(j, q)
  BY DEF ToldInv
<1>8. j # i => view'[j] = view[j]
  BY <1>2, <1>3
<1>9. q # k => cache'[q] = cache[q]
  BY <1>2, <1>3
<1>10. CASE q # k
  <2>1. \A p \in InstancesOf(q) : view'[j][p] = view[j][p]
    <3>1. CASE view' = view
      BY <3>1
    <3>2. CASE view' = [view EXCEPT ![i] = TellFirst(view[i], i, k, Read(k))]
      <4> SUFFICES ASSUME NEW p \in InstancesOf(q), j = i PROVE view'[j][p] = view[j][p]
        BY <1>8
      <4>1. view'[i] = TellFirst(view[i], i, k, Read(k))
        BY <1>3, <3>2
      <4>2. p # InstanceOf(i, k, Read(k)) /\ p \in Instance
        BY <1>10 DEF InstancesOf, InstanceOf
      <4> QED
        BY <1>3, <4>1, <4>2, InstanceType DEF TellFirst, Notify, SendNotification, View
    <3> QED
      BY <1>2, <3>1, <3>2
  <2> QED
    BY <1>1, <1>4, <1>5, <1>6, <1>7, <1>9, <1>10, <2>1, ToldAtKept
<1>11. CASE q = k /\ j # i
  <2>1. CASE cache'[k] = cache[k]
    BY <1>1, <1>4, <1>5, <1>6, <1>7, <1>8, <1>11, <2>1, ToldAtKept
  <2>2. CASE cache'[k] # cache[k]
    <3>1. ~IsPopulated(cache[k]) /\ cache'[k] = Read(k)
      BY <1>2, <1>3, <2>2 DEF Read
    <3>2. IsPopulated(cache'[k])
      BY <2>2, <3>1 DEF IsPopulated
    <3>3. Synced(j, k) => <<j, k>> \in raced'
      BY <1>6, <1>11, <3>1, <3>2 DEF Synced
    <3>4. Synced(j, k) => Empty(view[j], k)
      <4>1. Synced(j, k) => Roughly(view[j], j, k, NoEntry)
        BY <1>4, <1>7, <1>11, <3>1 DEF ToldAt, Told, IsPopulated
      <4> QED
        BY <4>1, <1>3, ShownIsOnlyAt, NoEntryIsEntry DEF Roughly
    <3>5. Synced(j, k) => Roughly(view[j], j, k, cache'[k])
      BY <1>3, <3>1, <3>4, ShownIsOnlyAt DEF Roughly
    <3>6. Synced(j, q)' => Told(view[j], j, q, cache[q])'
      BY <1>5, <1>8, <1>11, <3>3, <3>5 DEF Told
    <3>7. k \in Matching[j] /\ ~Synced(j, q)' => Empty(view[j], q)'
      BY <1>4, <1>5, <1>7, <1>8, <1>11 DEF ToldAt, Empty
    <3> QED
      BY <1>4, <1>11, <3>6, <3>7 DEF ToldAt
  <2> QED
    BY <2>1, <2>2
<1>12. CASE q = k /\ j = i
  <2> SUFFICES ASSUME k \in Matching[i]
               PROVE  Told(view[i], i, k, cache[k])'
    BY <1>4, <1>5, <1>12 DEF ToldAt, Synced
  <2>1. Empty(view[i], k)
    BY <1>1, <1>4, <1>7, <1>12 DEF ToldAt, Synced
  <2>2. CASE IsPopulated(db[k])
    <3>1. Exactly(view'[i], i, k, Read(k)) /\ cache'[k] = Read(k)
      BY <1>2, <1>3, <2>1, <2>2, NotifyInitial
    <3>2. OnlyAt(view'[i], i, k, Read(k)) /\ Partly(view'[i], i, k, Read(k))
      BY <1>3, <3>1, ValueElsewhere DEF Exactly, OnlyAt, Partly
    <3> QED
      BY <3>1, <3>2 DEF Told, Roughly
  <2>3. CASE ~IsPopulated(db[k])
    <3>1. view' = view /\ cache' = cache
      BY <1>2, <2>3
    <3>2. \A e \in Entry : OnlyAt(view[i], i, k, e) /\ Partly(view[i], i, k, e)
      BY <1>3, <2>1, ShownIsOnlyAt
    <3>3. DbOf[k] \notin connLost /\ ~DelPending(k) => Exactly(view[i], i, k, cache[k])
      BY <1>1, <1>3, <2>1, <2>3, InitialAbsent, ShownIsOnlyAt
    <3>4. cache[k] \in Entry
      BY <1>3
    <3> QED
      BY <1>1, <1>4, <1>12, <3>1, <3>2, <3>3, <3>4 DEF Told, Roughly
  <2> QED
    BY <2>2, <2>3
<1> QED
  BY <1>10, <1>11, <1>12

LEMMA TakeTold ==
  ASSUME OnChangeTypeOK, MutexInv, ToldInv, NEW d \in DbNo, TakeDel(d) \/ TakeSet(d)
  PROVE  ToldInv'
<1>0. StateOK /\ ControlOK
  BY DEF OnChangeTypeOK
<1> DEFINE h == Head(channel[d])
<1>1. /\ Take(d) /\ Open
      /\ UNCHANGED <<db, view, phase, toSync, connLost>>
  BY DEF TakeDel, TakeSet, goroutineVars
<1>2. phase = "running" /\ work = NoWork
  BY <1>0, <1>1, TakesWhileRunning
<1> SUFFICES ASSUME NEW j \in Info, NEW q \in Key
             PROVE  ToldAt(j, q)'
  BY DEF ToldInv
<1>3. PICK k \in Key : k = h[2]
  BY <1>0, <1>1, TakeType
<1>4. DelPending(q) => DelPending(q)' \/ (q = k /\ h[1] = "Del")
  BY <1>0, <1>1, <1>3, TakeAnnounced
<1>5. /\ ~InWork(j, q) /\ Open'
      /\ Synced(j, q)' <=> Synced(j, q)
      /\ view' = view
  BY <1>1, <1>2 DEF InWork, Synced, Open
<1>6. view[j] \in View /\ cache \in [Key -> Entry] /\ db[k] \in Entry
  BY <1>0 DEF StateOK
<1>7. ToldAt(j, q)
  BY DEF ToldInv
<1>8. ASSUME NEW new \in Entry, Diff(d, k, cache[k], new)
      PROVE  /\ cache' = [cache EXCEPT ![k] = new]
             /\ work' # NoWork => /\ work'[1] = k /\ work'[2] = cache[k] /\ work'[3] = new
                                  /\ InWork(j, k)' <=> k \in Matching[j]
             /\ work' = NoWork => cache[k] = new \/ k \notin Matching[j]
  <2> DEFINE todo == {i \in Info : k \in Matching[i]}
  <2>1. CASE cache[k] # new /\ todo # {}
    <3>1. work' = <<k, cache[k], new, todo>>
      BY <1>8, <2>1 DEF Diff
    <3>2. /\ work'[1] = k /\ work'[2] = cache[k] /\ work'[3] = new /\ work'[4] = todo
          /\ work' # NoWork
      BY <3>1 DEF NoWork
    <3>3. InWork(j, k)' <=> k \in Matching[j]
      BY <3>2 DEF InWork
    <3> QED
      BY <1>8, <3>2, <3>3 DEF Diff
  <2>2. CASE ~(cache[k] # new /\ todo # {})
    BY <1>2, <1>8, <2>2 DEF Diff
  <2> QED
    BY <2>1, <2>2
<1>9. CASE TakeDel(d)
  <2>1. /\ Diff(d, k, cache[k], NoEntry) /\ h[1] = "Del"
        /\ raced' = raced \ (Info \X {k})
    BY <1>3, <1>9 DEF TakeDel
  <2>2. CASE q # k
    <3>1. ~InWork(j, q)' /\ cache'[q] = cache[q]
      BY <1>6, <1>8, <2>1, <2>2, NoEntryIsEntry DEF InWork
    <3>2. <<j, q>> \in raced => <<j, q>> \in raced'
      BY <2>1, <2>2
    <3> QED
      BY <1>1, <1>4, <1>5, <1>7, <2>2, <3>1, <3>2, ToldAtKept
  <2>3. CASE q = k
    <3>1. cache'[k] = NoEntry
      BY <1>6, <1>8, <2>1, NoEntryIsEntry
    <3>2. Synced(j, k) => Roughly(view[j], j, k, cache[k])
      BY <1>5, <1>7, <2>3 DEF ToldAt, Told
    <3>3. CASE work' = NoWork
      <4>1. ~InWork(j, q)'
        BY <3>3 DEF InWork
      <4>2. Synced(j, k) => cache[k] = NoEntry
        BY <1>8, <2>1, <3>3, NoEntryIsEntry DEF Synced
      <4>3. Synced(j, k) => Exactly(view[j], j, k, NoEntry)
        BY <1>6, <3>2, <4>2, ShownIsOnlyAt, NoEntryIsEntry DEF Roughly
      <4>4. Synced(j, q)' => Told(view[j], j, q, cache[q])'
        BY <1>5, <2>3, <3>1, <3>2, <4>2, <4>3 DEF Told
      <4> QED
        BY <1>1, <1>5, <1>7, <2>3, <4>1, <4>4 DEF ToldAt
    <3>4. CASE work' # NoWork
      <4>1. /\ work'[2] = cache[k] /\ work'[3] = NoEntry
            /\ InWork(j, k)' <=> k \in Matching[j]
        BY <1>8, <2>1, <3>4, NoEntryIsEntry
      <4>2. k \in Matching[j] => Synced(j, k)
        BY <1>0, <1>2, <1>5 DEF MutexInv, Synced
      <4>3. Synced(j, k) => InWork(j, k)'
        BY <4>1 DEF Synced
      <4> QED
        BY <1>5, <1>7, <2>3, <3>2, <4>1, <4>2, <4>3 DEF ToldAt, IsPopulated
    <3> QED
      BY <3>3, <3>4
  <2> QED
    BY <2>2, <2>3
<1>10. CASE TakeSet(d)
  <2>1. h[1] # "Del" /\ raced' = raced
    BY <1>10 DEF TakeSet, faultVars
  <2>2. DelPending(q) => DelPending(q)'
    BY <1>4, <2>1
  <2>3. CASE UNCHANGED <<cache, work>>
    <3>1. ~InWork(j, q)'
      BY <1>2, <2>3 DEF InWork
    <3> QED
      BY <1>1, <1>5, <1>7, <2>1, <2>2, <2>3, <3>1, ToldAtKept
  <2>4. CASE IsPopulated(db[k]) /\ Diff(d, k, cache[k], db[k])
    <3>1. cache' = [cache EXCEPT ![k] = db[k]]
      BY <1>6, <1>8, <2>4
    <3>2. CASE q # k \/ (work' = NoWork /\ cache[k] = db[k])
      <4>1. ~InWork(j, q)' /\ cache'[q] = cache[q]
        BY <1>6, <1>8, <2>4, <3>1, <3>2 DEF InWork
      <4> QED
        BY <1>1, <1>5, <1>7, <2>1, <2>2, <4>1, ToldAtKept
    <3>3. CASE q = k /\ work' = NoWork /\ k \notin Matching[j]
      <4>1. ~Synced(j, q) /\ ~InWork(j, q)'
        BY <3>3 DEF Synced, InWork
      <4> QED
        BY <1>5, <3>3, <4>1 DEF ToldAt
    <3>4. CASE q = k /\ work' # NoWork
      <4>1. /\ work'[2] = cache[k] /\ work'[3] = db[k]
            /\ InWork(j, k)' <=> k \in Matching[j]
        BY <1>6, <1>8, <2>4, <3>4
      <4>2. k \in Matching[j] => Synced(j, k)
        BY <1>0, <1>2, <1>5 DEF MutexInv, Synced
      <4>3. Synced(j, k) => InWork(j, k)'
        BY <4>1 DEF Synced
      <4>4. Synced(j, k) => Told(view[j], j, k, cache[k])
        BY <1>5, <1>7, <3>4 DEF ToldAt
      <4>5. InWork(j, k)' => Told(view[j], j, k, work[2])'
        BY <1>1, <2>1, <2>2, <3>4, <4>1, <4>2, <4>4 DEF Told
      <4> QED
        BY <1>5, <2>4, <3>4, <4>1, <4>2, <4>3, <4>5 DEF ToldAt
    <3> QED
      BY <1>6, <1>8, <2>4, <3>2, <3>3, <3>4
  <2> QED
    BY <1>3, <1>10, <2>3, <2>4 DEF TakeSet
<1> QED
  BY <1>9, <1>10

LEMMA NotifyPathTold ==
  ASSUME OneFieldPerLeaf, OnChangeTypeOK, MutexInv, WorkInv, ToldInv,
         NEW i \in Info, NotifyPath(i)
  PROVE  ToldInv'
<1>0. StateOK /\ ControlOK
  BY DEF OnChangeTypeOK
<1> SUFFICES ASSUME NEW j \in Info, NEW q \in Key
             PROVE  ToldAt(j, q)'
  BY DEF ToldInv
<1>1. PICK k \in Key, old \in Entry, new \in Entry :
        /\ work # NoWork /\ work \in Work
        /\ work[1] = k /\ work[2] = old /\ work[3] = new /\ i \in work[4]
        /\ view' = [view EXCEPT ![i] = NotifiedView(view[i], i, k, old, new, Read(k))]
        /\ cache' = [cache EXCEPT ![k] = IF Reads(i, old, new) THEN Read(k) ELSE cache[k]]
        /\ Overtakes(k, Info)
        /\ \/ work[4] = {i} /\ work' = NoWork
           \/ work[4] # {i} /\ work' = [work EXCEPT ![4] = work[4] \ {i}]
        /\ UNCHANGED <<db, channel, phase, toSync, connLost>>
  BY <1>0, NotifyPathStep DEF goroutineVars
<1>2. /\ old # new /\ k \in Matching[i]
      /\ IsPopulated(new) => cache[k] = new
      /\ ~IsPopulated(new) =>
           \/ cache[k] = NoEntry
           \/ \A p \in Info : k \in Matching[p] => <<p, k>> \in raced
  BY <1>1 DEF WorkInv
<1>3. /\ Read(k) \in Entry /\ view[i] \in View /\ view \in [Info -> View]
      /\ view[j] \in View /\ cache \in [Key -> Entry]
  BY <1>0, ReadType DEF StateOK
<1>4. phase = "running" /\ Open /\ Open' /\ toSync = {}
  BY <1>1 DEF MutexInv, Open
<1>5. /\ Synced(j, q)' <=> Synced(j, q)
      /\ Synced(j, q) <=> q \in Matching[j]
      /\ DelPending(q)' <=> DelPending(q)
  BY <1>1, <1>4 DEF Synced, DelPending, Pending
<1>6. /\ InWork(j, q) <=> q = k /\ j \in work[4]
      /\ InWork(j, q)' <=> q = k /\ j \in work[4] \ {i}
      /\ InWork(j, q)' => work'[2] = old /\ work'[3] = new
  <2>1. InWork(j, q) <=> q = k /\ j \in work[4]
    BY <1>1 DEF InWork
  <2>2. CASE work[4] = {i} /\ work' = NoWork
    BY <2>1, <2>2 DEF InWork
  <2>3. CASE work' = [work EXCEPT ![4] = work[4] \ {i}]
    <3> DEFINE w == [work EXCEPT ![4] = work[4] \ {i}]
    <3>1. work \in Work /\ work[1] = k /\ work[2] = old /\ work[3] = new
      BY <1>1
    <3>2. work[4] \ {i} \in SUBSET Info
      BY <3>1, WorkShape
    <3>3. /\ w \in Work
          /\ w[1] = work[1] /\ w[2] = work[2] /\ w[3] = work[3] /\ w[4] = work[4] \ {i}
      BY <3>1, <3>2, WorkExcept
    <3>4. work' = w
      BY <2>3
    <3> HIDE DEF w
    <3>5. w # NoWork
      BY <3>3, WorkShape
    <3> QED
      BY <2>1, <3>1, <3>3, <3>4, <3>5 DEF InWork
  <2> QED
    BY <1>1, <2>2, <2>3
<1>7. <<j, q>> \in raced' <=>
        \/ <<j, q>> \in raced
        \/ /\ q = k /\ k \in Matching[j]
           /\ IsPopulated(cache'[k]) /\ ~IsPopulated(cache[k])
  BY <1>1 DEF Overtakes
<1>8. /\ cache'[k] = IF Reads(i, old, new) THEN Read(k) ELSE cache[k]
      /\ q # k => cache'[q] = cache[q]
      /\ IsPopulated(cache[k]) => cache'[k] = cache[k]
  BY <1>1, <1>3 DEF Read
<1>9. /\ view'[i] = NotifiedView(view[i], i, k, old, new, Read(k))
      /\ j # i => view'[j] = view[j]
  BY <1>1, <1>3
<1>10. ToldAt(j, q)
  BY DEF ToldInv
<1>11. CASE q # k
  <2>1. \A p \in InstancesOf(q) : view'[j][p] = view[j][p]
    <3> SUFFICES ASSUME NEW p \in InstancesOf(q), j = i PROVE view'[i][p] = view[i][p]
      BY <1>9
    <3>1. p \in Instance /\ p[1] # k
      BY <1>11 DEF InstancesOf
    <3> QED
      BY <1>3, <1>9, <3>1, NotifiedOthers
  <2> QED
    BY <1>1, <1>4, <1>5, <1>6, <1>7, <1>8, <1>10, <1>11, <2>1, ToldAtKept
<1>12. CASE q = k /\ j # i /\ (j \in work[4] \/ cache'[k] = cache[k])
  <2>1. CASE cache'[k] = cache[k]
    BY <1>1, <1>4, <1>5, <1>6, <1>7, <1>8, <1>9, <1>10, <1>12, <2>1, ToldAtKept
  <2>2. CASE j \in work[4]
    <3>1. InWork(j, q) /\ InWork(j, q)' /\ work'[2] = old /\ work'[3] = new
      BY <1>6, <1>12, <2>2
    <3>2. IsPopulated(new) => Told(view[j], j, q, old)
      BY <1>1, <1>10, <3>1 DEF ToldAt
    <3>3. ~IsPopulated(new) => Roughly(view[j], j, q, old)
      BY <1>1, <1>10, <3>1 DEF ToldAt
    <3>4. IsPopulated(new) => Told(view[j], j, q, work[2])'
      BY <1>1, <1>5, <1>7, <1>9, <1>12, <3>1, <3>2 DEF Told
    <3>5. Synced(j, q)'
      BY <1>1, <1>5, <1>12, <2>2 DEF WorkInv
    <3> QED
      BY <1>9, <1>12, <3>1, <3>3, <3>4, <3>5 DEF ToldAt
  <2> QED
    BY <1>12, <2>1, <2>2
\* The read takes an entry that was gone into the cache again.
<1>13. CASE q = k /\ j # i /\ j \notin work[4] /\ cache'[k] # cache[k]
  <2>1. ~InWork(j, q) /\ ~InWork(j, q)' /\ ~IsPopulated(cache[k]) /\ IsPopulated(cache'[k])
    BY <1>6, <1>8, <1>13 DEF IsPopulated
  <2>2. cache'[k] \in Entry
    BY <1>3, <1>8, <1>13
  <2>3. Synced(j, q) => <<j, q>> \in raced'
    BY <1>5, <1>7, <1>13, <2>1
  <2>4. Synced(j, q) => Roughly(view[j], j, q, NoEntry)
    BY <1>10, <1>13, <2>1 DEF ToldAt, Told, IsPopulated
  <2>5. Synced(j, q) => Roughly(view[j], j, q, cache'[k])
    BY <1>3, <2>2, <2>4, ShownIsOnlyAt, NoEntryIsEntry DEF Roughly
  <2>6. Synced(j, q)' => Told(view[j], j, q, cache[q])'
    BY <1>5, <1>9, <1>13, <2>3, <2>5 DEF Told
  <2> QED
    BY <1>4, <1>5, <1>9, <1>10, <1>13, <2>1, <2>6 DEF ToldAt
<1>14. CASE q = k /\ j = i
  <2>1. InWork(j, q) /\ ~InWork(j, q)' /\ Synced(j, q)'
    BY <1>1, <1>2, <1>5, <1>6, <1>14
  <2>2. CASE IsPopulated(new)
    <3>1. Read(k) = new /\ cache'[k] = new /\ raced' = raced
      BY <1>1, <1>2, <1>8, <2>2 DEF Read, Overtakes
    <3>2. Told(view[i], i, k, old)
      BY <1>1, <1>10, <1>14, <2>1, <2>2 DEF ToldAt
    <3>3. view'[i] = NotifiedView(view[i], i, k, old, new, new)
      BY <1>9, <3>1
    <3>4. /\ OnlyAt(view'[i], i, k, new)
          /\ Partly(view[i], i, k, old) => Partly(view'[i], i, k, new)
          /\ Exactly(view[i], i, k, old) => Exactly(view'[i], i, k, new)
      BY <1>3, <2>2, <3>2, <3>3, NotifySet DEF Told, Roughly
    <3>5. Told(view[j], j, q, cache[q])'
      BY <1>1, <1>5, <1>14, <3>1, <3>2, <3>4 DEF Told, Roughly
    <3> QED
      BY <2>1, <3>5 DEF ToldAt
  <2>3. CASE ~IsPopulated(new)
    <3>1. new = NoEntry /\ IsPopulated(old)
      BY <1>2, <2>3 DEF IsPopulated
    <3>2. Roughly(view[i], i, k, old)
      BY <1>1, <1>10, <1>14, <2>1, <2>3 DEF ToldAt
    <3>3. /\ Reads(i, old, NoEntry) => Roughly(view'[i], i, k, Read(k))
          /\ ~Reads(i, old, NoEntry) => Empty(view'[i], k)
      BY <1>3, <1>9, <3>1, <3>2, NotifyDel
    <3>4. view'[i] \in View /\ cache'[k] \in Entry
      <4>1. OnChangeTypeOK'
        BY <1>0, NotifyPathType
      <4> QED
        BY <4>1 DEF OnChangeTypeOK, StateOK
    <3>5. Roughly(view'[i], i, k, cache'[k])
      BY <1>8, <3>1, <3>3, <3>4, ShownIsOnlyAt DEF Roughly
    <3>6. <<i, k>> \notin raced' => cache'[k] = NoEntry
      BY <1>2, <1>7, <1>8, <1>14, <2>3 DEF IsPopulated
    <3>7. <<i, k>> \notin raced' => Exactly(view'[i], i, k, cache'[k])
      BY <3>4, <3>5, <3>6, ShownIsOnlyAt, NoEntryIsEntry DEF Roughly
    <3>8. Told(view[j], j, q, cache[q])'
      BY <1>14, <3>5, <3>7 DEF Told
    <3> QED
      BY <2>1, <3>8 DEF ToldAt
  <2> QED
    BY <2>2, <2>3
<1> QED
  BY <1>11, <1>12, <1>13, <1>14

LEMMA ToldNext ==
  ASSUME OneFieldPerLeaf, OnChangeTypeOK, IInv, [Next]_vars
  PROVE  ToldInv'
<1>0. StateOK /\ ControlOK /\ MutexInv /\ WorkInv /\ Followed /\ ToldInv
  BY DEF OnChangeTypeOK, IInv
<1>1. CASE ControlStep
  BY <1>0, <1>1, ControlStepTold
<1>3. CASE UNCHANGED vars
  <2> SUFFICES ASSUME NEW i \in Info, NEW k \in Key PROVE ToldAt(i, k)'
    BY DEF ToldInv
  <2>1. UNCHANGED <<channel, cache, work, view, raced, phase, toSync, connLost>>
    BY <1>3 DEF vars, subscribeVars, goroutineVars, faultVars
  <2>2. /\ Synced(i, k)' <=> Synced(i, k)
        /\ InWork(i, k)' <=> InWork(i, k)
        /\ DelPending(k)' <=> DelPending(k)
        /\ Open' <=> Open
    BY <2>1 DEF Synced, InWork, DelPending, Pending, Open
  <2> QED
    BY <1>0, <2>1, <2>2, ToldAtKept DEF ToldInv
<1>4. ASSUME NEW k \in Key, NEW dropped \in BOOLEAN,
             \/ \E values \in Written : HSet(k, values, dropped)
             \/ \E f \in Field : HDel(k, f, dropped)
             \/ Del(k, dropped)
      PROVE  ToldInv'
  BY <1>0, <1>4, WriteTold
<1>5. ASSUME NEW i \in Info, NEW k \in Key, InitialUpdate(i, k) PROVE ToldInv'
  BY <1>0, <1>5, InitialTold
<1>6. ASSUME NEW d \in DbNo, TakeDel(d) \/ TakeSet(d) PROVE ToldInv'
  BY <1>0, <1>6, TakeTold
<1>7. ASSUME NEW d \in DbNo, TakeDefunct(d) PROVE ToldInv'
  <2>1. /\ ~Open /\ phase' = phase /\ work' = work
    BY <1>7 DEF TakeDefunct, subscribeVars
  <2>2. work = NoWork
    BY <1>0, <2>1 DEF MutexInv, Open
  <2> QED
    BY <2>1, <2>2 DEF ToldInv, ToldAt, Synced, InWork, Open
<1>8. ASSUME NEW i \in Info, NotifyPath(i) PROVE ToldInv'
  BY <1>0, <1>8, NotifyPathTold
<1> QED
  BY <1>1, <1>3, <1>4, <1>5, <1>6, <1>7, <1>8, NextCases

LEMMA InvInit == Init => IInv
<1> SUFFICES ASSUME Init PROVE IInv
  OBVIOUS
<1>1. MutexInv
  BY MutexInit
<1>2. WorkInv
  BY DEF Init, WorkInv
<1>3. Followed
  BY DEF Init, Followed, IsFollowed
<1>4. Unsubscribed
  <2>1. \A d \in DbNo : Len(channel[d]) = 0
    BY DEF Init
  <2>2. \A k \in Key : Pending(k) = {}
    BY <2>1, OnChangeAssumption DEF Pending
  <2> QED
    BY <2>2 DEF Unsubscribed
<1>5. ToldInv
  <2> SUFFICES ASSUME NEW i \in Info, NEW k \in Key PROVE ToldAt(i, k)
    BY DEF ToldInv
  <2>1. ~Synced(i, k) /\ ~InWork(i, k)
    BY DEF Init, Synced, InWork
  <2>2. Empty(view[i], k)
    BY DEF Init, NoView, Empty, InstancesOf
  <2> QED
    BY <2>1, <2>2 DEF ToldAt
<1> QED
  BY <1>1, <1>2, <1>3, <1>4, <1>5 DEF IInv

\* Where a leaf shows one field, the invariant holds of every request.
THEOREM InvCorrect == ASSUME OneFieldPerLeaf PROVE Spec => []IInv
<1>1. OnChangeTypeOK /\ IInv /\ [Next]_vars => IInv'
  <2> SUFFICES ASSUME OnChangeTypeOK, IInv, [Next]_vars PROVE IInv'
    OBVIOUS
  <2>1. MutexInv /\ WorkInv /\ Followed /\ Unsubscribed
    BY DEF IInv
  <2>2. MutexInv'
    BY <2>1, MutexNext
  <2>3. WorkInv'
    BY <2>1, WorkInvNext
  <2>4. Followed'
    BY <2>1, FollowedNext
  <2>5. Unsubscribed'
    BY <2>1, UnsubscribedNext
  <2>6. ToldInv'
    BY ToldNext
  <2> QED
    BY <2>2, <2>3, <2>4, <2>5, <2>6 DEF IInv
<1> QED
  BY <1>1, InvInit, OnChangeTypeCorrect, PTL DEF Spec

LEMMA SameShown ==
  ASSUME NEW i \in Info, NEW k \in Key, NEW e \in Entry, NEW v \in View
  PROVE  /\ Exactly(v, i, k, e) =>
              \A p \in InstancesOf(k) : v[p] = Shown(i, k, e)[p]
         /\ \A p \in InstancesOf(k), l \in Leaf :
              Shown(i, k, e)[p][l] = ValueAt(i, p, e, l)
<1>1. ASSUME NEW p \in InstancesOf(k)
      PROVE  Shown(i, k, e)[p] = [l \in Leaf |-> ValueAt(i, p, e, l)]
  BY <1>1 DEF Shown, InstancesOf
<1>2. ASSUME NEW p \in InstancesOf(k), Exactly(v, i, k, e)
      PROVE  v[p] = Shown(i, k, e)[p]
  <2>1. v[p] = [l \in Leaf |-> v[p][l]]
    BY DEF View, InstancesOf
  <2>2. \A l \in Leaf : v[p][l] = ValueAt(i, p, e, l)
    BY <1>2 DEF Exactly
  <2> QED
    BY <1>1, <2>1, <2>2
<1> QED
  BY <1>1, <1>2

\* The on_change cache is what the client was told: the next difference is
\* computed from what the client shows.
THEOREM CacheIsClientViewAlways ==
  ASSUME OneFieldPerLeaf
  PROVE  Spec => []CacheIsClientView
<1>1. OnChangeTypeOK /\ IInv => CacheIsClientView
  <2> SUFFICES ASSUME OnChangeTypeOK, IInv, NEW i \in Info, NEW k \in Key,
                      Synced(i, k), ~InWork(i, k), <<i, k>> \notin raced,
                      DbOf[k] \notin connLost,
                      NEW p \in Instance, p[1] = k
               PROVE  \/ view[i][p] = Shown(i, k, cache[k])[p]
                      \/ /\ DelPending(k)
                         /\ \A l \in Leaf :
                              view[i][p][l] \in {None, Shown(i, k, cache[k])[p][l]}
    BY DEF CacheIsClientView
  <2>1. view[i] \in View /\ cache[k] \in Entry /\ p \in InstancesOf(k)
    BY DEF OnChangeTypeOK, StateOK, InstancesOf
  <2>2. \/ Exactly(view[i], i, k, cache[k])
        \/ DelPending(k) /\ Partly(view[i], i, k, cache[k])
    BY DEF IInv, ToldInv, ToldAt, Told
  <2>3. CASE Exactly(view[i], i, k, cache[k])
    BY <2>1, <2>3, SameShown
  <2>4. CASE DelPending(k) /\ Partly(view[i], i, k, cache[k])
    BY <2>1, <2>4, SameShown DEF Partly
  <2> QED
    BY <2>2, <2>3, <2>4
<1> QED
  BY <1>1, OnChangeTypeCorrect, InvCorrect, PTL

\* Once the announcements of an entry are taken and none was lost, the client
\* of a running request shows what the database holds.
THEOREM ConvergedAlways ==
  ASSUME OneFieldPerLeaf
  PROVE  Spec => []Converged
<1>1. OnChangeTypeOK /\ IInv => Converged
  <2> SUFFICES ASSUME OnChangeTypeOK, IInv, NEW i \in Info, NEW k \in Key,
                      Quiet(i, k), <<i, k>> \notin raced,
                      NEW p \in Instance, p[1] = k
               PROVE  view[i][p] = Shown(i, k, db[k])[p]
    BY DEF Converged, UpToDate
  <2>1. /\ view[i] \in View /\ cache[k] \in Entry /\ p \in InstancesOf(k)
        /\ DbOf[k] \in DbNo
    BY OnChangeAssumption DEF OnChangeTypeOK, StateOK, InstancesOf
  <2>2. /\ phase = "running" /\ work = NoWork /\ k \in Matching[i]
        /\ DbOf[k] \notin connLost /\ Pending(k) = {} /\ k \notin lost
    BY DEF Quiet
  <2>3. toSync = {} /\ subscribed = DbNo
    BY <2>2 DEF IInv, MutexInv
  <2>4. cache[k] = db[k]
    <3>1. FollowedAt(k)
      BY <2>1, <2>2, <2>3 DEF IInv, Followed, IsFollowed
    <3>2. ~NotRead(k)
      BY <2>2, <2>3 DEF NotRead
    <3> QED
      BY <2>2, <3>1, <3>2 DEF FollowedAt
  <2>5. Synced(i, k) /\ ~InWork(i, k) /\ ~DelPending(k)
    BY <2>2, <2>3 DEF Synced, InWork, DelPending
  <2>6. Exactly(view[i], i, k, cache[k])
    BY <2>2, <2>5 DEF IInv, ToldInv, ToldAt, Told
  <2> QED
    BY <2>1, <2>4, <2>6, SameShown
<1> QED
  BY <1>1, OnChangeTypeCorrect, InvCorrect, PTL
===============================================================================
