# A specification of sonic-mgmt-common in TLA+

These modules specify the parts of sonic-mgmt-common that change the
configuration of a SONiC switch and have to do so safely while several
executables, goroutines and terminals are at work: the ConfigDB lock, the
transactions on ConfigDB, Config Sessions with confirmed commits, the Set and
Bulk requests from translation through validation to commit, the translation of
OpenConfig requests to rows of ConfigDB, the rules of openconfig-interfaces for
VLANs, port channels and addresses, and the subscriptions that tell clients of
changes. TLC checks them on small instances; for every instance TLAPS proves the
lock, the transactions and the Config Session, each with the refinement of what
it promises, the isolation of requests, and the properties of the interfaces and
the safety of subscriptions.
Paths are relative to the root of the repository; `src/` is its source.

## The system

sonic-mgmt-common is a Go library that the REST server and the gNMI server of a
switch link. A request names a YANG path. translib finds the app module of the
path, which translates the request (most of them with the transformer) into
reads and writes of redis databases. ConfigDB is the running configuration: all
daemons of the switch follow it. Three mechanisms protect it.

* A **transaction** (`translib/db`): writes are collected as commands, validated
  by CVL, and executed with MULTI/EXEC under a WATCH.
* The **ConfigDB lock** (`translib/db/db_lock.go`): one hash field in STATE_DB,
  taken by each writer and by a Config Session.
* A **Config Session** (`translib/cs`): a long transaction that a CLI user
  builds up over many requests, then commits, aborts, or commits on probation
  (with a timeout after which the old configuration comes back).

### Components

| Component | State | Operations | What is hard | Correct when |
|---|---|---|---|---|
| ConfigDB lock, `db/db_lock.go` | the hash field in STATE_DB; `cdbLock`, one pointer per executable; `LockStruct.locked` | ConfigDBTryLock (4 attempts), ConfigDBUnlock, ConfigDBClearLock at start | several executables; no mutex on `cdbLock`; lost replies; crashes that leave the field | one owner; the owner's value is recorded; nothing stays locked for ever |
| DB handle, `db/db.go` | `txState`, `txCmds`, `txTsEntryMap` (CAS Tx cache), `cvlEditConfigData`, `err`; WATCH/MULTI of the connection | StartTx, AppendWatchTx, CommitTx, AbortTx; Create/Set/Mod/Delete...; GetEntry, GetKeys; NewDB, DeleteDB | redis and the cache must agree; other clients; connections that go-redis replaces | reads are what EXEC will do; all or nothing; nothing when overtaken |
| Savepoints, `db/db_savepoint.go` | `savePoint`, `txTsEntryHGetAll` | DeclareSP, ReleaseSP, Rollback2SP | the cache is rebuilt by validating again | the candidate of the savepoint comes back |
| Config Sessions, `cs/*.go` | `uCS`, `csMutex`, the session's DB handle, timer, channel, rollback file | StartOrResume, Exit, Commit, Confirm, Abort, Kill, GetConfigDB; a goroutine per timed commit | requests act on copies; each helper locks for itself; the timer races Confirm and Abort; crash | session, lock and candidate DB belong together; a commit is confirmed or taken back |
| Checkpoint history, `cs/cs_cphist.go` | a list of at most 10, and its file | CreateCpHistEntry, isCpLabelExist | read without the mutex; host services fail | labels are unique, list and files agree |
| Subscriptions, `db/subscribe.go`, `db_onchangecache.go`, `subscribe_notify.go` | pub/sub connections, on_change cache, `sMutex`, `subscribeInfo` | SubscribeDB, the goroutine of a channel, Subscribe, initial update, notifications, stop, cleanup | the cache reads the newest value, not the one announced; lost announcements; failing databases | the client has been told what the database holds; one termination; nothing left |
| Subscribe requests, `subscribe.go` | the translations in a SubscribeSession | IsSubscribeSupported, Subscribe, Stream | on-change and sample tables below one path | each piece once, in a mode it supports |
| Session-aware subscriptions, `db/db_subscribe_sa.go` | `sInfo`, `openSent` | register, unregister, notifications | subscribing while a session is open | opened, changes, closed, in this order |
| Redis client manager, `db/rcm.go` | a client per database, counters | RedisClient, TransactionalRedisClient, CloseRedisClient | concurrent lazy creation | one pooled client per database; counters match |
| Request handling, `translib.go` | `writeMutex` of the executable, the handle of the request | Create, Update, Replace, Delete, Get, Action, Bulk | reads before the WATCH and before the lock; errors that Bulk goes on after | a request that succeeds has done what it asks of the contents it commits on |
| CVL, `src/cvl` | the request cache, table sizes of a session | ValidateEditConfig, ordering and dependency queries | verdicts depend on earlier edits, refused ones included | no reference to a row that is not there, no table above its size |
| Common app, transformer on SONiC paths | the result map of a request | translate*, process* | table order, cascade delete, leaf-lists, defaults | the rows of the request and those that depend on them, and no others |
| Common app, transformer on OpenConfig paths | the maps of operations, what the walks have visited, defaults | yangReqToDbMapCreate, allChildTblGetToDelete, cmnAppCRUCommonDbOpn, yangDataFill, translateSubscribe | rows shared by nodes, ranges over Go maps, what a REPLACE deletes, rows read ahead, patterns of keys | the same, whatever the order of the maps; a GET shows what is there; each change is told of |
| openconfig-interfaces, `transformer/xfmr_intf.go`, `sw_vlan.go`, `sw_portchannel.go` | rows VLAN, VLAN_MEMBER, PORTCHANNEL, PORTCHANNEL_MEMBER and the L3 tables | switched-vlan (PATCH, PUT, DELETE of the container or a leaf), aggregate-id, addresses, IPv6 link-local, creation and deletion of interfaces | a request reads the rows that it replaces; base rows come and go with their addresses; checks whose result is overwritten | one access VLAN; no row without its parent; no overlap; a GET shows what was asked |
| Callbacks of other modules, other apps | annotation tables | translation per YANG module | | data translation |
| Versions, bindings, YANG, tools | none that outlives a call, or not behaviour | | | |

How they interact: translib.go takes `writeMutex`, opens a DB handle with NewDB
(which takes the ConfigDB lock, or defers that to the first write) and runs
translate, StartTx, process, CommitTx. In a Config Session GetConfigDB hands out
the handle of the session instead, and StartTx, CommitTx and AbortTx of the app
become DeclareSP, ReleaseSP and Rollback2SP. newCS opens that handle, starts its
transaction and takes the lock under the token of the session; commit, abort,
kill and the timer give it back. CVL reads through the DB handle, so that it
sees the candidate.

### What is hard to test

The hazards are listed one by one in `PROJECT.json`, each at its line. They come
from four sources:

* state shared without a mutex (`cdbLock`, `savePoint`, the checkpoint list), or
  with a mutex that is released between the check and the act (`uCS`);
* a failure between two redis commands: a lost reply, a replaced connection, a
  dead process;
* the confirm timer, its goroutine, and the requests that race them;
* hand-written caches that have to move together with a list of commands, with
  the edits of a validation session, or with what a client has been told.

## The modules

    LockService         <-- implements --  ConfigDBLock  <- ConfigDBLockProofs
    ConfigTransaction   <-- implements --  DBTransaction <- DBTransactionProofs
    ConfirmedCommit     <-- implements --  ConfigSession <- ConfigSessionProofs

    SonicSchema <- CVL <- SonicTransformer <- CommonApp <- ConfigStore
                                                <- Requests <- RequestsProofs
    CommonApp <- OcSchema <- OcTransformer <- OcDelete <- OcCommonApp
      OcTransformer <- OcRead <- OcSubscribe
      OcCommonApp, ConfigStore <- OcStore
      OcSubscribe, OcStore <- OcRequests
    InterfaceTables <- SwitchedVlan, InterfaceAddresses <- Interfaces
                                                <- InterfacesProofs
    OnChange <- OnChangeProofs
    SubscribeSupport <- SubscribeSupportProofs

`FoldLemmas` holds the facts on the folds of the community modules; DBTransactionProofs,
RequestsProofs and SubscribeSupportProofs cite them.

In the first three lines the left column is what callers rely on, with no redis, pointer or goroutine in
it; the middle is translated from the code. `MC*` modules give the instances.
Names are those of the source wherever TLA+ allows it.

**ConfigDBLock.** One process per goroutine; each redis command is one step, each
access of `cdbLock` is one step. `lockTableKey` is the hash field, `cdbLock` the
pointer of each executable, `pc` where a goroutine is. `HSetNXLocks`,
`HSetNXBusy`, `HGetLockId`, `RetryOrGiveUp` are the loop of ConfigDBTryLock;
`LoadReceiver`, `LuaUnlock`, `ClearPointer` the three steps of ConfigDBUnlock,
which unlocks whatever LockStruct it finds. `HSetNXFault` and `LuaUnlockFault`
are a command that is not executed, or is executed and its reply lost. `Crash`
and `ConfigDBClearLock` are the end and the next start of an executable.

**LockService.** Owners and one lost lock: a lock may be lost to its executable,
and then only the next start of that executable brings it back.

**DBTransaction.** One handle, one action for each redis command that others may
overtake. A call of the write API puts a list of writes into `todo` (SetEntry
that drops fields is two writes), and `DoWrite` is doCVL and doWrite for the
next of them. `conn` is what redis keeps for the connection: whether it watches,
whether a watched key was touched, MULTI and the queue. `CommitMulti`,
`CommitSend`, `CommitExec` are commitTx command by command. CVL is a set of
rejected entries and of keys in use, and the rules of ValidateEditConfig on what
must and must not exist. The readers of the handle are operators of the state:
`ViewOf` is getEntry; `GetEntries`, `GetKeysPattern`, `ExistKeysPattern`, `GetTable`
and `GetTablePattern` each put the CAS Tx cache over redis in their own way, with a
set of keys for the pattern; `GetConfig` runs the commands of the transaction
again over what redis holds. A reader is one step, where GetTable, getEntries and
GetConfig send several commands; writers have no per-connection cache
(db.go:449-466). With `IsSession` the handle is a session's, and an app
writes only between DeclareSP and ReleaseSP or Rollback2SP.

**ConfigTransaction.** A candidate with at most one mark; it becomes the running
configuration as a whole or not at all, and somebody else's write dooms it.

**ConfigSession.** A request is a small program: `GetSession` copies `uCS` and
`FirstStep` (StartOrResume, Exit, Commit, processCommitConfirm, Abort, Kill)
decides on the copy, then each helper is a step that takes `csMutex` for itself
and acts on what `uCS` is by then. newCS holds the mutex over two steps, between
which other processes may write. `routine[t]` is the goroutine of
processCommitTimer and its timer. An unbuffered channel is a step of two. A nil
dereference in a request ends the request (the servers recover), in the
goroutine it ends the process. The candidate is one value, the lock its holder:
DBTransaction and ConfigDBLock have those in detail. `undo` is a history
variable: what a commit that waits for its confirmation has replaced; `leaked`
is one for the session whose ConfigDBUnlock has failed.

**ConfirmedCommit.** ConfigDB is edited by the holder of the lock only, and a
commit on probation is confirmed or reverted before the lock is given away.

**SonicSchema.** Tables, keys, leafrefs, defaults, mandatory fields and sizes as
constants, and what cvl derives from them: who refers to a row (`Referrers`,
GetDepDataForDelete), the order of tables (`SortDepTables`), the tables below and
above another (`ChildTables`, `DepTables`).

**CVL.** `ValidateEditConfig` of a call, given what the handle shows, the request
cache and the table sizes: `Step1` is the loop over the edits (size, mandatory
field, delete constraint), `Step3` existence and leafrefs. `NodeOf` is the node
that leafrefs are evaluated on, pieced together from the database and the cache
the way cvl_cache.go does it, and `Excuses` says which other edits make the
deletion of a referred row acceptable. `CacheAfter` and `CountsAfter` keep what a
refused call leaves behind.

**SonicTransformer** and **CommonApp.** From a request on a SONiC YANG path to
rows, operations and defaults, to the tables to watch, and then to calls of the
DB handle. The app reads the handle while it works, so its work is a list of
items: an item is a call, or something that `Expand` replaces by further items
once it is its turn (the children of a row, the keys of a prefix, create or
modify). `onErr` is what the code does with the error of a call.

**Requests.** Two processes with a handle each. `Begin`, `Translate`, `Watch`,
`ExpandItem`, `Validate`, `Write`, `Commit`, `Close` are the phases of Create to
Bulk with the errors in between; the first `Write` takes the ConfigDB lock, and
`Commit` fails when a watched table was written by another commit. `NotFound` is
what Bulk makes of a resource that is not there. `writeMutex` is why one process
runs one request at a time. `skipped`, `ignored` and `overlap` are history
variables the properties use. The handle itself is ConfigTransaction's promise
(all or nothing on what it read) with the reads CVL makes through it; the lock is
LockService's, without faults.

**ConfigStore.** What the same requests mean, as a function from contents to
contents, without calls, caches or order: the abstract side of DoesWhatIsAsked.

**OcSchema.** A tree of OpenConfig nodes with its annotations: the table and the
owner mark that a node inherits, the key that the lists and containers of a path
make, and so the row a node is kept in (`RowOf`, xpathKeyExtract). A node may
share the row of its parent, own a part of it, or have one of its own; which of
these it is decides most of what follows.

**OcTransformer.** The walk of a payload: `FillNode` puts a leaf into the map of
its row, for a REPLACE into the rows to be replaced or, when the target does not
own the row, to be updated (`ReplaceTarget`, `ForReplace`). Defaults and fields that
a REPLACE drops follow once the walk is over (`FillDefaultsForReplace`).
`MergeRow` brings the maps of the operations together, so that a row is in one.

**OcDelete.** The walk of a DELETE, and of what a REPLACE deletes: a stack of
frames, one for each call of yangContainerDelData and yangListDelData, with the
flags that these pass down and hand back (fillFields, removedFillFields,
skipSibling). `Visit` takes a child or an instance, `Leave` ends a frame. A row of
which only fields go is marked with `FillFields` until the first field is found.

**OcCommonApp.** The maps become items, a stage and a row: table by table in the
order of SortAsPerTblDeps, the rows of a table in any order (`NextItems`). A
REPLACE first takes a deleted row out of the rows that refer to it and are
written (`CleanUps`); `OcReplaceRow` decides between creating, modifying and
setting a row. The calls and the items of fields are those of CommonApp.

**OcRead.** A GET. `Ahead` is what GetAndXlateFromDB reads before it looks at the
tree: the row of the target and, table by table, the rows below it that contain
its key. The walk then goes down from the target (`ReadStep`): a container whose
row is not there has it read (`MissingFor`), a list all of its table if no row of it
is there (`ReadList`), and each row is shown by the instance whose key it has
(`InstancesShown`). `data` is dbDataMap, `todo` the children and instances left.

**OcSubscribe.** What the common app answers to a subscription. A path is a node
with keys, of which those not given are wildcards (`FullPath`). `Translated` gives
its infos: the target, and each node below whose table is not that of the node that
tells of its parent (`InfoNodes`); an info is a table, the pattern of keys to watch
(`KeyPattern`) and the fields with the leafs they are told of at. For a changed row,
`ResolvedPath` replaces the wildcards of the info's path by keys of the row, and
`IsToldOf` says which leafs a notification is about: all below the path when the row
comes or goes, otherwise those whose field differs.

**OcStore.** What such a request asks of each row, said with the tree and the
contents alone: a node that is the home of a row stands for the row, another one
for the fields of its leafs. `Answer` is what a GET shows: every leaf below the
target whose lists exist and that has a value, but for invalid nodes.

**OcRequests.** One handle, one request after the other: `TranslateDelete` or
`TranslateWrite`, `WalkNode` for each node of the payload in any order, `WalkDone`,
`DeleteNode` and `LeaveNode`, `DeleteDone`, then `TakeItem` and `MakeCall` with the
verdict of CVL, and `Commit` or `Abort`. `NotFound`, `ItemRefused` and an invalid
node are its errors. A GET is `TranslateGet`, `ShowTarget`, `ReadNode`
and `AnswerGet`.

**InterfaceTables.** The rows of ConfigDB that the transformers of
openconfig-interfaces work on. A request is one step here: it has the write lock
and a transaction, and what the common app makes of the maps of a transformer is
the subject of OcRequests. A request that is refused is no step. `scope` is a
bound: the interfaces, addresses and kinds of requests of one behaviour.

**SwitchedVlan.** `AddSwitchedVlan`, `ReplaceSwitchedVlan`, `DeleteSwitchedVlan`,
`DeleteTrunkVlans`, `DeleteTrunkVlan`, `DeleteAccessVlan` are the branches of
YangToDb_sw_vlans_xfmr; `SetMember` is what each makes of the VLAN_MEMBER rows of
an interface. `AccessVlan` is validateUntaggedVlanCfgredForIf, which finds the
VLAN to take away. `GetSwitchedVlan` is the way back, DbToYang_sw_vlans_xfmr, for
the container or a leaf.

**InterfaceAddresses.** `AddAddresses` and `DeleteAddresses` with the base row of
the interface, in the two versions of the code (subinterface 0 and routed-vlan);
`NoOverlapSeen` is the check as it is made, with an error that the next address
overwrites; `Replaced` is the IPv4 address that a new one takes the place of.
`EnableIPv6`, `DisableIPv6` have the field that shares the base row.

**Interfaces.** Creation and deletion of interfaces (`DeleteInterface`,
performIfNameKeyXfmrOp) and aggregate-id (`JoinLag`, `LeaveLag`), and the
properties.

**OnChange.** One Subscribe request: `HSet`, `HDel`, `Del` of others announce a
key without its value; `StartSubscribe`, `SubscribeDB`, `InitialUpdate`, `SyncDone`
run under `sMutex`; the goroutine of each database takes an announcement
(`Take`), reads the entry again, compares it with the on_change cache (`Diff`)
and sends each path its changes (`NotifyPath`). `Stop`, `SubscribeFails`,
`ConnectionLost`, `ChannelDrained`, `LastEvent` and `Cleanup` end it. `view` is
what the client has been told.

**SubscribeSupport.** IsSubscribeSupported splits a TARGET_DEFINED path into an
on-change part and sample parts; a client then calls Subscribe and Stream, which
find the translations in the session by path.

## What TLC checks

Runs that pass:

| Run | Instance | Shows |
|---|---|---|
| `lock` | two writers and a session in two executables, 2 attempts, redis faults, 1 crash | MutualExclusion, OwnerIsRecorded, the lock implements LockService |
| `lock_safe` | a writer and a session, one per executable, 4 attempts, 2 crashes, no faults, fair | NoOrphanLock and UnlockReleases; TryLockReturns, LockIsFreed |
| `tx_writer` | a writer, 2 entries of 2 fields, 2 commands, 1 foreign write, a connection replaced between transactions, a key in use | the handle implements ConfigTransaction; ReadersAgree: all readers show what EXEC would leave |
| `tx_session` | the same as a session with savepoints at its limit | the same refinement; ReadersAgree, also after rollbacks; a playback fails only for overtaken transactions |
| `session` | 2 terminals, 2 sessions, any request at any time, timer, failing host service and unlock, 1 crash, another writer | SessionHoldsLock, OpenDBIsOfSession, LockIsOfSession |
| `requests` | 2 ports, an ACL, 3 rules (at most 2), 4 initial contents; one process with any of 23 single requests, one with 8 Bulks and 5 single requests, each one request, fair | DoesWhatIsAsked, OwnReferencesHold, ReferencesHoldAlone, SizesBounded, WriterIsAlone; BatchesEnd |
| `oc_requests` | seven tables below one OpenConfig tree, 5 initial contents, one of 160 requests: 26 payloads by POST, PATCH and PUT, 26 deletions that keep an empty row or not, 30 GET; any order of the maps; 30 paths subscribed to, with all, some and no keys, from the root to leafs | OcDoesWhatIsAsked, RefusedForAReason; OcReadShowsContents; ChangesAreNotified |
| `interfaces` | 2 ports, 2 port channels, 3 VLANs, 4 addresses of which two have the same ip, two networks overlap and one is IPv6; any sequence of requests, about the interfaces of one of six scopes | OneAccessVlan, RowsBelong, OverlapOnlyTogether; SwitchedVlanIsAsked, AddressesAreAsked |
| `onchange` | three paths of one entry over two databases, 2 writes, 1 loss, fair | Converged, CacheIsClientView, TerminatedOnce, SilentAfterCleanup; CleanedUp, Drained |
| `subscribe_support` | every answer of an app with up to two target and two child tables, every mode | each piece of a path once, in a mode it supports |
| `session_confirm` | 1 terminal, 2 sessions, 2 configurations, 1 crash, no other faults, fair | the session implements ConfirmedCommit; UnconfirmedCommitIsSettled |

One run finds a difference between the code and what its comments say (the
`findings` of PROJECT.json quote the lines):

| Run | What happens |
|---|---|
| `requests_race` | a DELETE is validated before its handle takes the lock, another process commits a reference to the row, and the DELETE commits: the referring table is not watched |

A passing run therefore leaves out the circumstance of a finding, and says so:
`requests` states ReferencesHoldAlone for batches without a commit of the other
process and OwnReferencesHold for the rows a batch writes itself, both without
the rows of a PUT (`UncheckedReferences`); OcDoesWhatIsAsked expects no row to be kept
where a key refers to a leaf of the target (`KeptIf`, `HasKeyRef`).

Other differences met while modelling. The models contain them and the runs leave
them out, or an assumption does, by the name in parentheses:

* A PUT that drops a field is an UPDATE and a DELETE, and its leafrefs are looked
  up in the old row: a reference to nothing is accepted (`UncheckedReferences`).
* A DELETE of a container that is told to keep the row, with the field NULL, deletes
  it when a key refers to a leaf of the container: the NULL field is then deleted
  with the others (`KeptIf`, `HasKeyRef`).
* A GET of a whole list below a container with a row of its own looks for the row
  with the key of the container, and shows nothing, or that one: fillKeySpecs does not
  hand on that the key is partial (xlate.go:288), which a comment of
  verifyPartialKeyForOc says it is (`Narrowed`).
* A GET of such a container shows of a list only the rows whose key contains that
  of the container, if there are any (traverseDbHelper, xlate.go:173; `Narrowed`).
* A list below an invalid node is not shown with its parents, but when it is asked
  for (`Reaches`).
* A subscription does not use a key-name: a container with one watches its whole
  table, and is told of a row with any key, a deletion too (`KeyPattern`; the
  instances of `oc_requests` have one row in such a table).
* A list below a list whose rows have the inner keys alone is watched with all keys
  on the path, which no row matches (subscribe_req_xlate.go:1020; the assumption
  about "own" in `OcSubscribeAssumption`).
* A leaf with a table of its own has its field noted at the parent instead of at the
  node that is made for the leaf (collectChldYgXPathInfo).
* handleDbToYangKeyXlate calls the table transformer of a list whether it has one or
  not (subscribe_resp_xlate.go:440 dereferences its name): only lists with one are modelled.
* A list entry of an address without a container config writes the base row
  of the interface and no address (the empty payload of `Payloads`).
* A new IPv4 address replaces one that is there. Two given at once replace
  one only, and the next one replaces either of them, whichever the range over a Go
  map comes upon (`Replaced`).
* The check for overlaps keeps the result for the last address only, so that an
  overlapping address gets in with one that does not (`NoOverlapSeen`;
  OverlapOnlyTogether is about addresses that came alone).
* Two prefixes of one ip may be rows next to each other, but the list of a GET has
  the ip as its key and shows one (`ShownIps`).
* aggregate-id looks for the port channel only: a port may join a second one, or be
  a member of a VLAN and have addresses at the same time (`JoinLag`).
* A PATCH with an access VLAN deletes the old one even if the new one does not
  exist and is left out (`AddSwitchedVlan`).
* A GET for one path of a subscription puts an entry into the on_change cache, and
  its announcement brings the other paths nothing (`raced` in Converged).
* `cdbLock` has no mutex, so an unlock may clear the pointer that another
  goroutine of the executable has just published, and that lock stays
  (`ClearPointer`; `lock_safe` has one locking goroutine per executable).
* A connection that is replaced between MULTI and EXEC lets a part of the
  transaction through (`LoseInTx`).
* EXEC that fails leaves nothing of a session's candidate (`CommitExec`).
* DeleteKeys returns the error of its last key only, and the common app only
  logs a failed ModEntry of a leaf-list. A batch with such an error is answered
  with success and has not done what was asked (`ignored`).
* In a Bulk, a leafref is satisfied by any edit of a missing target, the one that
  deleted it included (`UncheckedReferences`).
* CVL counts the deletion of a row before it checks it (cvl_api.go:442). One that is
  then refused as not there, or whose row another process has deleted meanwhile,
  lowers the size, and the table may grow past its max-elements; cvl_syntax.go:31
  says the count is of the entries that are there and that are added
  (`Miscounted`). TLC finds it with a Bulk that deletes a row the other process has
  just deleted and then adds two.
* A deletion looks for the rows of child tables without watching them, so that a
  child committed meanwhile survives its parent (`UnwatchedChildren`).
* A Confirm that races the timer may wait on the channel for ever, and an Abort
  during the timer's rollback removes the session under the goroutine (`Patient`
  in `session_confirm`). Two concurrent timed commits share `rollbackCfg`, and an
  abort reloads what the first has committed: `session_confirm` has one terminal,
  and the theorem about it assumes as much (`Attended`).

### Bounds, and why they are enough

* Lock: the code distinguishes a lock of oneself, of a session and of another
  executable, and the first and the last attempt. Three goroutines in two
  executables and two attempts have each; four is the code's number. One crash
  (two in `lock_safe`) leaves a lock, and meets one of somebody else at the
  restart.
* Transactions: edits of one entry interact (create, modify, delete fields,
  delete), and edits of two entries through rollback and GetKeys. Two fields
  tell replacing from merging, and give CVL a field that needs another. Two
  commands per transaction are enough for a write before and one after a
  savepoint, and for SetEntry's pair to meet the limit.
* Sessions: two tokens are a session and its successor, which a late request or
  goroutine of the first may hit; two terminals race on the same session. The
  runs about configurations have two of them, so that every reload shows; the
  big safety run, about session, lock and handle, has one.
* Requests: the schema has a leafref of each kind (key, leaf, leaf-list), a
  default, a mandatory field, a size, a parent and a child table, and a table of
  another module. The requests have each method at each level of a path that it
  is defined for; the Bulks pair those that meet in the cache of cvl: deletion
  and creation of a row, removal of a reference and of its target, a row that is
  not there. Two requests (`MaxBatches` each) are enough for a commit inside every
  window of the other; three rules are one more than the size allows. A larger
  size than one matters: with two rows below a parent the dropped errors of
  DeleteKeys show.
* OpenConfig requests: the tree is a part of openconfig-test-xfmr.yang with its
  annotations: a list below a list, a container that shares a row and owns only its
  own fields there (`other`), one with its row to itself, NTP with references to its
  keys from a row and from a leaf-list, defaults, a node that is not valid. Each
  method is asked at each kind of node. A request leaves nothing in the handle, so
  one is enough (`MaxRequests`); the five contents have the rows that share, depend
  and are missing. The paths subscribed to are each node, with the keys of a row
  that changes, of one that does not, and with wildcards.
* Interfaces: of VLANs one more than are given as access and old VLAN; a port and a
  port channel have the same branches but for members. The six scopes keep kinds
  of requests that touch different rows apart; what they have in common, the
  existence of an interface and its deletion, is in the last. The theorems of
  `InterfacesProofs` have no scopes.
* Subscriptions: one path of a whole table, one whose YANG key is a field, one of
  another database; two writes after the initial contents give the announcement
  that is handled late. Two target and two child tables have a parent, a sibling
  and an unrelated one.
* `TxCmdsLim` is the code's limit of a session and a bound for a writer;
  `MaxOthers`, `MaxConnLost`, `MaxCrash`, `MaxTokens` bound the environment.

Deadlock is checked except where the system may stop: where a request of a
session may wait on the channel for ever, and in `requests` and `oc_requests`, which
have a bounded number of requests. The requests of `interfaces` are atomic and
nobody has to send one: there is no fairness and no liveness.

### Fairness

The lock: a goroutine that is inside ConfigDBTryLock or ConfigDBUnlock runs on;
DeleteDB is deferred by every caller in translib.go, so a writer that holds the
lock calls ConfigDBUnlock; systemd starts a dead server again. A session may be
kept open for ever, so `LockIsFreed` is about the locks of writers and of the dead. Sessions: requests,
goroutines and timers run on, and the server is restarted; nobody has to send a
request, so the timer alone has to settle a commit. Weak fairness is enough for
each: none of these steps is disabled again and again by others, except the
HSETNX that fails, which is a step of its own.

Requests: each process runs on once it has begun (weak fairness of its steps),
and nobody has to send a request. None of the steps waits: a lock that is held
refuses the write. That a request on an OpenConfig path ends is not checked: its walks
and items only become fewer. Subscriptions: Subscribe and the paths of a
notification run on; the goroutines compete for `sMutex` with each other and with starts and
stops, and Go hands a mutex to a waiter that has starved, so each goroutine has
strong fairness. Writers, losses and the client have none.

## What TLAPS proves

**The lock.** `ConfigDBLockProofs` proves for any sets of executables and
goroutines, any number of attempts, any redis faults and crashes, from
`LockAssumption` alone (each goroutine has an executable, the nil values are not
values, a session token is not `"0-0"`):

* `LockTypeCorrect`, `LockMutualExclusion`, `LockOwnerIsRecorded`;
* `LockImplementsService`, the refinement, step by step.

Mutual exclusion is not inductive: an unlock runs for the LockStruct that
`cdbLock` points to, whoever published it. `LockInv` adds why that is harmless:
the field names the owner as long as there is one, an owner finds its own
LockStruct or nil (`OwnPointer`), the script runs for the caller's own
(`OwnReceiver`), and goroutines of a dead executable are gone. So the race of
an unlock with a lock of the same executable may leave a lock behind, but never
gives ConfigDB to two.

That nothing is left behind, `LockIsNoOrphan` and `UnlockReleasesAlways`, is
proved with the hypothesis `Alone`: one goroutine per executable locks, and
redis answers. Both parts are needed: the race above leaves an orphan, and so
does an HSETNX whose reply is lost. Crashes are allowed. What `LockInv` lacks is
`FindsOwnLock`: an owner has its LockStruct marked as locked, and from the end of
ConfigDBTryLock to the HDEL it is the one that `cdbLock` points to.

**Transactions.** `DBTransactionProofs` proves for any finite set of keys, any
fields, values, limit of commands, number of foreign writes and verdicts of CVL,
from `TxAssumption` (the nil values and the two states of an abstract transaction
without a candidate are told from the others; nobody asks to set an entry to no
fields, for which setEntry has a case of its own):

* `TxTypeCorrect`, whatever connections are lost;
* `ReadersAgreeAlways`, `PlaybackFailsOnlyIfOvertakenAlways`;
* `TransactionImplements`, the refinement of ConfigTransaction.

The last three have the hypothesis `LoseInTx = FALSE`: go-redis replaces no
connection between WATCH and EXEC. Without it none of them holds, which TLC
shows, since the WATCH is gone with the connection. The invariant is `TxInv`:

* `TxTypes`: the types, and in which phases there are commands, a savepoint or
  something sent;
* `Connected`: redis watches as long as there is a transaction, and has queued the
  commands sent so far;
* `CacheFollowsCmds`: the CAS Tx cache over redis is what the commands make of redis;
* `SessionInv`, for Rollback2SP: each edit that CVL has accepted stands beside its
  command, or is one ahead in the middle of SetEntry's pair, or the call has failed
  and only the savepoint counts (`InStep`, `OneAhead`, `CallIsLost`); the savepoint
  marks the same place in both lists (`MarkHolds`); txTsEntryHGetAll has what redis
  holds of each entry that a command changes in part (`HGetAllSuffices`), so that
  the cache can be rebuilt without reading.

All but the types is said of a transaction that can still commit. Once another
client has touched a watched key the readers may disagree with what EXEC would do,
and EXEC does nothing. The commands are run over redis by a fold. What a fold
computes is not within reach of the induction theorems of the library, so
`FoldLemmas` gets induction over the naturals from the well-foundedness of finite
sets under inclusion, shows that the functions the folds are made with exist and
are unique, and that a fold over an appended sequence is one step more.

**The Config Session.** `ConfigSessionProofs` proves for any terminals,
configurations and number of sessions, any failure of host services and unlocks,
any crashes, from `SessionAssumption` (nil is none of the values it is told from,
the lock's values differ):

* `SessionTypeCorrect`;
* `SessionKeepsLock`, `SessionOwnsOpenDB`, `SessionLeavesNoLock`.

The types alone are not inductive: the timer's goroutine reloads the
configuration a request has given it, so `KnownRequest` and `KnownRoutine` say at
which steps it has one. `SessionCore` joins the three properties, which need one
another (a writer gets the lock only when there is no session because the session
would hold it), with `NewCSIsAlone`: while newCS holds csMutex there is no
session, and a dead server has none. Nothing is said of the requests' copies of
uCS: stale as they are, each helper keeps session, lock and handle together
(`SameSession`, `SessionEnds`).

`ConfirmedCommitImplemented` is the refinement of ConfirmedCommit, with any
number of crashes and the hypothesis `Attended`: there is one terminal, so that
requests follow one another; none aborts while the session shows ROLLBACK IN
PROGRESS; cfg_mgmt and ConfigDBUnlock do not fail. TLC finds a counterexample
without any one of the four. The timer and its goroutine run beside the requests
all the same. `ConfirmInv` says who is in charge of the way back: while the
goroutine is not over, it belongs to the session, which is in CONFIRM_TIMER or
ROLLBACK_REPLACE accordingly, and goes back to what the commit has replaced
(`RoutineIsOfSession`); a request that has stopped it finds it ended and has the
same configuration in its copy (`RequestKnows`); between commitCS and SetCommitCh
nobody else can be in charge (`SessionKnowsTimer`). A crash while a commit waits
is Confirm in the abstract specification: the code clears the lock at the next
start and the new configuration stays. What is proved for crashes is that nobody
edits ConfigDB before that.

**Requests.** `RequestsProofs` proves for any schema, processes and batches, from
`RequestsAssumption` (nil is no process, contents are functions on the rows),
`SchemaAssumption` (tables and rows are finite, sizes are numbers) and
`BatchesAssumption` (batches are sequences of requests):

* `HolderWritesAlways`: uncommitted writes are those of the holder of the lock;
* `WriterIsAloneAlways`: from the first write of a handle to its end only its own
  commit changes ConfigDB;
* `SizesBoundedAlways`: no commit makes a table outgrow its max-elements.

For the first two: the handle reads without the lock and takes it in the middle of a batch, so the
second does not follow from a critical section. It holds since a handle without
the lock has nothing to write (`HolderWrites`), and a commit without writes leaves
ConfigDB as it is (`ChangesAreCommits`). Which edits are made and what CVL makes of
them plays no part. `Shape` says that contents and transactions are the records
they are written as.

SizesBounded is about the CVL session, which counts the rows of a table once, before
the lock, and keeps the number by hand. `Covers` is what has to hold of that number: it is no less than the rows
there will be once the item under way is written, or no row is there that was not
there before. That is not inductive by itself,
because a deletion lowers the number whether there is a row or not: `TodoOK` and
`AllPresent` say of the work of a batch that no row is deleted twice, that all that
is deleted is there, and that what is written to is of the tables watched. Another
process's commit then either touches no table that is counted, or makes the handle
stale, whose commit changes nothing. The tables that a deletion may have miscounted
(`Miscounted`) are out of the property, and only those. `FullInv` is all of it,
stated for each process (`SizesInv`); a step of one process concerns another only
through a commit (`OtherCommit`).

**Interfaces.** `InterfacesProofs` proves for any interfaces, VLANs, addresses and
overlaps, from `InterfaceAssumption` (the types of interfaces are disjoint,
addresses with the same ip are of the same family, overlapping is symmetric):

* `InterfaceTypeCorrect`, `OneAccessVlanAlways`, `RowsBelongAlways`;
* `OverlapOnlyTogetherAlways`;
* `SwitchedVlanIsAskedAlways`, `AddressesAreAskedAlways`: what a GET shows after a
  request that was accepted.

The first three are inductive together; every request on switched-vlan comes down
to one `SetMember` (`SwitchedVlanSets`). OverlapOnlyTogether needs `AloneAreThere`:
an address that the history takes for checked is a row, so that the check of a later
one has found it. `Overlap` stands for any relation, so nothing is concluded from the
arithmetic of networks. The last two are about single steps, and use the invariants
of the state before: that there is one access VLAN is what makes the deletion of
the old one complete, and an address that replaces another finds at most one of
each ip because of what the tables may hold.

**Subscriptions.** `OnChangeProofs` proves for any entries, paths, mappings of
fields to leafs, databases and bounds, from `OnChangeAssumption` (nil values differ
from others, the mappings have their types):

* `OnChangeTypeCorrect`, `TerminatedOnceAlways`, `SilentAfterCleanupAlways`;
* `CacheIsClientViewAlways`, `ConvergedAlways`, with the hypothesis
  `OneFieldPerLeaf`: no leaf shows two fields of an entry. A leaf made of several
  fields is not modelled (`ValueAt` takes any of them), and TLC shows that
  CacheIsClientView is violated for one.

None of the five is inductive. `MutexInv` says who holds `sMutex` in which phase and
what there is then; `WorkInv` that a notification under way is of a difference which
the cache already has. For the values there are two links: `Followed`, from the
database to the cache (what waits in the channel accounts for each difference), and
`ToldInv`, from the cache to the client: a path shows what the cache holds, or, if it is
still to be notified, what it held before. Entries that a GET has read in between
(`raced`) or whose announcement was lost are left with the weaker `Roughly`, as in
the property.

**The splitting of a subscription.** `SubscribeSupportProofs` proves
`EachInfoOnceAlways` for any path and any answer of an app, from `InfosAssumption`:
the infos of an answer differ, and have paths at or below the one asked for, as
subscribe_app_interface.go demands. Two loops put the sample infos into parts: `Grouped` is
their invariant, which says that each info is below the path of its part, in no
other part, and that no two parts have a path in common. The last holds because a part
begins with an info that has the path of the part, so that the next info with that
path finds it (`BegunKeeps`), and it is what makes a session, which knows parts
by path, hand out the right ones (`FoundFacts`); only the part that keeps the path
of the request may replace a sample part (`Ambiguous`). `SupportInv` then says what the
client has after k responses. It subscribes to the last alone: a sample part has an
info that asks to be sampled (`WantsFacts`).

No run repeats the type correctness of the lock, the sessions, the subscriptions
and the interfaces, since it is proved; that of the transactions is both.

**Only model-checked.** Liveness under fairness (TryLockReturns, LockIsFreed,
UnconfirmedCommitIsSettled, BatchesEnd, CleanedUp, Drained), which TLAPS cannot
prove here. Of Requests what a batch does (DoesWhatIsAsked) and what it leaves of
references: each needs an invariant about the values in the request cache of CVL,
where sizes need only its rows. The
requests on OpenConfig paths and what a GET and a subscription make of them: their
operators are recursive.

## What is not modelled

* The per-connection read cache, maps, field cursors, exports: reads of handles that do
  not write.
* Redis commands that fail while the connection stays (memory, type errors).
* CVL's verdicts in DBTransaction: an abstract set of rejected entries stands for
  them. In CVL: syntax, must and when expressions, custom validations, leafrefs
  to one of several keys, and leafrefs through a union.
* SONiC paths to singleton containers and nested lists, tables of other databases
  than ConfigDB.
* On OpenConfig paths: lists of several keys, virtual tables, and the callbacks of
  modules other than openconfig-interfaces: transformers of tables, fields, values and
  subtrees, pre and post transformers, cascade deletion on their request. They are
  translations of data for one YANG module each, and most lines of the repository
  are such translations. A key transformer is the key made of all keys of the path. Several
  processes: what they do to each other is the subject of Requests, whatever the
  path.
* Of openconfig-interfaces: MTU, speed, auto-negotiation, enabled and description;
  a PATCH of the mode alone (it has no effect); several interfaces in one payload;
  deletions of containers in which the subtree of a transformer meets the walk of
  the infrastructure; a VLAN list that is one number as a string; what is shown from
  APPL_DB and STATE_DB (oper-status, counters); the DHCP relay check.
* GET on SONiC YANG paths, its query parameters and its formats; Action; roles and
  authorization.
* Subscriptions to OpenConfig paths: subtree, field, value and path transformers,
  virtual tables, leafs with a table of their own, leafs made of several fields,
  fields that are keys, preferences and intervals, tables of other databases than
  ConfigDB, a list below a list without a key transformer. That the announcement of
  a change arrives, and in which order, is the subject of OnChange, where the answer
  of the app is data. The answers of other apps (subscribe_app_utils.go); sample
  streams of OnChange.
* Session-aware subscriptions, checkpoint history, the client manager's counters.
* The user name and session name checks of GetSession, roles, time stamps.
* A session and its data requests in one model: ConfigSession keeps the candidate
  as one value, DBTransaction one request at a time.
* Generated bindings, YANG models, build tools.

## Plan

Done: the lock with its service, transactions with savepoints, sessions with
confirmed commits, requests with validation, on OpenConfig paths too,
interfaces, subscriptions with what the common app answers to them; theorems of
the lock, transactions, sessions, the isolation and the sizes of requests, interfaces
and subscriptions. In order of worth, what is left:

1. `SessionData`: the handle of a session under ConfigSession's requests, for the
   hazards where a commit meets a data request.
2. `SessionNotify` (db_subscribe_sa.go, the notifications of doWrite and
   Rollback2SP): "opened, changes, closed" for each subscriber.
3. GET on SONiC YANG paths (xlate_from_db.go). The apps with rules of their own that
   are left: ACLs and their bindings (acl_app.go), sFlow, system.
4. `CpHistory` (cs_cphist.go) and `RedisClients` (rcm.go).
5. Theorems: OwnReferencesHold and DoesWhatIsAsked of Requests, from the watched
   tables and an invariant of CVL's request cache.
