--------------------------- MODULE DBTransaction ---------------------------
(***************************************************************************)
(* The transactions of translib/db: a DB handle d on ConfigDB (db.go), its *)
(* redis connection, and the savepoint of a Config Session                 *)
(* (db_savepoint.go).                                                      *)
(*                                                                         *)
(* The handle belongs to one goroutine, but redis is shared: between any   *)
(* two redis commands other clients may write, and the connection may be   *)
(* replaced. go-redis opens a new connection for the next command when the *)
(* old one fails or has been idle too long, and the new connection has     *)
(* neither the WATCH nor the MULTI of the old one.                         *)
(***************************************************************************)
EXTENDS Naturals, Sequences, FiniteSets, SequencesExt

CONSTANTS
    Key,            \* redis keys of ConfigDB
    Field,          \* fields of an entry
    Val,            \* values of a field
    None,           \* the field is absent; also no savepoint, no cached entry
    Rejected,       \* entries that CVL does not accept
    NewValues,      \* the values that apps write
    IsSession,      \* d.Opts.IsSession: the candidate of a Config Session
    InUse,          \* keys that CVL does not let go: other entries refer to them
    TxCmdsLim,      \* d.Opts.TxCmdsLim of a session; for a writer a bound
    MaxOthers,      \* bound: writes by other redis clients
    MaxConnLost,    \* bound: connections replaced by go-redis
    LoseInTx,       \* a connection may be replaced inside a transaction
    Closed, Doomed  \* see ConfigTransaction

Entry == [Field -> Val \cup {None}]
Empty == [f \in Field |-> None]
Configuration == [Key -> Entry]

\* The values that stand for nothing are none of the values they are told from;
\* a call with no fields to write is a deletion of the entry (see AppCall).
ASSUME TxAssumption ==
    /\ IsFiniteSet(Key) /\ InUse \subseteq Key
    /\ None \notin Val /\ None \notin Entry /\ None \notin Configuration
    /\ None \notin Nat /\ None \notin [txCmdsLen : Nat, cECDLen : Nat]
    /\ Closed # Doomed
    /\ {Closed, Doomed}
          \cap [candidate : Configuration, mark : Configuration \cup {None}] = {}
    /\ Rejected \subseteq Entry /\ NewValues \subseteq Entry \ {Empty}
    /\ IsSession \in BOOLEAN /\ LoseInTx \in BOOLEAN
    /\ TxCmdsLim \in Nat \ {0}
    /\ MaxOthers \in Nat /\ MaxConnLost \in Nat

VARIABLES
    redis,              \* ConfigDB, the running configuration
    txState,            \* d.txState
    txCmds,             \* d.txCmds
    txTsEntryMap,       \* d.txTsEntryMap: the CAS Tx cache
    txTsEntryHGetAll,   \* d.txTsEntryHGetAll
    cvlEditConfigData,  \* d.cvlEditConfigData
    err,                \* d.err is set
    savePoint,          \* the package variable savePoint
    conn,               \* redis: WATCH and MULTI state of d's connection
    todo,               \* writes the current API call has still to do
    failed,             \* the last API call returned an error to the app
    sent,               \* commands sent by the commit in progress, or None
    others,             \* writes by other clients so far
    connLost            \* connections replaced so far

\* What the handle keeps, what the caller knows, what the environment did.
txVars == <<txState, txCmds, txTsEntryMap, txTsEntryHGetAll, cvlEditConfigData>>
callVars == <<todo, failed, sent>>
envVars == <<others, connLost>>
vars == <<redis, txVars, err, savePoint, conn, callVars, envVars>>

---------------------------------------------------------------------------
\* Entries and commands

HMSet(e, v) == [f \in Field |-> IF v[f] # None THEN v[f] ELSE e[f]]
HDel(e, v) == [f \in Field |-> IF v[f] # None THEN None ELSE e[f]]

\* What the op of a _txCmd does to the entry it names.
Effect(op, e, v) ==
    CASE op = "HMSet" -> HMSet(e, v)
      [] op = "HDel" -> HDel(e, v)
      [] op = "Del" -> Empty

Apply(db, c) == [db EXCEPT ![c.key] = Effect(c.op, @, c.value)]
Run(db, cmds) == FoldLeft(Apply, db, cmds)

\* getEntry: the CAS Tx cache first, then redis.
ViewOf(cache) == [k \in Key |-> IF cache[k] # None THEN cache[k] ELSE redis[k]]
View == ViewOf(txTsEntryMap)

(* The readers. Each puts the CAS Tx cache over redis in a way of its own. K is
   the keys asked for, or those that match a pattern. A table that is read is a
   function on its keys, where an entry without fields still has a key. *)
InRedis(K) == {k \in K : redis[k] # Empty}
Cached(K) == {k \in K : txTsEntryMap[k] # None}

\* getEntries: what is not cached comes from a pipeline of HGETALLs.
GetEntries(K) ==
    LET missed == K \ Cached(K)
    IN  [k \in K |-> IF k \in missed THEN redis[k] ELSE txTsEntryMap[k]]

\* GetKeysPattern: KEYS of redis, adjusted with the CAS Tx cache.
GetKeysPattern(K) ==
    {k \in InRedis(K) : ~(k \in Cached(K) /\ txTsEntryMap[k] = Empty)}
      \cup {k \in Cached(K) : txTsEntryMap[k] # Empty}
GetKeys == GetKeysPattern(Key)

\* ExistKeysPattern of a writer: the cache alone may tell.
ExistKeysPattern(K) ==
    \/ \E k \in Cached(K) : txTsEntryMap[k] # Empty
    \/ GetKeysPattern(K) # {}

\* GetTable: the keys, and then an entry for each.
GetTable == [k \in GetKeys |-> View[k]]

\* GetTablePattern: the keys and entries of a script, reconciled.
GetTablePattern(K) ==
    LET read == [k \in InRedis(K) |-> redis[k]]
        gone == {k \in Cached(K) : txTsEntryMap[k] = Empty}
        new == Cached(K) \ gone
    IN  [k \in new \cup (DOMAIN read \ gone) |-> IF k \in new THEN txTsEntryMap[k] ELSE read[k]]

\* A table with one entry put into it.
Put(table, k, e) == [x \in DOMAIN table \cup {k} |-> IF x = k THEN e ELSE table[x]]

\* Mutant: an entry stays when its last field is deleted.
ApplyTxCmdKeepsEmpty(table, c) ==
    LET there == c.key \in DOMAIN table
        rest == [k \in DOMAIN table \ {c.key} |-> table[k]]
    IN  CASE c.op = "HMSet" ->
                Put(table, c.key, HMSet(IF there THEN table[c.key] ELSE Empty, c.value))
          [] c.op = "HDel" /\ there -> Put(table, c.key, HDel(table[c.key], c.value))
          [] c.op = "HDel" /\ ~there -> table
          [] c.op = "Del" -> rest

\* A command of the transaction on a table that was read (applyTxCache).
ApplyTxCmd(table, c) ==
    LET there == c.key \in DOMAIN table
        left == IF there THEN HDel(table[c.key], c.value) ELSE Empty
    IN  CASE c.op = "HMSet" ->
                Put(table, c.key, HMSet(IF there THEN table[c.key] ELSE Empty, c.value))
          [] c.op = "HDel" /\ left # Empty -> Put(table, c.key, left)
          [] OTHER -> [k \in DOMAIN table \ {c.key} |-> table[k]]

\* GetConfig: what redis holds, and then the commands of the transaction.
GetConfig == FoldLeft(ApplyTxCmd, [k \in InRedis(Key) |-> redis[k]], txCmds)

NothingCached == [k \in Key |-> None]
NewConnection == [watch |-> FALSE, dirty |-> FALSE, multi |-> FALSE, queue |-> <<>>]

Init ==
    /\ redis \in Configuration
    /\ txState = "None" /\ txCmds = <<>> /\ cvlEditConfigData = <<>>
    /\ txTsEntryMap = NothingCached /\ txTsEntryHGetAll = NothingCached
    /\ err = FALSE
    /\ savePoint = None
    /\ conn = NewConnection
    /\ todo = <<>> /\ failed = FALSE /\ sent = None
    /\ others = 0 /\ connLost = 0

\* The app may call the API: no call is in progress.
Idle == todo = <<>> /\ sent = None

---------------------------------------------------------------------------
\* startTx, AppendWatchTx, abortTx, DeleteDB and NewDB

ClearTx ==
    /\ txState' = "None" /\ txCmds' = <<>> /\ cvlEditConfigData' = <<>>
    /\ txTsEntryMap' = NothingCached /\ txTsEntryHGetAll' = NothingCached

\* Mutant: the state is changed, but the WATCH is left out.
startTxNoWatch ==
    /\ Idle /\ ~failed /\ savePoint = None
    /\ txState = "None"
    /\ txState' = "Watch"
    /\ txTsEntryMap' = NothingCached /\ txTsEntryHGetAll' = NothingCached
    /\ UNCHANGED <<redis, txCmds, cvlEditConfigData, err, savePoint, conn, callVars, envVars>>

\* StartTx of a writer, StartSessTx of newCS: WATCH the CONFIG_DB_UPDATED keys.
startTx ==
    /\ Idle /\ ~failed /\ savePoint = None
    /\ txState = "None"
    /\ txState' = "Watch"
    /\ txTsEntryMap' = NothingCached /\ txTsEntryHGetAll' = NothingCached
    /\ conn' = [conn EXCEPT !.watch = TRUE]
    /\ UNCHANGED <<redis, txCmds, cvlEditConfigData, err, savePoint, callVars, envVars>>

\* AppendWatchTx of a bulk request: another WATCH, and back to txStateWatch
\* even when commands are pending.
AppendWatchTx ==
    /\ Idle /\ ~failed /\ ~IsSession
    /\ txState # "None"
    /\ txState' = "Watch"
    /\ UNCHANGED <<redis, txCmds, txTsEntryMap, txTsEntryHGetAll,
                   cvlEditConfigData, err, savePoint, conn, callVars, envVars>>

\* AbortTx of a writer, AbortSessTx of deleteCS: UNWATCH and forget.
abortTx ==
    /\ Idle /\ txState # "None" /\ savePoint = None
    /\ ClearTx
    /\ failed' = FALSE
    /\ conn' = [conn EXCEPT !.watch = FALSE, !.dirty = FALSE]
    /\ UNCHANGED <<redis, err, savePoint, todo, sent, envVars>>

\* DeleteDB closes the connection, whatever the state; NewDB makes the next.
ReopenDB ==
    /\ Idle /\ savePoint = None
    /\ ClearTx
    /\ err' = FALSE /\ failed' = FALSE
    /\ conn' = NewConnection
    /\ UNCHANGED <<redis, savePoint, todo, sent, envVars>>

---------------------------------------------------------------------------
\* CVL and doWrite

\* ValidateEditConfig of one edit against the entries it is to change.
Accepts(view, d) ==
    LET old == view[d.key] IN
    CASE d.vop = "CREATE" -> old = Empty /\ d.data \notin Rejected
      [] d.vop = "UPDATE" -> old # Empty /\ HMSet(old, d.data) \notin Rejected
      [] d.vop = "DELETE" ->
            /\ old # Empty
            /\ IF d.data = Empty THEN d.key \notin InUse
                                ELSE HDel(old, d.data) \notin Rejected

\* What an edit does to an entry (the fix-up of Rollback2SP).
EditEffect(d, e) ==
    CASE d.vop \in {"CREATE", "UPDATE"} -> HMSet(e, d.data)
      [] d.vop = "DELETE" -> IF d.data = Empty THEN Empty ELSE HDel(e, d.data)

\* Edits one after the other on a cache; stops at the first CVL failure.
PlaybackStep(s, d) ==
    IF ~s.ok \/ ~Accepts(ViewOf(s.cache), d)
    THEN [s EXCEPT !.ok = FALSE]
    ELSE [s EXCEPT !.cache[d.key] =
              EditEffect(d, IF @ # None THEN @ ELSE Empty)]

\* Mutant: the playback starts from the cache with the later edits.
PlaybackOnCache(cache, edits) ==
    FoldLeft(PlaybackStep, [cache |-> txTsEntryMap, ok |-> TRUE], edits)

Playback(cache, edits) == FoldLeft(PlaybackStep, [cache |-> cache, ok |-> TRUE], edits)

\* doCVL: the ops of one call, each against the entry its predecessors leave.
CVLAccepts(edits) ==
    Playback([k \in Key |-> View[k]], edits).ok

\* doTxSPsaveHGetAll: what HGETALL found is kept for Rollback2SP.
SaveHGetAll(k) ==
    txTsEntryHGetAll' =
        IF IsSession /\ savePoint # None
        THEN [txTsEntryHGetAll EXCEPT ![k] = redis[k]]
        ELSE txTsEntryHGetAll

\* doWrite in a transaction: the cache and the command list move together.
WriteToTx(c) ==
    /\ txState' = "Set"
    /\ IF c.op # "Del" /\ txTsEntryMap[c.key] = None
       THEN SaveHGetAll(c.key)
       ELSE UNCHANGED txTsEntryHGetAll
    /\ txTsEntryMap' =
          [txTsEntryMap EXCEPT ![c.key] = Effect(c.op, View[c.key], c.value)]
    /\ txCmds' = Append(txCmds, c)

\* Mutant: off by one.
PastTxCmdsLim == Len(txCmds) > TxCmdsLim

AtTxCmdsLim == Len(txCmds) >= TxCmdsLim

\* An error of doCVL or doWrite ends the call; only DeleteKeys goes on, and
\* returns the error of its last deletion.
CallFails ==
    LET keepOn == Head(todo).keepOn /\ Len(todo) > 1 IN
    /\ todo' = IF keepOn THEN Tail(todo) ELSE <<>>
    /\ failed' = ~keepOn

\* The next write of the call: doCVL, then doWrite.
DoWrite ==
    /\ todo # <<>>
    /\ LET w == Head(todo)
           edits == IF txState # "None" THEN w.edits ELSE <<>>
       IN
       \/ \* d.err, or CVL rejects the ops and they are taken off the list
          /\ err \/ ~CVLAccepts(edits)
          /\ CallFails
          /\ UNCHANGED <<redis, txVars>>
       \/ \* doCVL succeeds, doWrite finds the session at its limit
          /\ ~err /\ CVLAccepts(edits)
          /\ IsSession /\ AtTxCmdsLim
          /\ cvlEditConfigData' = cvlEditConfigData \o edits
          /\ CallFails
          /\ UNCHANGED <<redis, txState, txCmds, txTsEntryMap, txTsEntryHGetAll>>
       \/ \* no transaction: the command is executed at once
          /\ ~err /\ txState = "None"
          /\ redis' = Apply(redis, w.cmd)
          /\ todo' = Tail(todo)
          /\ UNCHANGED <<failed, txVars>>
       \/ \* the candidate
          /\ ~err /\ txState # "None" /\ CVLAccepts(edits)
          /\ ~AtTxCmdsLim
          /\ cvlEditConfigData' = cvlEditConfigData \o edits
          /\ WriteToTx(w.cmd)
          /\ todo' = Tail(todo)
          /\ UNCHANGED <<redis, failed>>
    /\ UNCHANGED <<err, savePoint, conn, sent, envVars>>

---------------------------------------------------------------------------
\* The write API: each call becomes a list of writes.

Edit(vop, k, v) == [key |-> k, vop |-> vop, data |-> v]
Cmd(op, k, v) == [op |-> op, key |-> k, value |-> v]
Write(edits, cmd) == [edits |-> edits, keepOn |-> FALSE, cmd |-> cmd]
Deletion(k, keepOn) ==
    [edits |-> <<Edit("DELETE", k, Empty)>>, keepOn |-> keepOn, cmd |-> Cmd("Del", k, Empty)]
DeleteWrite(k) == Deletion(k, FALSE)
DeleteAll(keys, keepOn) == [i \in DOMAIN keys |-> Deletion(keys[i], keepOn)]

\* An app writes to a session between StartTx and CommitTx or AbortTx. The
\* commands of a writer are bounded by TxCmdsLim here, not by the code.
Call(writes) ==
    /\ Idle /\ ~failed
    /\ IF IsSession THEN savePoint # None
                    ELSE Len(txCmds) + Len(writes) <= TxCmdsLim
    /\ todo' = writes
    /\ UNCHANGED <<redis, txVars, err, savePoint, conn, failed, sent, envVars>>

\* setEntry with isCreate
CreateEntry(k, v) ==
    Call(IF v = Empty THEN <<DeleteWrite(k)>>
         ELSE <<Write(<<Edit("CREATE", k, v)>>, Cmd("HMSet", k, v))>>)

\* setEntry without isCreate: the fields not in v are deleted as well.
SetEntry(k, v) ==
    LET complement == HDel(View[k], v) IN
    Call(CASE v = Empty -> <<DeleteWrite(k)>>
           [] v # Empty /\ View[k] = Empty ->
                <<Write(<<Edit("CREATE", k, v)>>, Cmd("HMSet", k, v))>>
           [] v # Empty /\ View[k] # Empty /\ complement = Empty ->
                <<Write(<<Edit("UPDATE", k, v)>>, Cmd("HMSet", k, v))>>
           [] OTHER ->
                <<Write(<<Edit("UPDATE", k, v), Edit("DELETE", k, complement)>>,
                        Cmd("HMSet", k, v)),
                  Write(<<>>, Cmd("HDel", k, complement))>>)

ModEntry(k, v) ==
    Call(IF v = Empty THEN <<DeleteWrite(k)>>
         ELSE <<Write(<<Edit("UPDATE", k, v)>>, Cmd("HMSet", k, v))>>)

DeleteEntryFields(k, v) ==
    Call(<<Write(<<Edit("DELETE", k, v)>>, Cmd("HDel", k, v))>>)

DeleteEntry(k) == Call(<<DeleteWrite(k)>>)

\* The keys are listed first and deleted one by one.
DeleteTable == Call(DeleteAll(SetToSeq(GetKeys), FALSE))
DeleteKeys == Call(DeleteAll(SetToSeq(GetKeys), TRUE))

---------------------------------------------------------------------------
\* Savepoints of a Config Session: StartTx, CommitTx, AbortTx of an app

DeclareSP ==
    /\ IsSession /\ Idle /\ ~failed
    /\ savePoint = None
    /\ savePoint' = [txCmdsLen |-> Len(txCmds), cECDLen |-> Len(cvlEditConfigData)]
    /\ UNCHANGED <<redis, txVars, err, conn, callVars, envVars>>

\* The app commits only what succeeded; after an error it aborts.
ReleaseSP ==
    /\ IsSession /\ Idle /\ ~failed
    /\ savePoint # None
    /\ savePoint' = None
    /\ UNCHANGED <<redis, txVars, err, conn, callVars, envVars>>

\* Mutant: the command list keeps the commands after the savepoint.
Rollback2SPKeepsCmds ==
    /\ IsSession /\ Idle
    /\ savePoint # None
    /\ LET kept == SubSeq(cvlEditConfigData, 1, savePoint.cECDLen)
       IN  /\ txTsEntryMap' = Playback(txTsEntryHGetAll, kept).cache
           /\ cvlEditConfigData' = kept
    /\ savePoint' = None
    /\ failed' = FALSE
    /\ UNCHANGED <<redis, txState, txCmds, err, txTsEntryHGetAll, conn, todo, sent, envVars>>

\* The cache is rebuilt from what HGETALL found and the edits before the mark,
\* each validated again.
Rollback2SP ==
    /\ IsSession /\ Idle
    /\ savePoint # None
    /\ LET kept == SubSeq(cvlEditConfigData, 1, savePoint.cECDLen)
           replay == IF txState = "None"   \* no CVL session: no playback
                     THEN [cache |-> txTsEntryHGetAll, ok |-> TRUE]
                     ELSE Playback(txTsEntryHGetAll, kept)
       IN  /\ txTsEntryMap' = replay.cache
           /\ err' = (err \/ ~replay.ok)
           /\ cvlEditConfigData' = IF replay.ok THEN kept ELSE cvlEditConfigData
    /\ txCmds' = SubSeq(txCmds, 1, savePoint.txCmdsLen)
    /\ savePoint' = None
    /\ failed' = FALSE
    /\ UNCHANGED <<redis, txState, txTsEntryHGetAll, conn, todo, sent, envVars>>

---------------------------------------------------------------------------
\* commitTx: MULTI, the commands, EXEC

CommitEnds ==
    /\ ClearTx
    /\ sent' = None
    /\ failed' = FALSE

\* Only a transaction that was started and is not in error gets to MULTI.
CommitMulti ==
    /\ Idle /\ ~failed /\ savePoint = None
    /\ \/ /\ txState = "None" \/ err
          /\ CommitEnds
          /\ UNCHANGED <<redis, conn, err, savePoint, todo, envVars>>
       \/ /\ txState # "None" /\ ~err
          /\ conn' = [conn EXCEPT !.multi = TRUE]
          /\ sent' = 0
          /\ UNCHANGED <<redis, txVars, err, savePoint, todo, failed, envVars>>

\* Mutant: a key written twice keeps the first write.
CommitSendOnce ==
    /\ sent # None /\ sent < Len(txCmds)
    /\ LET c == txCmds[sent + 1] IN
       IF conn.multi
       THEN /\ conn' = IF \E i \in 1 .. sent : txCmds[i].key = c.key THEN conn
                       ELSE [conn EXCEPT !.queue = Append(@, c)]
            /\ UNCHANGED redis
       ELSE redis' = Apply(redis, c) /\ UNCHANGED conn
    /\ sent' = sent + 1
    /\ UNCHANGED <<txVars, err, savePoint, todo, failed, envVars>>

\* The next command: redis queues it after MULTI, and executes it otherwise.
CommitSend ==
    /\ sent # None /\ sent < Len(txCmds)
    /\ LET c == txCmds[sent + 1] IN
       IF conn.multi
       THEN conn' = [conn EXCEPT !.queue = Append(@, c)] /\ UNCHANGED redis
       ELSE redis' = Apply(redis, c) /\ UNCHANGED conn
    /\ sent' = sent + 1
    /\ UNCHANGED <<txVars, err, savePoint, todo, failed, envVars>>

\* EXEC: fails without MULTI, or when a watched key was touched.
CommitExec ==
    /\ sent # None /\ sent = Len(txCmds)
    /\ redis' = IF conn.multi /\ ~conn.dirty THEN Run(redis, conn.queue) ELSE redis
    /\ conn' = NewConnection
    /\ CommitEnds
    /\ UNCHANGED <<err, savePoint, todo, envVars>>

---------------------------------------------------------------------------
\* The environment

\* Another client writes and sets the CONFIG_DB_UPDATED keys.
OtherWrites(k, e) ==
    /\ others < MaxOthers
    /\ others' = others + 1
    /\ redis[k] # e
    /\ redis' = [redis EXCEPT ![k] = e]
    /\ conn' = [conn EXCEPT !.dirty = @ \/ conn.watch]
    /\ UNCHANGED <<txVars, err, savePoint, callVars, connLost>>

\* The connection is closed; the next command will use a new one.
LoseConnection ==
    /\ connLost < MaxConnLost
    /\ LoseInTx \/ txState = "None"
    /\ connLost' = connLost + 1
    /\ conn' = NewConnection
    /\ UNCHANGED <<redis, txVars, err, savePoint, callVars, others>>

AppCall ==
    \/ \E k \in Key, v \in NewValues \cup {Empty} :
          CreateEntry(k, v) \/ SetEntry(k, v) \/ ModEntry(k, v)
    \/ \E k \in Key, v \in NewValues : DeleteEntryFields(k, v)
    \/ \E k \in Key : DeleteEntry(k)
    \/ DeleteTable
    \/ DeleteKeys

Next ==
    \/ startTx \/ AppendWatchTx \/ abortTx \/ ReopenDB
    \/ AppCall \/ DoWrite
    \/ DeclareSP \/ ReleaseSP \/ Rollback2SP
    \/ CommitMulti \/ CommitSend \/ CommitExec
    \/ \E k \in Key, e \in Entry : OtherWrites(k, e)
    \/ LoseConnection

Spec == Init /\ [][Next]_vars

---------------------------------------------------------------------------
\* Properties

TxTypeOK ==
    /\ redis \in Configuration
    /\ txState \in {"None", "Watch", "Set"}
    /\ \A i \in DOMAIN txCmds :
          txCmds[i] \in [op : {"HMSet", "HDel", "Del"}, key : Key, value : Entry]
    /\ Len(txCmds) <= TxCmdsLim
    /\ \A i \in DOMAIN cvlEditConfigData :
          cvlEditConfigData[i] \in
             [vop : {"CREATE", "UPDATE", "DELETE"}, key : Key, data : Entry]
    /\ txTsEntryMap \in [Key -> Entry \cup {None}]
    /\ txTsEntryHGetAll \in [Key -> Entry \cup {None}]
    /\ err \in BOOLEAN /\ failed \in BOOLEAN
    /\ \/ savePoint = None
       \/ savePoint \in [txCmdsLen : 0 .. TxCmdsLim, cECDLen : Nat]
    /\ sent \in {None} \cup 0 .. Len(txCmds)
    /\ others \in 0 .. MaxOthers /\ connLost \in 0 .. MaxConnLost

(* All readers of a handle show the same entries: those of getEntry, whether they
   merge redis with the CAS Tx cache (GetKeysPattern, ExistKeysPattern,
   getEntries, GetTable, GetTablePattern), or run txCmds again on what redis
   holds (GetConfig), and EXEC would leave just these. The cache that doWrite
   and Rollback2SP keep never drifts away from txCmds, as long as nobody touched
   what is watched and d.err is not set. *)
ReadersAgree ==
    LET there == {k \in Key : View[k] # Empty}
        shown(K) == [k \in K \cap there |-> View[k]]
    IN  /\ \A K \in SUBSET Key :
              /\ GetEntries(K) = [k \in K |-> View[k]]
              /\ GetKeysPattern(K) = DOMAIN shown(K)
              /\ ExistKeysPattern(K) <=> DOMAIN shown(K) # {}
              /\ GetTablePattern(K) = shown(K)
        /\ GetTable = shown(Key)
        /\ ~conn.dirty /\ ~err =>
              /\ GetConfig = shown(Key)
              /\ txState # "None" => View = Run(redis, txCmds)

\* The transaction as translib.go and cs see it.
Candidate == Run(redis, txCmds)
AtSavePoint == Run(redis, SubSeq(txCmds, 1, savePoint.txCmdsLen))
TxSeen ==
    CASE txState = "None" -> Closed
      [] txState # "None" /\ (conn.dirty \/ err) -> Doomed
      [] OTHER -> [candidate |-> View,
                   mark |-> IF savePoint = None THEN None ELSE AtSavePoint]

(* A transaction commits as a whole or not at all, what it commits is what the
   app read and CVL validated, Rollback2SP brings back the candidate of
   DeclareSP, and an overtaken transaction does not commit (ConfigTransaction). *)
Transaction == INSTANCE ConfigTransaction
    WITH running <- redis, tx <- TxSeen, NoMark <- None
ImplementsConfigTransaction == Transaction!Spec

(* Rollback2SP validates edits that CVL has accepted before: it sets d.err only
   when another client has changed ConfigDB under the session. *)
PlaybackFailsOnlyIfOvertaken == [][~err /\ err' => conn.dirty]_vars
=============================================================================
