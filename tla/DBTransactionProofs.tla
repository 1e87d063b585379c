------------------------ MODULE DBTransactionProofs ------------------------
(***************************************************************************)
(* Proofs about DBTransaction, for any keys, fields, entries, limit of     *)
(* commands and number of other writers.                                   *)
(*                                                                         *)
(* Everything rests on one inductive invariant, TxInv: the types and the   *)
(* phases of a transaction; that its connection watches while it lasts;    *)
(* that the CAS Tx cache over redis is what txCmds makes of redis; and for *)
(* a Config Session, what Rollback2SP relies on: each edit that CVL has    *)
(* accepted stands beside its command, the savepoint marks the same place  *)
(* in both lists, and txTsEntryHGetAll has what redis holds of each entry  *)
(* that a command changes in part.                                         *)
(*                                                                         *)
(* TxTypeCorrect holds as it is. The other theorems are about a connection *)
(* that go-redis does not replace inside a transaction (LoseInTx = FALSE): *)
(* when it does, the WATCH is gone and none of them holds.                 *)
(***************************************************************************)
EXTENDS DBTransaction, FoldLemmas

---------------------------------------------------------------------------
\* What the variables hold

\* What doWrite may be given: setEntry never makes an HMSET of no fields.
Command ==
    {c \in [op : {"HMSet", "HDel", "Del"}, key : Key, value : Entry] :
        c.op = "HMSet" => c.value # Empty}
Change == [vop : {"CREATE", "UPDATE", "DELETE"}, key : Key, data : Entry]
PendingWrite == [edits : Seq(Change), keepOn : BOOLEAN, cmd : Command]
Cache == [Key -> Entry \cup {None}]

TxShape ==
    /\ redis \in Configuration
    /\ txState \in {"None", "Watch", "Set"}
    /\ txCmds \in Seq(Command) /\ Len(txCmds) <= TxCmdsLim
    /\ cvlEditConfigData \in Seq(Change)
    /\ txTsEntryMap \in Cache /\ txTsEntryHGetAll \in Cache
    /\ err \in BOOLEAN /\ failed \in BOOLEAN
    /\ todo \in Seq(PendingWrite)
    /\ conn \in [watch : BOOLEAN, dirty : BOOLEAN, multi : BOOLEAN, queue : Seq(Command)]
    /\ \/ savePoint = None
       \/ /\ savePoint \in [txCmdsLen : Nat, cECDLen : Nat]
          /\ savePoint.txCmdsLen <= Len(txCmds)
          /\ savePoint.cECDLen <= Len(cvlEditConfigData)
    /\ sent \in {None} \cup 0 .. Len(txCmds)
    /\ others \in 0 .. MaxOthers /\ connLost \in 0 .. MaxConnLost

\* No transaction keeps anything, a commit runs between calls, and a session
\* is written to between DeclareSP and ReleaseSP or Rollback2SP.
Phases ==
    /\ txState = "None" =>
          /\ txCmds = <<>> /\ cvlEditConfigData = <<>>
          /\ txTsEntryMap = NothingCached /\ txTsEntryHGetAll = NothingCached
    /\ sent # None => todo = <<>> /\ ~failed /\ savePoint = None /\ txState # "None" /\ ~err
    /\ savePoint # None => IsSession
    /\ IsSession /\ savePoint = None => todo = <<>> /\ ~failed
    /\ failed => todo = <<>>

TxTypes == TxShape /\ Phases

---------------------------------------------------------------------------
\* The transaction, its connection and its cache

\* redis watches for a transaction, and has queued what was sent.
Connected ==
    /\ txState # "None" => conn.watch
    /\ sent # None => conn.multi /\ conn.queue = SubSeq(txCmds, 1, sent)
    /\ sent = None => conn.queue = <<>>

\* A transaction that can still commit.
Live == txState # "None" /\ ~err /\ ~conn.dirty

\* The CAS Tx cache over redis is what the commands make of redis.
CacheFollowsCmds == Live => View = Run(redis, txCmds)

---------------------------------------------------------------------------
\* What Rollback2SP relies on

\* The command that goes with an edit.
CmdOf(d) ==
    IF d.vop \in {"CREATE", "UPDATE"} THEN Cmd("HMSet", d.key, d.data)
    ELSE IF d.data = Empty THEN Cmd("Del", d.key, Empty)
    ELSE Cmd("HDel", d.key, d.data)

\* The first n edits are those of the first n commands.
Paired(n) ==
    /\ n <= Len(txCmds) /\ n <= Len(cvlEditConfigData)
    /\ \A i \in 1 .. n : txCmds[i] = CmdOf(cvlEditConfigData[i])

\* CVL has accepted each of the first n edits on what the commands before it make.
Accepted(n) ==
    \A i \in 1 .. n : Accepts(Run(redis, Prefix(txCmds, i - 1)), cvlEditConfigData[i])

\* A write that has its edit with its command, and the two writes of a SetEntry
\* that drops fields, of which the first has the edits of both.
OneEdit(w) == Len(w.edits) = 1 /\ w.cmd = CmdOf(w.edits[1])
DropsFields(writes) ==
    /\ Len(writes) = 2
    /\ Len(writes[1].edits) = 2 /\ writes[1].cmd = CmdOf(writes[1].edits[1])
    /\ ~writes[1].keepOn
    /\ writes[2].edits = <<>> /\ writes[2].cmd = CmdOf(writes[1].edits[2])
    /\ ~writes[2].keepOn
KnownCall(writes) == (\A i \in 1 .. Len(writes) : OneEdit(writes[i])) \/ DropsFields(writes)

InStep ==
    /\ Len(cvlEditConfigData) = Len(txCmds)
    /\ Paired(Len(txCmds))
    /\ Accepted(Len(txCmds))
    /\ KnownCall(todo)

OneAhead ==
    /\ Len(cvlEditConfigData) = Len(txCmds) + 1
    /\ Paired(Len(txCmds))
    /\ Accepted(Len(txCmds) + 1)
    /\ Len(todo) = 1
    /\ todo[1].edits = <<>> /\ ~todo[1].keepOn
    /\ todo[1].cmd = CmdOf(cvlEditConfigData[Len(txCmds) + 1])

\* The call has failed, or is a DeleteKeys that will.
CallIsLost ==
    /\ savePoint # None
    /\ failed \/ (todo # <<>> /\ AtTxCmdsLim)

\* The edits before the savepoint are those of the commands before it.
MarkHolds ==
    savePoint # None =>
        /\ savePoint.cECDLen = savePoint.txCmdsLen
        /\ Paired(savePoint.txCmdsLen)
        /\ Accepted(savePoint.txCmdsLen)

\* One of the first n commands is about k.
Written(n, k) == \E i \in 1 .. n : txCmds[i].key = k

\* txTsEntryHGetAll has what redis holds of each entry that a command changes in part.
HGetAllSuffices ==
    /\ \A k \in Key : txTsEntryHGetAll[k] \in {None, redis[k]}
    /\ \A k \in Key :
          txTsEntryMap[k] # None =>
              txTsEntryHGetAll[k] # None \/ Written(Len(txCmds), k)
    /\ \A i \in 1 .. Len(txCmds) :
          \/ txCmds[i].op = "Del"
          \/ txTsEntryHGetAll[txCmds[i].key] # None
          \/ Written(i - 1, txCmds[i].key)

SessionInv ==
    IsSession /\ Live =>
        /\ InStep \/ OneAhead \/ CallIsLost
        /\ MarkHolds
        /\ HGetAllSuffices

TxInv == TxTypes /\ Connected /\ CacheFollowsCmds /\ SessionInv
---------------------------------------------------------------------------
\* Entries, and what the commands and edits make of them

LEMMA EntryFacts ==
    /\ Empty \in Entry /\ None # Empty
    /\ \A e, v \in Entry : HMSet(e, v) \in Entry /\ HDel(e, v) \in Entry
    /\ \A c \in Command, e \in Entry : Effect(c.op, e, c.value) \in Entry
    /\ \A d \in Change, e \in Entry : EditEffect(d, e) \in Entry
  <1>1. Empty \in Entry /\ None # Empty
    BY TxAssumption DEF Empty, Entry
  <1>2. ASSUME NEW e \in Entry, NEW v \in Entry
        PROVE  HMSet(e, v) \in Entry /\ HDel(e, v) \in Entry
    BY DEF Entry, HMSet, HDel
  <1>3. ASSUME NEW c \in Command, NEW e \in Entry
        PROVE  Effect(c.op, e, c.value) \in Entry
    <2>1. c.op \in {"HMSet", "HDel", "Del"} /\ c.value \in Entry
      BY DEF Command
    <2> QED
      BY <2>1, <1>1, <1>2 DEF Effect
  <1>4. ASSUME NEW d \in Change, NEW e \in Entry
        PROVE  EditEffect(d, e) \in Entry
    <2>1. d.vop \in {"CREATE", "UPDATE", "DELETE"} /\ d.data \in Entry
      BY DEF Change
    <2> QED
      BY <2>1, <1>1, <1>2 DEF EditEffect
  <1> QED
    BY <1>1, <1>2, <1>3, <1>4

LEMMA ApplyType ==
    ASSUME NEW db \in Configuration, NEW c \in Command
    PROVE  Apply(db, c) \in Configuration
  <1>1. c.key \in Key /\ db[c.key] \in Entry
    BY DEF Command, Configuration
  <1>2. Effect(c.op, db[c.key], c.value) \in Entry
    BY <1>1, EntryFacts
  <1> QED
    BY <1>1, <1>2 DEF Apply, Configuration

\* Run, one command after the other.
LEMMA RunSteps ==
    ASSUME NEW db \in Configuration, NEW cmds \in Seq(Command)
    PROVE  \E g : /\ g[{}] = db
                  /\ \A n \in 1..Len(cmds) : g[1..(n - 1)] \in Configuration
                        => g[1..n] = Apply(g[1..(n - 1)], cmds[n])
                  /\ Run(db, cmds) = g[1..Len(cmds)]
  <1> DEFINE op == [p \in Configuration \X Command |-> Apply(p[1], p[2])]
             Is(it) == it = [S \in SUBSET DOMAIN cmds |->
                               IF S = {} THEN db ELSE Apply(it[S \ {Max(S)}], cmds[Max(S)])]
             N == Len(cmds)
             g == CHOOSE it : Is(it)
  <1>0. N \in Nat /\ DOMAIN cmds = 1..N /\ \A n \in 1..N : cmds[n] \in Command
    BY LenProperties, ElementOfSeq
  <1>1. op \in [Configuration \X Command -> Configuration]
    BY ApplyType
  <1>2. PICK it \in [SUBSET (1..N) -> Configuration] : IsFold(it, op, db, N, cmds)
    <2> HIDE DEF op, N
    <2> QED
      BY <1>0, <1>1, FoldExists
  <1>3. Is(it)
    <2>1. ASSUME NEW S \in SUBSET DOMAIN cmds, S # {}
          PROVE  op[<<it[S \ {Max(S)}], cmds[Max(S)]>>] = Apply(it[S \ {Max(S)}], cmds[Max(S)])
      <3>1. Max(S) \in DOMAIN cmds /\ S \ {Max(S)} \in SUBSET DOMAIN cmds
        BY <1>0, <2>1, MaxPosition
      <3>2. it[S \ {Max(S)}] \in Configuration /\ cmds[Max(S)] \in Command
        BY <1>0, <1>2, <3>1
      <3> QED
        BY <3>2
    <2> HIDE DEF op
    <2> QED
      BY <1>0, <1>2, <2>1 DEF IsFold
  <1>4. Is(g)
    BY <1>3
  <1>5. Run(db, cmds) = g[1..N]
    BY <1>0 DEF Run, FoldLeft, MapThenFoldSet
  <1>6. g[{}] = db
    BY <1>4
  <1>7. ASSUME NEW n \in 1..N
        PROVE  g[1..n] = Apply(g[1..(n - 1)], cmds[n])
    <2>1. n \in Nat \ {0} /\ 1..n \in SUBSET DOMAIN cmds /\ 1..n # {}
      BY <1>0
    <2>2. Max(1..n) = n /\ (1..n) \ {n} = 1..(n - 1)
      BY <2>1, MaxInterval
    <2> QED
      BY <1>4, <2>1, <2>2
  <1> HIDE DEF g
  <1> QED
    BY <1>5, <1>6, <1>7

LEMMA RunEmpty ==
    ASSUME NEW db \in Configuration PROVE Run(db, <<>>) = db
  <1> DEFINE cmds == <<>>
  <1>1. cmds \in Seq(Command) /\ Len(cmds) = 0 /\ 1..0 = {}
    OBVIOUS
  <1> HIDE DEF cmds
  <1>2. PICK g : /\ g[{}] = db
                 /\ \A n \in 1..Len(cmds) : g[1..(n - 1)] \in Configuration
                       => g[1..n] = Apply(g[1..(n - 1)], cmds[n])
                 /\ Run(db, cmds) = g[1..Len(cmds)]
    BY <1>1, RunSteps
  <1>3. Run(db, cmds) = db
    BY <1>1, <1>2
  <1> QED
    BY <1>3 DEF cmds

LEMMA RunType ==
    ASSUME NEW db \in Configuration, NEW cmds \in Seq(Command)
    PROVE  Run(db, cmds) \in Configuration
  <1> DEFINE op == [p \in Configuration \X Command |-> Apply(p[1], p[2])]
  <1>1. PICK g : /\ g[{}] = db
                 /\ \A n \in 1..Len(cmds) : g[1..(n - 1)] \in Configuration
                       => g[1..n] = Apply(g[1..(n - 1)], cmds[n])
                 /\ Run(db, cmds) = g[1..Len(cmds)]
    BY RunSteps
  <1>2. op \in [Configuration \X Command -> Configuration]
    BY ApplyType
  <1>3. Len(cmds) \in Nat /\ \A n \in 1..Len(cmds) : cmds[n] \in Command
    BY LenProperties, ElementOfSeq
  <1>4. IsChain(g, Configuration, op, db, Len(cmds), cmds)
    BY <1>1, <1>3 DEF IsChain
  <1> HIDE DEF op
  <1>5. g[1..Len(cmds)] \in Configuration
    BY <1>1, <1>2, <1>3, <1>4, FoldsAgree
  <1> QED
    BY <1>1, <1>5

LEMMA RunAppend ==
    ASSUME NEW db \in Configuration, NEW cmds \in Seq(Command), NEW c \in Command
    PROVE  Run(db, Append(cmds, c)) = Apply(Run(db, cmds), c)
  <1> DEFINE op == [p \in Configuration \X Command |-> Apply(p[1], p[2])]
             N == Len(cmds)
             longer == Append(cmds, c)
  <1>1. N \in Nat /\ longer \in Seq(Command) /\ Len(longer) = N + 1
          /\ longer[N + 1] = c 
          /\ (\A n \in 1..N : cmds[n] \in Command) /\ \A n \in 1..N : longer[n] = cmds[n]
    BY LenProperties, ElementOfSeq, AppendProperties
  <1> HIDE DEF longer
  <1>2. PICK g : /\ g[{}] = db
                 /\ \A n \in 1..N : g[1..(n - 1)] \in Configuration
                       => g[1..n] = Apply(g[1..(n - 1)], cmds[n])
                 /\ Run(db, cmds) = g[1..N]
    BY RunSteps
  <1>3. PICK h : /\ h[{}] = db
                 /\ \A n \in 1..Len(longer) : h[1..(n - 1)] \in Configuration
                       => h[1..n] = Apply(h[1..(n - 1)], longer[n])
                 /\ Run(db, longer) = h[1..Len(longer)]
    BY <1>1, RunSteps
  <1>4. op \in [Configuration \X Command -> Configuration]
    BY ApplyType
  <1>5. IsChain(g, Configuration, op, db, N, cmds)
    BY <1>1, <1>2 DEF IsChain
  <1>6. IsChain(h, Configuration, op, db, N, cmds)
    BY <1>1, <1>3 DEF IsChain
  <1>7. g[1..N] \in Configuration /\ h[1..N] = g[1..N]
    <2> HIDE DEF op, N
    <2>1. g[1..N] \in Configuration /\ Meet(g, h, N)
      BY <1>1, <1>4, <1>5, <1>6, FoldsAgree
    <2> QED
      BY <2>1 DEF Meet
  <1>8. h[1..(N + 1)] = Apply(h[1..N], c)
    <2>1. N + 1 \in 1..Len(longer) /\ (N + 1) - 1 = N
      BY <1>1
    <2> QED
      BY <1>1, <1>3, <1>7, <2>1
  <1> QED
    BY <1>1, <1>2, <1>3, <1>7, <1>8 DEF longer

---------------------------------------------------------------------------
\* Playback, one edit after the other

Playbacks == [cache : Cache, ok : BOOLEAN]
PlaybackFrom(start, edits) == FoldLeft(PlaybackStep, start, edits)

LEMMA PlaybackStepType ==
    ASSUME NEW s \in Playbacks, NEW d \in Change
    PROVE  PlaybackStep(s, d) \in Playbacks
  <1>1. d.key \in Key /\ s.cache \in Cache
    BY DEF Change, Playbacks
  <1>2. s.cache[d.key] \in Entry \cup {None}
    BY <1>1 DEF Cache
  <1>3. EditEffect(d, IF s.cache[d.key] # None THEN s.cache[d.key] ELSE Empty) \in Entry
    BY <1>2, EntryFacts
  <1> QED
    BY <1>1, <1>3 DEF PlaybackStep, Playbacks, Cache

\* Playback, one edit after the other.
LEMMA PlaybackSteps ==
    ASSUME NEW start \in Playbacks, NEW edits \in Seq(Change)
    PROVE  \E g : /\ g[{}] = start
                  /\ \A n \in 1..Len(edits) : g[1..(n - 1)] \in Playbacks
                        => g[1..n] = PlaybackStep(g[1..(n - 1)], edits[n])
                  /\ PlaybackFrom(start, edits) = g[1..Len(edits)]
  <1> DEFINE op == [p \in Playbacks \X Change |-> PlaybackStep(p[1], p[2])]
             Is(it) == it = [S \in SUBSET DOMAIN edits |->
                               IF S = {} THEN start ELSE PlaybackStep(it[S \ {Max(S)}], edits[Max(S)])]
             N == Len(edits)
             g == CHOOSE it : Is(it)
  <1>0. N \in Nat /\ DOMAIN edits = 1..N /\ \A n \in 1..N : edits[n] \in Change
    BY LenProperties, ElementOfSeq
  <1>1. op \in [Playbacks \X Change -> Playbacks]
    BY PlaybackStepType
  <1>2. PICK it \in [SUBSET (1..N) -> Playbacks] : IsFold(it, op, start, N, edits)
    <2> HIDE DEF op, N
    <2> QED
      BY <1>0, <1>1, FoldExists
  <1>3. Is(it)
    <2>1. ASSUME NEW S \in SUBSET DOMAIN edits, S # {}
          PROVE  op[<<it[S \ {Max(S)}], edits[Max(S)]>>] = PlaybackStep(it[S \ {Max(S)}], edits[Max(S)])
      <3>1. Max(S) \in DOMAIN edits /\ S \ {Max(S)} \in SUBSET DOMAIN edits
        BY <1>0, <2>1, MaxPosition
      <3>2. it[S \ {Max(S)}] \in Playbacks /\ edits[Max(S)] \in Change
        BY <1>0, <1>2, <3>1
      <3> QED
        BY <3>2
    <2> HIDE DEF op
    <2> QED
      BY <1>0, <1>2, <2>1 DEF IsFold
  <1>4. Is(g)
    BY <1>3
  <1>5. PlaybackFrom(start, edits) = g[1..N]
    BY <1>0 DEF PlaybackFrom, FoldLeft, MapThenFoldSet
  <1>6. g[{}] = start
    BY <1>4
  <1>7. ASSUME NEW n \in 1..N
        PROVE  g[1..n] = PlaybackStep(g[1..(n - 1)], edits[n])
    <2>1. n \in Nat \ {0} /\ 1..n \in SUBSET DOMAIN edits /\ 1..n # {}
      BY <1>0
    <2>2. Max(1..n) = n /\ (1..n) \ {n} = 1..(n - 1)
      BY <2>1, MaxInterval
    <2> QED
      BY <1>4, <2>1, <2>2
  <1> HIDE DEF g
  <1> QED
    BY <1>5, <1>6, <1>7

LEMMA PlaybackEmpty ==
    ASSUME NEW start \in Playbacks PROVE PlaybackFrom(start, <<>>) = start
  <1> DEFINE edits == <<>>
  <1>1. edits \in Seq(Change) /\ Len(edits) = 0 /\ 1..0 = {}
    OBVIOUS
  <1> HIDE DEF edits
  <1>2. PICK g : /\ g[{}] = start
                 /\ \A n \in 1..Len(edits) : g[1..(n - 1)] \in Playbacks
                       => g[1..n] = PlaybackStep(g[1..(n - 1)], edits[n])
                 /\ PlaybackFrom(start, edits) = g[1..Len(edits)]
    BY <1>1, PlaybackSteps
  <1>3. PlaybackFrom(start, edits) = start
    BY <1>1, <1>2
  <1> QED
    BY <1>3 DEF edits

LEMMA PlaybackType ==
    ASSUME NEW start \in Playbacks, NEW edits \in Seq(Change)
    PROVE  PlaybackFrom(start, edits) \in Playbacks
  <1> DEFINE op == [p \in Playbacks \X Change |-> PlaybackStep(p[1], p[2])]
  <1>1. PICK g : /\ g[{}] = start
                 /\ \A n \in 1..Len(edits) : g[1..(n - 1)] \in Playbacks
                       => g[1..n] = PlaybackStep(g[1..(n - 1)], edits[n])
                 /\ PlaybackFrom(start, edits) = g[1..Len(edits)]
    BY PlaybackSteps
  <1>2. op \in [Playbacks \X Change -> Playbacks]
    BY PlaybackStepType
  <1>3. Len(edits) \in Nat /\ \A n \in 1..Len(edits) : edits[n] \in Change
    BY LenProperties, ElementOfSeq
  <1>4. IsChain(g, Playbacks, op, start, Len(edits), edits)
    BY <1>1, <1>3 DEF IsChain
  <1> HIDE DEF op
  <1>5. g[1..Len(edits)] \in Playbacks
    BY <1>1, <1>2, <1>3, <1>4, FoldsAgree
  <1> QED
    BY <1>1, <1>5

LEMMA PlaybackAppend ==
    ASSUME NEW start \in Playbacks, NEW edits \in Seq(Change), NEW d \in Change
    PROVE  PlaybackFrom(start, Append(edits, d)) = PlaybackStep(PlaybackFrom(start, edits), d)
  <1> DEFINE op == [p \in Playbacks \X Change |-> PlaybackStep(p[1], p[2])]
             N == Len(edits)
             longer == Append(edits, d)
  <1>1. N \in Nat /\ longer \in Seq(Change) /\ Len(longer) = N + 1
          /\ longer[N + 1] = d 
          /\ (\A n \in 1..N : edits[n] \in Change) /\ \A n \in 1..N : longer[n] = edits[n]
    BY LenProperties, ElementOfSeq, AppendProperties
  <1> HIDE DEF longer
  <1>2. PICK g : /\ g[{}] = start
                 /\ \A n \in 1..N : g[1..(n - 1)] \in Playbacks
                       => g[1..n] = PlaybackStep(g[1..(n - 1)], edits[n])
                 /\ PlaybackFrom(start, edits) = g[1..N]
    BY PlaybackSteps
  <1>3. PICK h : /\ h[{}] = start
                 /\ \A n \in 1..Len(longer) : h[1..(n - 1)] \in Playbacks
                       => h[1..n] = PlaybackStep(h[1..(n - 1)], longer[n])
                 /\ PlaybackFrom(start, longer) = h[1..Len(longer)]
    BY <1>1, PlaybackSteps
  <1>4. op \in [Playbacks \X Change -> Playbacks]
    BY PlaybackStepType
  <1>5. IsChain(g, Playbacks, op, start, N, edits)
    BY <1>1, <1>2 DEF IsChain
  <1>6. IsChain(h, Playbacks, op, start, N, edits)
    BY <1>1, <1>3 DEF IsChain
  <1>7. g[1..N] \in Playbacks /\ h[1..N] = g[1..N]
    <2> HIDE DEF op, N
    <2>1. g[1..N] \in Playbacks /\ Meet(g, h, N)
      BY <1>1, <1>4, <1>5, <1>6, FoldsAgree
    <2> QED
      BY <2>1 DEF Meet
  <1>8. h[1..(N + 1)] = PlaybackStep(h[1..N], d)
    <2>1. N + 1 \in 1..Len(longer) /\ (N + 1) - 1 = N
      BY <1>1
    <2> QED
      BY <1>1, <1>3, <1>7, <2>1
  <1> QED
    BY <1>1, <1>2, <1>3, <1>7, <1>8 DEF longer

---------------------------------------------------------------------------
\* GetConfig: the commands on a table that was read

\* The table of a configuration: what is empty is not there.
TableOf(db) == [k \in {k \in Key : db[k] # Empty} |-> db[k]]
Tables == {TableOf(db) : db \in Configuration}
Merge(table, cmds) == FoldLeft(ApplyTxCmd, table, cmds)

LEMMA ApplyTxCmdIsApply ==
    ASSUME NEW db \in Configuration, NEW c \in Command
    PROVE  ApplyTxCmd(TableOf(db), c) = TableOf(Apply(db, c))
  <1> DEFINE t == TableOf(db)
             new == Apply(db, c)
             e == Effect(c.op, db[c.key], c.value)
             old == IF c.key \in DOMAIN t THEN t[c.key] ELSE Empty
             left == IF c.key \in DOMAIN t THEN HDel(t[c.key], c.value) ELSE Empty
  <1>1. c.key \in Key /\ c.value \in Entry /\ db \in [Key -> Entry]
    BY DEF Command, Configuration
  <1>2. DOMAIN t = {k \in Key : db[k] # Empty} /\ \A k \in DOMAIN t : t[k] = db[k]
    BY DEF TableOf
  <1>3. \A k \in Key : new[k] = IF k = c.key THEN e ELSE db[k]
    BY <1>1 DEF Apply
  <1>4. old = db[c.key]
    BY <1>1, <1>2
  <1>5. left = HDel(db[c.key], c.value) \/ (left = Empty /\ db[c.key] = Empty)
    BY <1>1, <1>2
  <1>6. HDel(Empty, c.value) = Empty
    BY <1>1, TxAssumption DEF HDel, Empty, Entry
  <1>7. left = HDel(db[c.key], c.value)
    BY <1>5, <1>6
  <1> HIDE DEF t, new, e, old, left
  <1>8. DOMAIN TableOf(new) = {k \in Key : new[k] # Empty}
          /\ \A k \in DOMAIN TableOf(new) : TableOf(new)[k] = new[k]
    BY DEF TableOf
  <1>9. ASSUME e # Empty
        PROVE  Put(t, c.key, e) = TableOf(new)
    <2>1. DOMAIN Put(t, c.key, e) = {k \in Key : new[k] # Empty}
      BY <1>1, <1>2, <1>3, <1>9 DEF Put
    <2>2. \A k \in {k \in Key : new[k] # Empty} : Put(t, c.key, e)[k] = new[k]
      BY <1>1, <1>2, <1>3, <1>9 DEF Put
    <2> QED
      BY <2>1, <2>2 DEF TableOf, Put
  <1>10. ASSUME e = Empty
         PROVE  [k \in DOMAIN t \ {c.key} |-> t[k]] = TableOf(new)
    <2>1. DOMAIN t \ {c.key} = {k \in Key : new[k] # Empty}
      BY <1>1, <1>2, <1>3, <1>10
    <2>2. \A k \in {k \in Key : new[k] # Empty} : t[k] = new[k]
      BY <1>1, <1>2, <1>3, <1>10
    <2> QED
      BY <2>1, <2>2 DEF TableOf
  <1>11. CASE c.op = "HMSet"
    <2>1. e = HMSet(old, c.value)
      BY <1>4, <1>11 DEF e, Effect
    <2>2. e # Empty
      <3>1. c.value # Empty
        BY <1>11 DEF Command
      <3>2. PICK f \in Field : c.value[f] # None
        BY <1>1, <3>1 DEF Empty, Entry
      <3>3. e[f] = c.value[f] /\ Empty[f] = None
        BY <2>1, <3>2 DEF HMSet, Empty
      <3> QED
        BY <3>2, <3>3
    <2>3. ApplyTxCmd(t, c) = Put(t, c.key, e)
      BY <1>11, <2>1 DEF ApplyTxCmd, old
    <2> QED
      BY <1>9, <2>2, <2>3 DEF t, new
  <1>12. CASE c.op = "HDel"
    <2>1. e = left
      BY <1>7, <1>12 DEF e, Effect
    <2>2. ApplyTxCmd(t, c) = IF e # Empty THEN Put(t, c.key, e)
                             ELSE [k \in DOMAIN t \ {c.key} |-> t[k]]
      BY <1>12, <2>1 DEF ApplyTxCmd, left
    <2> QED
      BY <1>9, <1>10, <2>2 DEF t, new
  <1>13. CASE c.op = "Del"
    <2>1. e = Empty
      BY <1>13 DEF e, Effect
    <2>2. ApplyTxCmd(t, c) = [k \in DOMAIN t \ {c.key} |-> t[k]]
      BY <1>13 DEF ApplyTxCmd
    <2> QED
      BY <1>10, <2>1, <2>2 DEF t, new
  <1>14. c.op \in {"HMSet", "HDel", "Del"}
    BY DEF Command
  <1> QED
    BY <1>11, <1>12, <1>13, <1>14

LEMMA MergeStepType ==
    ASSUME NEW table \in Tables, NEW c \in Command
    PROVE  ApplyTxCmd(table, c) \in Tables
  <1>1. PICK db \in Configuration : table = TableOf(db)
    BY DEF Tables
  <1>2. Apply(db, c) \in Configuration
    BY ApplyType
  <1> QED
    BY <1>1, <1>2, ApplyTxCmdIsApply DEF Tables

\* GetConfig, one command after the other.
LEMMA MergeSteps ==
    ASSUME NEW table \in Tables, NEW cmds \in Seq(Command)
    PROVE  \E g : /\ g[{}] = table
                  /\ \A n \in 1..Len(cmds) : g[1..(n - 1)] \in Tables
                        => g[1..n] = ApplyTxCmd(g[1..(n - 1)], cmds[n])
                  /\ Merge(table, cmds) = g[1..Len(cmds)]
  <1> DEFINE op == [p \in Tables \X Command |-> ApplyTxCmd(p[1], p[2])]
             Is(it) == it = [S \in SUBSET DOMAIN cmds |->
                               IF S = {} THEN table ELSE ApplyTxCmd(it[S \ {Max(S)}], cmds[Max(S)])]
             N == Len(cmds)
             g == CHOOSE it : Is(it)
  <1>0. N \in Nat /\ DOMAIN cmds = 1..N /\ \A n \in 1..N : cmds[n] \in Command
    BY LenProperties, ElementOfSeq
  <1>1. op \in [Tables \X Command -> Tables]
    BY MergeStepType
  <1>2. PICK it \in [SUBSET (1..N) -> Tables] : IsFold(it, op, table, N, cmds)
    <2> HIDE DEF op, N
    <2> QED
      BY <1>0, <1>1, FoldExists
  <1>3. Is(it)
    <2>1. ASSUME NEW S \in SUBSET DOMAIN cmds, S # {}
          PROVE  op[<<it[S \ {Max(S)}], cmds[Max(S)]>>] = ApplyTxCmd(it[S \ {Max(S)}], cmds[Max(S)])
      <3>1. Max(S) \in DOMAIN cmds /\ S \ {Max(S)} \in SUBSET DOMAIN cmds
        BY <1>0, <2>1, MaxPosition
      <3>2. it[S \ {Max(S)}] \in Tables /\ cmds[Max(S)] \in Command
        BY <1>0, <1>2, <3>1
      <3> QED
        BY <3>2
    <2> HIDE DEF op
    <2> QED
      BY <1>0, <1>2, <2>1 DEF IsFold
  <1>4. Is(g)
    BY <1>3
  <1>5. Merge(table, cmds) = g[1..N]
    BY <1>0 DEF Merge, FoldLeft, MapThenFoldSet
  <1>6. g[{}] = table
    BY <1>4
  <1>7. ASSUME NEW n \in 1..N
        PROVE  g[1..n] = ApplyTxCmd(g[1..(n - 1)], cmds[n])
    <2>1. n \in Nat \ {0} /\ 1..n \in SUBSET DOMAIN cmds /\ 1..n # {}
      BY <1>0
    <2>2. Max(1..n) = n /\ (1..n) \ {n} = 1..(n - 1)
      BY <2>1, MaxInterval
    <2> QED
      BY <1>4, <2>1, <2>2
  <1> HIDE DEF g
  <1> QED
    BY <1>5, <1>6, <1>7

LEMMA MergeEmpty ==
    ASSUME NEW table \in Tables PROVE Merge(table, <<>>) = table
  <1> DEFINE cmds == <<>>
  <1>1. cmds \in Seq(Command) /\ Len(cmds) = 0 /\ 1..0 = {}
    OBVIOUS
  <1> HIDE DEF cmds
  <1>2. PICK g : /\ g[{}] = table
                 /\ \A n \in 1..Len(cmds) : g[1..(n - 1)] \in Tables
                       => g[1..n] = ApplyTxCmd(g[1..(n - 1)], cmds[n])
                 /\ Merge(table, cmds) = g[1..Len(cmds)]
    BY <1>1, MergeSteps
  <1>3. Merge(table, cmds) = table
    BY <1>1, <1>2
  <1> QED
    BY <1>3 DEF cmds

LEMMA MergeType ==
    ASSUME NEW table \in Tables, NEW cmds \in Seq(Command)
    PROVE  Merge(table, cmds) \in Tables
  <1> DEFINE op == [p \in Tables \X Command |-> ApplyTxCmd(p[1], p[2])]
  <1>1. PICK g : /\ g[{}] = table
                 /\ \A n \in 1..Len(cmds) : g[1..(n - 1)] \in Tables
                       => g[1..n] = ApplyTxCmd(g[1..(n - 1)], cmds[n])
                 /\ Merge(table, cmds) = g[1..Len(cmds)]
    BY MergeSteps
  <1>2. op \in [Tables \X Command -> Tables]
    BY MergeStepType
  <1>3. Len(cmds) \in Nat /\ \A n \in 1..Len(cmds) : cmds[n] \in Command
    BY LenProperties, ElementOfSeq
  <1>4. IsChain(g, Tables, op, table, Len(cmds), cmds)
    BY <1>1, <1>3 DEF IsChain
  <1> HIDE DEF op
  <1>5. g[1..Len(cmds)] \in Tables
    BY <1>1, <1>2, <1>3, <1>4, FoldsAgree
  <1> QED
    BY <1>1, <1>5

LEMMA MergeAppend ==
    ASSUME NEW table \in Tables, NEW cmds \in Seq(Command), NEW c \in Command
    PROVE  Merge(table, Append(cmds, c)) = ApplyTxCmd(Merge(table, cmds), c)
  <1> DEFINE op == [p \in Tables \X Command |-> ApplyTxCmd(p[1], p[2])]
             N == Len(cmds)
             longer == Append(cmds, c)
  <1>1. N \in Nat /\ longer \in Seq(Command) /\ Len(longer) = N + 1
          /\ longer[N + 1] = c 
          /\ (\A n \in 1..N : cmds[n] \in Command) /\ \A n \in 1..N : longer[n] = cmds[n]
    BY LenProperties, ElementOfSeq, AppendProperties
  <1> HIDE DEF longer
  <1>2. PICK g : /\ g[{}] = table
                 /\ \A n \in 1..N : g[1..(n - 1)] \in Tables
                       => g[1..n] = ApplyTxCmd(g[1..(n - 1)], cmds[n])
                 /\ Merge(table, cmds) = g[1..N]
    BY MergeSteps
  <1>3. PICK h : /\ h[{}] = table
                 /\ \A n \in 1..Len(longer) : h[1..(n - 1)] \in Tables
                       => h[1..n] = ApplyTxCmd(h[1..(n - 1)], longer[n])
                 /\ Merge(table, longer) = h[1..Len(longer)]
    BY <1>1, MergeSteps
  <1>4. op \in [Tables \X Command -> Tables]
    BY MergeStepType
  <1>5. IsChain(g, Tables, op, table, N, cmds)
    BY <1>1, <1>2 DEF IsChain
  <1>6. IsChain(h, Tables, op, table, N, cmds)
    BY <1>1, <1>3 DEF IsChain
  <1>7. g[1..N] \in Tables /\ h[1..N] = g[1..N]
    <2> HIDE DEF op, N
    <2>1. g[1..N] \in Tables /\ Meet(g, h, N)
      BY <1>1, <1>4, <1>5, <1>6, FoldsAgree
    <2> QED
      BY <2>1 DEF Meet
  <1>8. h[1..(N + 1)] = ApplyTxCmd(h[1..N], c)
    <2>1. N + 1 \in 1..Len(longer) /\ (N + 1) - 1 = N
      BY <1>1
    <2> QED
      BY <1>1, <1>3, <1>7, <2>1
  <1> QED
    BY <1>1, <1>2, <1>3, <1>7, <1>8 DEF longer

LEMMA MergeIsRun ==
    ASSUME NEW db \in Configuration, NEW cmds \in Seq(Command)
    PROVE  Merge(TableOf(db), cmds) = TableOf(Run(db, cmds))
  <1> DEFINE N == Len(cmds)
             Same(n) == Merge(TableOf(db), Prefix(cmds, n)) = TableOf(Run(db, Prefix(cmds, n)))
             T == {n \in Nat : n <= N => Same(n)}
  <1>1. N \in Nat /\ TableOf(db) \in Tables
    BY LenProperties DEF Tables
  <1>2. 0 \in T
    <2>1. Prefix(cmds, 0) = <<>>
      BY PrefixFacts
    <2>2. Same(0)
      BY <1>1, <2>1, MergeEmpty, RunEmpty
    <2> QED
      BY <2>2
  <1>3. ASSUME NEW n \in T
        PROVE  n + 1 \in T
    <2>1. n \in Nat /\ n + 1 \in Nat /\ (n <= N => Same(n))
      OBVIOUS
    <2>2. ASSUME n + 1 <= N
          PROVE  Same(n + 1)
      <3>1. n < N /\ n \in 0..N /\ Same(n)
        BY <1>1, <2>1, <2>2
      <3>2. cmds[n + 1] \in Command /\ Prefix(cmds, n + 1) = Append(Prefix(cmds, n), cmds[n + 1])
        BY <2>1, <3>1, PrefixStep
      <3>3. Prefix(cmds, n) \in Seq(Command)
        BY <3>1, PrefixFacts
      <3>4. Run(db, Prefix(cmds, n)) \in Configuration
        BY <3>3, RunType
      <3>5. Run(db, Prefix(cmds, n + 1)) = Apply(Run(db, Prefix(cmds, n)), cmds[n + 1])
        BY <3>2, <3>3, RunAppend
      <3>6. Merge(TableOf(db), Prefix(cmds, n + 1))
               = ApplyTxCmd(Merge(TableOf(db), Prefix(cmds, n)), cmds[n + 1])
        BY <1>1, <3>2, <3>3, MergeAppend
      <3> QED
        BY <3>1, <3>2, <3>4, <3>5, <3>6, ApplyTxCmdIsApply
    <2> QED
      BY <2>1, <2>2
  <1>4. T = Nat
    <2>1. T \in SUBSET Nat
      OBVIOUS
    <2> HIDE DEF T
    <2> QED
      BY <1>2, <1>3, <2>1, NatSetInduction
  <1>5. N \in Nat /\ N <= N
    BY <1>1
  <1>6. Same(N)
    <2> HIDE DEF Same, N
    <2>1. \A n \in Nat : n <= N => Same(n)
      BY <1>4
    <2> QED
      BY <1>5, <2>1
  <1> QED
    BY <1>6, PrefixFacts

---------------------------------------------------------------------------
\* Types

LEMMA SetToSeqType ==
    ASSUME NEW K \in SUBSET Key
    PROVE  SetToSeq(K) \in Seq(K)
  <1>1. IsFiniteSet(K)
    BY TxAssumption, FS_Subset
  <1>2. Cardinality(K) \in Nat /\ ExistsBijection(1..Cardinality(K), K)
    BY <1>1, FS_CardinalityType
  <1>3. PICK f \in [1..Cardinality(K) -> K] :
               \A i, j \in 1..Cardinality(K) : f[i] = f[j] => i = j
    BY <1>2 DEF ExistsBijection, Bijection, Injection, IsInjective
  <1>4. SetToSeq(K) \in [1..Cardinality(K) -> K]
    BY <1>3 DEF SetToSeq, IsInjective
  <1> QED
    BY <1>2, <1>4, SeqDef

LEMMA ViewType ==
    ASSUME TxShape
    PROVE  View \in Configuration
  BY DEF TxShape, View, ViewOf, Cache, Configuration

LEMMA EditTypes ==
    ASSUME NEW k \in Key, NEW v \in Entry
    PROVE  /\ \A vop \in {"CREATE", "UPDATE", "DELETE"} : Edit(vop, k, v) \in Change
           /\ Cmd("HDel", k, v) \in Command
           /\ Cmd("Del", k, Empty) \in Command
           /\ v # Empty => Cmd("HMSet", k, v) \in Command
           /\ \A b \in BOOLEAN : Deletion(k, b) \in PendingWrite
           /\ DeleteWrite(k) \in PendingWrite
  <1>1. \A vop \in {"CREATE", "UPDATE", "DELETE"}, e \in Entry : Edit(vop, k, e) \in Change
    BY DEF Edit, Change
  <1>2. /\ Cmd("HDel", k, v) \in Command
        /\ Cmd("Del", k, Empty) \in Command
        /\ v # Empty => Cmd("HMSet", k, v) \in Command
    BY EntryFacts DEF Cmd, Command
  <1>3. ASSUME NEW b \in BOOLEAN
        PROVE  Deletion(k, b) \in PendingWrite
    <2>1. Edit("DELETE", k, Empty) \in Change
      BY <1>1, EntryFacts
    <2>2. <<Edit("DELETE", k, Empty)>> \in Seq(Change)
      BY <2>1
    <2> QED
      BY <1>2, <2>2 DEF Deletion, PendingWrite
  <1> QED
    BY <1>1, <1>2, <1>3 DEF DeleteWrite

LEMMA WriteType ==
    ASSUME NEW edits \in Seq(Change), NEW c \in Command
    PROVE  Write(edits, c) \in PendingWrite
  BY DEF Write, PendingWrite

\* What SetEntry deletes of an entry.
LEMMA ComplementType ==
    ASSUME TxShape, NEW k \in Key, NEW v \in Entry
    PROVE  HDel(View[k], v) \in Entry
  BY ViewType, EntryFacts DEF Configuration

LEMMA OneWrite ==
    ASSUME NEW d \in Change, NEW c \in Command, c = CmdOf(d), NEW writes,
           writes = <<Write(<<d>>, c)>> \/ \E b \in BOOLEAN :
                       writes = <<[edits |-> <<d>>, keepOn |-> b, cmd |-> c]>>
    PROVE  writes \in Seq(PendingWrite) /\ KnownCall(writes)
  <1>1. PICK b \in BOOLEAN : writes = <<[edits |-> <<d>>, keepOn |-> b, cmd |-> c]>>
    BY DEF Write
  <1> DEFINE w == [edits |-> <<d>>, keepOn |-> b, cmd |-> c]
  <1>2. w \in PendingWrite
    BY DEF PendingWrite
  <1>3. OneEdit(w)
    BY DEF OneEdit
  <1> HIDE DEF w
  <1>4. writes = <<w>>
    BY <1>1 DEF w
  <1>5. writes \in Seq(PendingWrite) /\ Len(writes) = 1 /\ writes[1] = w
    BY <1>2, <1>4
  <1>6. \A i \in 1..Len(writes) : OneEdit(writes[i])
    BY <1>3, <1>5
  <1> QED
    BY <1>5, <1>6 DEF KnownCall

LEMMA OneDeletion ==
    ASSUME NEW k \in Key, NEW b \in BOOLEAN
    PROVE  /\ Deletion(k, b) \in PendingWrite /\ OneEdit(Deletion(k, b))
           /\ <<DeleteWrite(k)>> \in Seq(PendingWrite) /\ KnownCall(<<DeleteWrite(k)>>)
  <1> DEFINE d == Edit("DELETE", k, Empty)
  <1>1. d \in Change /\ Cmd("Del", k, Empty) \in Command
    BY EntryFacts, EditTypes
  <1>2. Cmd("Del", k, Empty) = CmdOf(d)
    BY DEF CmdOf, Edit
  <1> HIDE DEF d
  <1>3. Deletion(k, b) = [edits |-> <<d>>, keepOn |-> b, cmd |-> Cmd("Del", k, Empty)]
    BY DEF Deletion, d
  <1>4. Deletion(k, b) \in PendingWrite /\ OneEdit(Deletion(k, b))
    BY <1>1, <1>2, <1>3 DEF PendingWrite, OneEdit
  <1>5. \E x \in BOOLEAN : <<DeleteWrite(k)>> = <<[edits |-> <<d>>, keepOn |-> x, cmd |-> Cmd("Del", k, Empty)]>>
    BY DEF DeleteWrite, Deletion, d
  <1> QED
    BY <1>1, <1>2, <1>4, <1>5, OneWrite

LEMMA SetEntryWrites ==
    ASSUME NEW k \in Key, NEW v \in Entry \ {Empty}, NEW rest \in Entry \ {Empty}, NEW writes,
           writes = <<Write(<<Edit("UPDATE", k, v), Edit("DELETE", k, rest)>>, Cmd("HMSet", k, v)),
                      Write(<<>>, Cmd("HDel", k, rest))>>
    PROVE  writes \in Seq(PendingWrite) /\ KnownCall(writes)
  <1> DEFINE d1 == Edit("UPDATE", k, v)
             d2 == Edit("DELETE", k, rest)
             c1 == Cmd("HMSet", k, v)
             c2 == Cmd("HDel", k, rest)
             w1 == Write(<<d1, d2>>, c1)
             w2 == Write(<<>>, c2)
  <1>1. d1 \in Change /\ d2 \in Change /\ c1 \in Command /\ c2 \in Command
    BY EditTypes
  <1>2. c1 = CmdOf(d1) /\ c2 = CmdOf(d2)
    BY DEF CmdOf, Edit
  <1> HIDE DEF d1, d2, c1, c2
  <1>3. <<d1, d2>> \in Seq(Change) /\ <<>> \in Seq(Change) /\ Len(<<d1, d2>>) = 2
          /\ <<d1, d2>>[1] = d1 /\ <<d1, d2>>[2] = d2
    BY <1>1
  <1>4. w1 \in PendingWrite /\ w2 \in PendingWrite
    BY <1>1, <1>3, WriteType
  <1>5. /\ Len(w1.edits) = 2 /\ w1.cmd = CmdOf(w1.edits[1]) /\ ~w1.keepOn
        /\ w2.edits = <<>> /\ w2.cmd = CmdOf(w1.edits[2]) /\ ~w2.keepOn
    BY <1>2, <1>3 DEF Write
  <1>6. writes = <<w1, w2>>
    BY DEF d1, d2, c1, c2
  <1> HIDE DEF w1, w2
  <1>7. writes \in Seq(PendingWrite) /\ Len(writes) = 2 /\ writes[1] = w1 /\ writes[2] = w2
    BY <1>4, <1>6
  <1> QED
    BY <1>5, <1>7 DEF KnownCall, DropsFields

LEMMA DeleteAllWrites ==
    ASSUME NEW keys \in Seq(Key), NEW b \in BOOLEAN
    PROVE  DeleteAll(keys, b) \in Seq(PendingWrite) /\ KnownCall(DeleteAll(keys, b))
  <1>1. Len(keys) \in Nat /\ DOMAIN keys = 1..Len(keys) /\ \A i \in 1..Len(keys) : keys[i] \in Key
    BY LenProperties, ElementOfSeq
  <1>2. \A i \in 1..Len(keys) : Deletion(keys[i], b) \in PendingWrite /\ OneEdit(Deletion(keys[i], b))
    BY <1>1, OneDeletion
  <1>3. DeleteAll(keys, b) \in [1..Len(keys) -> PendingWrite]
          /\ \A i \in 1..Len(keys) : DeleteAll(keys, b)[i] = Deletion(keys[i], b)
    BY <1>1, <1>2 DEF DeleteAll
  <1>4. DeleteAll(keys, b) \in Seq(PendingWrite) /\ Len(DeleteAll(keys, b)) = Len(keys)
    BY <1>1, <1>3, SeqDef
  <1> QED
    BY <1>2, <1>3, <1>4 DEF KnownCall

\* Each call of the write API is a sequence of such writes.
LEMMA CallHasWrites ==
    ASSUME TxShape, AppCall
    PROVE  \E writes \in Seq(PendingWrite) : KnownCall(writes) /\ Call(writes)
  <1>1. NewValues \cup {Empty} \subseteq Entry /\ Empty \notin NewValues
    BY TxAssumption, EntryFacts
  <1>2. ASSUME NEW k \in Key, NEW v \in Entry \ {Empty}, NEW vop \in {"CREATE", "UPDATE"}, NEW writes,
               writes = <<Write(<<Edit(vop, k, v)>>, Cmd("HMSet", k, v))>>
        PROVE  writes \in Seq(PendingWrite) /\ KnownCall(writes)
    <2>1. Edit(vop, k, v) \in Change /\ Cmd("HMSet", k, v) \in Command
      BY EditTypes
    <2>2. Cmd("HMSet", k, v) = CmdOf(Edit(vop, k, v))
      BY DEF CmdOf, Edit
    <2> QED
      BY <1>2, <2>1, <2>2, OneWrite
  <1>3. ASSUME NEW k \in Key, NEW v \in Entry, CreateEntry(k, v) \/ ModEntry(k, v)
        PROVE  \E writes \in Seq(PendingWrite) : KnownCall(writes) /\ Call(writes)
    <2>1. CASE v = Empty
      BY <1>3, <2>1, OneDeletion DEF CreateEntry, ModEntry
    <2>2. CASE v # Empty
      BY <1>2, <1>3, <2>2 DEF CreateEntry, ModEntry
    <2> QED
      BY <2>1, <2>2
  <1>4. ASSUME NEW k \in Key, NEW v \in Entry, SetEntry(k, v)
        PROVE  \E writes \in Seq(PendingWrite) : KnownCall(writes) /\ Call(writes)
    <2> DEFINE rest == HDel(View[k], v)
    <2>1. rest \in Entry
      BY ComplementType
    <2>2. CASE v = Empty
      BY <1>4, <2>2, OneDeletion DEF SetEntry
    <2>3. CASE v # Empty /\ (View[k] = Empty \/ rest = Empty)
      BY <1>2, <1>4, <2>3 DEF SetEntry
    <2>4. CASE v # Empty /\ View[k] # Empty /\ rest # Empty
      <3>1. Call(<<Write(<<Edit("UPDATE", k, v), Edit("DELETE", k, rest)>>, Cmd("HMSet", k, v)),
                   Write(<<>>, Cmd("HDel", k, rest))>>)
        BY <1>4, <2>4 DEF SetEntry
      <3> HIDE DEF rest
      <3> QED
        BY <2>1, <2>4, <3>1, SetEntryWrites
    <2> QED
      BY <2>2, <2>3, <2>4
  <1>5. ASSUME NEW k \in Key, NEW v \in NewValues, DeleteEntryFields(k, v)
        PROVE  \E writes \in Seq(PendingWrite) : KnownCall(writes) /\ Call(writes)
    <2>1. v \in Entry /\ v # Empty
      BY <1>1
    <2>2. Edit("DELETE", k, v) \in Change /\ Cmd("HDel", k, v) \in Command
      BY <2>1, EditTypes
    <2>3. Cmd("HDel", k, v) = CmdOf(Edit("DELETE", k, v))
      BY <2>1 DEF CmdOf, Edit
    <2>4. Call(<<Write(<<Edit("DELETE", k, v)>>, Cmd("HDel", k, v))>>)
      BY <1>5 DEF DeleteEntryFields
    <2> QED
      BY <2>2, <2>3, <2>4, OneWrite
  <1>6. ASSUME NEW k \in Key, DeleteEntry(k)
        PROVE  \E writes \in Seq(PendingWrite) : KnownCall(writes) /\ Call(writes)
    BY <1>6, OneDeletion DEF DeleteEntry
  <1>7. ASSUME DeleteTable \/ DeleteKeys
        PROVE  \E writes \in Seq(PendingWrite) : KnownCall(writes) /\ Call(writes)
    <2>1. GetKeys \in SUBSET Key
      BY DEF GetKeys, GetKeysPattern, InRedis, Cached
    <2>2. SetToSeq(GetKeys) \in Seq(Key)
      BY <2>1, SetToSeqType, SeqMonotonic
    <2> QED
      BY <1>7, <2>2, DeleteAllWrites DEF DeleteTable, DeleteKeys
  <1>8. ASSUME NEW k \in Key, NEW v \in NewValues \cup {Empty}
        PROVE  v \in Entry
    BY <1>1
  <1> QED
    BY <1>3, <1>4, <1>5, <1>6, <1>7, <1>8 DEF AppCall

LEMMA PlaybackTypes ==
    ASSUME redis \in Configuration, NEW cache \in Cache, NEW edits \in Seq(Change)
    PROVE  Playback(cache, edits) \in Playbacks
  <1>1. [cache |-> cache, ok |-> TRUE] \in Playbacks
    BY DEF Playbacks
  <1> QED
    BY <1>1, PlaybackType DEF Playback, PlaybackFrom

LEMMA NothingIsCached == NothingCached \in Cache /\ NewConnection \in [watch : BOOLEAN, dirty : BOOLEAN, multi : BOOLEAN, queue : Seq(Command)]
  BY DEF NothingCached, Cache, NewConnection

LEMMA InitTypes == Init => TxTypes
  <1> SUFFICES ASSUME Init PROVE TxTypes
    OBVIOUS
  <1>1. <<>> \in Seq(Command) /\ <<>> \in Seq(Change) /\ <<>> \in Seq(PendingWrite) /\ Len(<<>>) = 0
    OBVIOUS
  <1>2. /\ txCmds \in Seq(Command) /\ Len(txCmds) = 0 /\ cvlEditConfigData \in Seq(Change)
        /\ todo \in Seq(PendingWrite) /\ todo = <<>>
    BY <1>1 DEF Init
  <1>3. Len(txCmds) <= TxCmdsLim /\ 0 \in 0 .. MaxOthers /\ 0 \in 0 .. MaxConnLost
    BY <1>2, TxAssumption
  <1>4. /\ redis \in Configuration /\ txState = "None"
        /\ txTsEntryMap \in Cache /\ txTsEntryHGetAll \in Cache
        /\ err = FALSE /\ failed = FALSE /\ savePoint = None /\ sent = None
        /\ conn \in [watch : BOOLEAN, dirty : BOOLEAN, multi : BOOLEAN, queue : Seq(Command)]
        /\ others = 0 /\ connLost = 0
    BY NothingIsCached DEF Init
  <1>5. TxShape
    BY <1>2, <1>3, <1>4 DEF TxShape
  <1>6. Phases
    BY DEF Init, Phases
  <1> QED
    BY <1>5, <1>6 DEF TxTypes

LEMMA NextTypes == TxTypes /\ [Next]_vars => TxTypes'
  <1> SUFFICES ASSUME TxTypes, [Next]_vars PROVE TxTypes'
    OBVIOUS
  <1> USE DEF TxTypes
  <1>0. <<>> \in Seq(Command) /\ <<>> \in Seq(Change) /\ <<>> \in Seq(PendingWrite) /\ Len(<<>>) = 0
    OBVIOUS
  <1>cleared. ASSUME ClearTx, redis' \in Configuration, savePoint = None, UNCHANGED <<savePoint, todo, others, connLost>>,
                 sent' = None, err' \in BOOLEAN, failed' = FALSE,
                 conn' \in [watch : BOOLEAN, dirty : BOOLEAN, multi : BOOLEAN, queue : Seq(Command)]
           PROVE  TxTypes'
    <2>3. /\ txCmds' \in Seq(Command) /\ Len(txCmds') = 0 /\ cvlEditConfigData' \in Seq(Change)
          /\ txTsEntryMap' \in Cache /\ txTsEntryHGetAll' \in Cache /\ txState' = "None"
      BY <1>0, <1>cleared, NothingIsCached DEF ClearTx
    <2>4. Len(txCmds') <= TxCmdsLim
      BY <2>3, TxAssumption
    <2>1. TxShape'
      BY <1>cleared, <2>3, <2>4 DEF TxShape
    <2>2. Phases'
      BY <1>cleared DEF ClearTx, Phases
    <2> QED
      BY <2>1, <2>2
  <1>1. CASE startTx
    <2>1. TxShape'
      BY <1>1, NothingIsCached DEF startTx, TxShape, callVars, envVars
    <2>2. Phases'
      BY <1>1 DEF startTx, Phases, callVars, envVars, Idle
    <2> QED
      BY <2>1, <2>2
  <1>2. CASE AppendWatchTx
    BY <1>2 DEF AppendWatchTx, TxShape, Phases, callVars, envVars, Idle
  <1>3. CASE abortTx
    <2>1. conn' \in [watch : BOOLEAN, dirty : BOOLEAN, multi : BOOLEAN, queue : Seq(Command)]
      BY <1>3 DEF abortTx, TxShape
    <2> QED
      BY <1>3, <1>cleared, <2>1 DEF abortTx, TxShape, envVars, Idle
  <1>4. CASE ReopenDB
    BY <1>4, <1>cleared, NothingIsCached DEF ReopenDB, TxShape, envVars, Idle
  <1>5. CASE AppCall
    <2>1. PICK writes \in Seq(PendingWrite) : Call(writes)
      BY <1>5, CallHasWrites
    <2>2. TxShape'
      BY <2>1 DEF Call, TxShape, txVars, envVars
    <2>3. Phases'
      BY <2>1 DEF Call, Phases, txVars, envVars, Idle
    <2> QED
      BY <2>2, <2>3
  <1>6. CASE DoWrite
    <2> DEFINE w == Head(todo)
               edits == IF txState # "None" THEN w.edits ELSE <<>>
    <2>1. /\ todo # <<>> /\ w \in PendingWrite /\ Tail(todo) \in Seq(PendingWrite)
          /\ UNCHANGED <<err, savePoint, conn, sent, envVars>>
      BY <1>6, HeadTailProperties DEF DoWrite, TxShape
    <2>2. w.cmd \in Command /\ edits \in Seq(Change) /\ w.keepOn \in BOOLEAN
      BY <1>0, <2>1 DEF PendingWrite
    <2>3. \/ CallFails /\ UNCHANGED <<redis, txVars>>
          \/ /\ ~err /\ IsSession /\ AtTxCmdsLim
             /\ cvlEditConfigData' = cvlEditConfigData \o edits
             /\ CallFails
             /\ UNCHANGED <<redis, txState, txCmds, txTsEntryMap, txTsEntryHGetAll>>
          \/ /\ ~err /\ txState = "None"
             /\ redis' = Apply(redis, w.cmd)
             /\ todo' = Tail(todo)
             /\ UNCHANGED <<failed, txVars>>
          \/ /\ ~err /\ txState # "None" /\ ~AtTxCmdsLim
             /\ cvlEditConfigData' = cvlEditConfigData \o edits
             /\ WriteToTx(w.cmd)
             /\ todo' = Tail(todo)
             /\ UNCHANGED <<redis, failed>>
      BY <1>6 DEF DoWrite
    <2>4. cvlEditConfigData \o edits \in Seq(Change)
            /\ Len(cvlEditConfigData \o edits) >= Len(cvlEditConfigData)
            /\ (txState = "None" => cvlEditConfigData \o edits = cvlEditConfigData)
      <3>1. cvlEditConfigData \in Seq(Change)
        BY DEF TxShape
      <3>2. txState = "None" => edits = <<>>
        OBVIOUS
      <3> HIDE DEF edits
      <3>3. Len(edits) \in Nat /\ Len(cvlEditConfigData) \in Nat
        BY <2>2, <3>1, LenProperties
      <3> QED
        BY <2>2, <3>1, <3>2, <3>3, ConcatProperties, ConcatEmptySeq
    <2>5. sent = None /\ (IsSession => savePoint # None) /\ ~failed
      BY <2>1 DEF Phases
    <2> HIDE DEF w, edits
    <2>6. ASSUME CallFails
          PROVE  /\ todo' \in Seq(PendingWrite) /\ failed' \in BOOLEAN
                 /\ (failed' => todo' = <<>>)
      <3>1. CallFails => \/ todo' = Tail(todo) /\ failed' = FALSE
                         \/ todo' = <<>> /\ failed' = TRUE
        BY <2>2 DEF CallFails, w
      <3> QED
        BY <1>0, <2>1, <2>6, <3>1
    <2>7. CASE CallFails /\ UNCHANGED <<redis, txVars>>
      <3>1. TxShape'
        BY <2>1, <2>6, <2>7 DEF TxShape, txVars, envVars
      <3>2. Phases'
        BY <2>1, <2>5, <2>6, <2>7 DEF Phases, txVars, envVars
      <3> QED
        BY <3>1, <3>2
    <2>8. CASE /\ ~err /\ IsSession /\ AtTxCmdsLim
               /\ cvlEditConfigData' = cvlEditConfigData \o edits
               /\ CallFails
               /\ UNCHANGED <<redis, txState, txCmds, txTsEntryMap, txTsEntryHGetAll>>
      <3>1. TxShape'
        <4>1. savePoint # None => savePoint.cECDLen <= Len(cvlEditConfigData')
          BY <2>4, <2>8, LenProperties DEF TxShape
        <4> QED
          BY <2>1, <2>4, <2>6, <2>8, <4>1 DEF TxShape, envVars
      <3>2. Phases'
        BY <2>1, <2>4, <2>5, <2>6, <2>8 DEF Phases, envVars
      <3> QED
        BY <3>1, <3>2
    <2>9. CASE /\ ~err /\ txState = "None"
               /\ redis' = Apply(redis, w.cmd)
               /\ todo' = Tail(todo)
               /\ UNCHANGED <<failed, txVars>>
      <3>1. redis' \in Configuration
        BY <2>2, <2>9, ApplyType DEF TxShape
      <3>2. TxShape'
        BY <2>1, <2>9, <3>1 DEF TxShape, txVars, envVars
      <3>3. Phases'
        BY <2>1, <2>5, <2>9 DEF Phases, txVars, envVars
      <3> QED
        BY <3>2, <3>3
    <2>10. CASE /\ ~err /\ txState # "None" /\ ~AtTxCmdsLim
                /\ cvlEditConfigData' = cvlEditConfigData \o edits
                /\ WriteToTx(w.cmd)
                /\ todo' = Tail(todo)
                /\ UNCHANGED <<redis, failed>>
      <3>1. /\ txCmds' \in Seq(Command) /\ Len(txCmds') = Len(txCmds) + 1
            /\ Len(txCmds') <= TxCmdsLim /\ Len(txCmds) \in Nat
        BY <2>2, <2>10, AppendProperties, LenProperties, TxAssumption DEF TxShape, WriteToTx, AtTxCmdsLim
      <3>2. w.cmd.key \in Key /\ View[w.cmd.key] \in Entry /\ redis[w.cmd.key] \in Entry
        BY <2>2, ViewType DEF Command, Configuration, TxShape
      <3>3. Effect(w.cmd.op, View[w.cmd.key], w.cmd.value) \in Entry
        BY <2>2, <3>2, EntryFacts
      <3>4. txTsEntryMap' \in Cache /\ txTsEntryHGetAll' \in Cache
        BY <2>10, <3>2, <3>3 DEF WriteToTx, SaveHGetAll, TxShape, Cache
      <3>5. savePoint # None => /\ savePoint.cECDLen <= Len(cvlEditConfigData')
                                /\ savePoint.txCmdsLen <= Len(txCmds')
        BY <2>4, <2>10, <3>1, LenProperties DEF TxShape
      <3>6. sent' \in {None} \cup 0 .. Len(txCmds')
        BY <2>1, <2>5
      <3>7. TxShape'
        BY <2>1, <2>4, <2>10, <3>1, <3>4, <3>5, <3>6 DEF TxShape, WriteToTx, envVars
      <3>8. Phases'
        BY <2>1, <2>5, <2>10 DEF Phases, WriteToTx, envVars
      <3> QED
        BY <3>7, <3>8
    <2> QED
      BY <2>3, <2>7, <2>8, <2>9, <2>10
  <1>7. CASE DeclareSP
    <2>1. Len(txCmds) \in Nat /\ Len(cvlEditConfigData) \in Nat
      BY LenProperties DEF TxShape
    <2>2. savePoint' \in [txCmdsLen : Nat, cECDLen : Nat] /\ savePoint' # None
            /\ savePoint'.txCmdsLen <= Len(txCmds) /\ savePoint'.cECDLen <= Len(cvlEditConfigData)
      BY <1>7, <2>1, TxAssumption DEF DeclareSP
    <2>3. TxShape'
      BY <1>7, <2>2 DEF DeclareSP, TxShape, txVars, callVars, envVars
    <2>4. Phases'
      BY <1>7, <2>2 DEF DeclareSP, Phases, txVars, callVars, envVars, Idle
    <2> QED
      BY <2>3, <2>4
  <1>8. CASE ReleaseSP
    <2>1. TxShape'
      BY <1>8 DEF ReleaseSP, TxShape, txVars, callVars, envVars
    <2>2. Phases'
      BY <1>8 DEF ReleaseSP, Phases, txVars, callVars, envVars, Idle
    <2> QED
      BY <2>1, <2>2
  <1>9. CASE Rollback2SP
    <2> DEFINE kept == SubSeq(cvlEditConfigData, 1, savePoint.cECDLen)
               replay == IF txState = "None" THEN [cache |-> txTsEntryHGetAll, ok |-> TRUE]
                         ELSE Playback(txTsEntryHGetAll, kept)
    <2>1. /\ savePoint # None /\ savePoint.txCmdsLen \in 0..Len(txCmds) /\ Len(txCmds) \in Nat
          /\ savePoint.cECDLen \in 0..Len(cvlEditConfigData)
      BY <1>9, LenProperties DEF Rollback2SP, TxShape
    <2>2. kept \in Seq(Change)
      BY <2>1, PrefixFacts DEF TxShape, Prefix
    <2>3. replay.cache \in Cache /\ replay.ok \in BOOLEAN
      <3>1. Playback(txTsEntryHGetAll, kept) \in Playbacks
        BY <2>2, PlaybackTypes DEF TxShape
      <3> HIDE DEF kept
      <3> QED
        BY <3>1 DEF Playbacks, TxShape
    <2>4. SubSeq(txCmds, 1, savePoint.txCmdsLen) \in Seq(Command)
            /\ Len(SubSeq(txCmds, 1, savePoint.txCmdsLen)) = savePoint.txCmdsLen
      BY <2>1, PrefixFacts DEF TxShape, Prefix
    <2>5. /\ txTsEntryMap' = replay.cache /\ err' = (err \/ ~replay.ok)
          /\ cvlEditConfigData' = IF replay.ok THEN kept ELSE cvlEditConfigData
          /\ txCmds' = SubSeq(txCmds, 1, savePoint.txCmdsLen)
          /\ savePoint' = None /\ failed' = FALSE
          /\ IsSession /\ Idle
          /\ UNCHANGED <<redis, txState, txTsEntryHGetAll, conn, todo, sent, envVars>>
      BY <1>9 DEF Rollback2SP
    <2>6. ASSUME txState = "None"
          PROVE  txCmds' = <<>> /\ cvlEditConfigData' = <<>> /\ txTsEntryMap' = NothingCached
      <3>1. txCmds = <<>> /\ cvlEditConfigData = <<>> /\ txTsEntryHGetAll = NothingCached
        BY <2>6 DEF Phases
      <3>2. savePoint.txCmdsLen = 0 /\ savePoint.cECDLen = 0
        BY <2>1, <3>1
      <3>3. kept = <<>> /\ SubSeq(txCmds, 1, savePoint.txCmdsLen) = <<>>
        BY <3>2, PrefixFacts DEF Prefix, TxShape
      <3> QED
        BY <2>5, <2>6, <3>1, <3>3
    <2> HIDE DEF kept, replay
    <2>7. TxShape'
      <3>1. Len(txCmds') <= TxCmdsLim /\ sent' \in {None} \cup 0 .. Len(txCmds')
        BY <2>1, <2>4, <2>5, TxAssumption DEF TxShape, Idle
      <3> QED
        BY <2>2, <2>3, <2>4, <2>5, <3>1 DEF TxShape, envVars
    <2>8. Phases'
      BY <2>5, <2>6 DEF Phases, Idle
    <2> QED
      BY <2>7, <2>8
  <1>10. CASE CommitMulti
    <2>1. CASE CommitEnds
      BY <1>10, <1>cleared, <2>1 DEF CommitMulti, CommitEnds, TxShape, envVars, ClearTx, Idle
    <2>2. CASE ~CommitEnds
      <3>1. /\ txState # "None" /\ ~err /\ conn' = [conn EXCEPT !.multi = TRUE] /\ sent' = 0
            /\ Idle /\ ~failed /\ savePoint = None
            /\ UNCHANGED <<redis, txVars, err, savePoint, todo, failed, envVars>>
        BY <1>10, <2>2 DEF CommitMulti
      <3>2. Len(txCmds) \in Nat
        BY LenProperties DEF TxShape
      <3>5. sent' \in {None} \cup 0 .. Len(txCmds')
        BY <3>1, <3>2 DEF txVars
      <3>6. conn' \in [watch : BOOLEAN, dirty : BOOLEAN, multi : BOOLEAN, queue : Seq(Command)]
        BY <3>1 DEF TxShape
      <3>3. TxShape'
        BY <3>1, <3>5, <3>6 DEF TxShape, txVars, envVars
      <3>4. Phases'
        BY <3>1 DEF Phases, txVars, envVars, Idle
      <3> QED
        BY <3>3, <3>4
    <2> QED
      BY <2>1, <2>2
  <1>11. CASE CommitSend
    <2>1. sent \in Nat /\ sent + 1 \in 0..Len(txCmds) /\ sent + 1 \in 1..Len(txCmds)
             /\ Len(txCmds) \in Nat
      BY <1>11, LenProperties DEF CommitSend, TxShape
    <2>2. txCmds[sent + 1] \in Command
      BY <2>1, ElementOfSeq DEF TxShape
    <2>3. redis' \in Configuration
      BY <1>11, <2>2, ApplyType DEF CommitSend, TxShape
    <2>4. conn' \in [watch : BOOLEAN, dirty : BOOLEAN, multi : BOOLEAN, queue : Seq(Command)]
      <3>1. Append(conn.queue, txCmds[sent + 1]) \in Seq(Command)
        BY <2>2, AppendProperties DEF TxShape
      <3> QED
        BY <1>11, <3>1 DEF CommitSend, TxShape
    <2>5. UNCHANGED <<txVars, err, savePoint, todo, failed, envVars>> /\ sent' = sent + 1 /\ sent # None
      BY <1>11 DEF CommitSend
    <2>6. TxShape'
      BY <2>1, <2>3, <2>4, <2>5 DEF TxShape, txVars, envVars
    <2>7. Phases'
      BY <2>5 DEF Phases, txVars, envVars
    <2> QED
      BY <2>6, <2>7
  <1>12. CASE CommitExec
    <2>1. redis' \in Configuration
      BY <1>12, RunType DEF CommitExec, TxShape
    <2>2. savePoint = None
      BY <1>12 DEF CommitExec, Phases
    <2>3. /\ ClearTx /\ sent' = None /\ failed' = FALSE /\ conn' = NewConnection
          /\ UNCHANGED <<err, savePoint, todo, others, connLost>>
      BY <1>12 DEF CommitExec, CommitEnds, envVars
    <2> QED
      BY <1>cleared, <2>1, <2>2, <2>3, NothingIsCached DEF TxShape
  <1>13. ASSUME NEW k \in Key, NEW e \in Entry, OtherWrites(k, e)
         PROVE  TxTypes'
    <2>1. redis' \in Configuration /\ others' \in 0 .. MaxOthers
      BY <1>13, TxAssumption DEF OtherWrites, TxShape, Configuration
    <2>2. conn' \in [watch : BOOLEAN, dirty : BOOLEAN, multi : BOOLEAN, queue : Seq(Command)]
      BY <1>13 DEF OtherWrites, TxShape
    <2>3. TxShape'
      BY <1>13, <2>1, <2>2 DEF OtherWrites, TxShape, txVars, callVars
    <2>4. Phases'
      BY <1>13 DEF OtherWrites, Phases, txVars, callVars
    <2> QED
      BY <2>3, <2>4
  <1>14. CASE LoseConnection
    <2>1. connLost' \in 0 .. MaxConnLost
      BY <1>14, TxAssumption DEF LoseConnection, TxShape
    <2>2. TxShape'
      BY <1>14, <2>1, NothingIsCached DEF LoseConnection, TxShape, txVars, callVars
    <2>3. Phases'
      BY <1>14 DEF LoseConnection, Phases, txVars, callVars
    <2> QED
      BY <2>2, <2>3
  <1>15. CASE UNCHANGED vars
    BY <1>15 DEF vars, TxShape, Phases, txVars, callVars, envVars
  <1> QED
    BY <1>1, <1>2, <1>3, <1>4, <1>5, <1>6, <1>7, <1>8, <1>9, <1>10, <1>11, <1>12, <1>13, <1>14, <1>15
       DEF Next

LEMMA TxTypesAlways == Spec => []TxTypes
  BY InitTypes, NextTypes, PTL DEF Spec

(* What a handle, its connection and its callers keep has its type in every
   state of startTx, doWrite, Rollback2SP and commitTx, whatever other clients
   do and whichever connections are lost. *)
THEOREM TxTypeCorrect == Spec => []TxTypeOK
  <1>1. TxTypes => TxTypeOK
    <2> SUFFICES ASSUME TxTypes PROVE TxTypeOK
      OBVIOUS
    <2>1. DOMAIN txCmds = 1..Len(txCmds) /\ Len(txCmds) \in Nat /\ \A i \in 1..Len(txCmds) : txCmds[i] \in Command
      BY LenProperties, ElementOfSeq DEF TxTypes, TxShape
    <2>2. DOMAIN cvlEditConfigData = 1..Len(cvlEditConfigData)
             /\ \A i \in 1..Len(cvlEditConfigData) : cvlEditConfigData[i] \in Change
      BY LenProperties, ElementOfSeq DEF TxTypes, TxShape
    <2>3. savePoint # None => savePoint \in [txCmdsLen : 0 .. TxCmdsLim, cECDLen : Nat]
      BY <2>1, TxAssumption DEF TxTypes, TxShape
    <2> QED
      BY <2>1, <2>2, <2>3 DEF TxTypes, TxShape, TxTypeOK, Command, Change, Cache
  <1> QED
    BY <1>1, TxTypesAlways, PTL

---------------------------------------------------------------------------
\* What the edits of a call are validated against, and the playback

LEMMA EditIsCmd ==
    ASSUME NEW d \in Change
    PROVE  /\ CmdOf(d) \in [op : {"HMSet", "HDel", "Del"}, key : Key, value : Entry]
           /\ CmdOf(d).key = d.key
           /\ \A e \in Entry : EditEffect(d, e) = Effect(CmdOf(d).op, e, CmdOf(d).value)
  <1>1. d.vop \in {"CREATE", "UPDATE", "DELETE"} /\ d.key \in Key /\ d.data \in Entry
    BY DEF Change
  <1> QED
    BY <1>1, EntryFacts DEF CmdOf, Cmd, EditEffect, Effect

LEMMA ViewOfWhole ==
    ASSUME NEW db \in Configuration
    PROVE  ViewOf(db) = db /\ db \in Cache
  BY TxAssumption DEF ViewOf, Configuration, Cache

LEMMA PlaybackOfNone ==
    ASSUME redis \in Configuration, NEW cache \in Cache
    PROVE  Playback(cache, <<>>) = [cache |-> cache, ok |-> TRUE]
  <1>1. [cache |-> cache, ok |-> TRUE] \in Playbacks
    BY DEF Playbacks
  <1> QED
    BY <1>1, PlaybackEmpty DEF Playback, PlaybackFrom

LEMMA PlaybackOfOneMore ==
    ASSUME redis \in Configuration, NEW cache \in Cache, NEW edits \in Seq(Change), NEW d \in Change
    PROVE  Playback(cache, Append(edits, d)) = PlaybackStep(Playback(cache, edits), d)
  <1>1. [cache |-> cache, ok |-> TRUE] \in Playbacks
    BY DEF Playbacks
  <1> QED
    BY <1>1, PlaybackAppend DEF Playback, PlaybackFrom

\* doCVL of a call with one edit, and of the first write of SetEntry.
LEMMA CVLAcceptsOne ==
    ASSUME TxShape, NEW d \in Change, CVLAccepts(<<d>>)
    PROVE  Accepts(View, d)
  <1>1. View \in Configuration /\ View \in Cache /\ ViewOf(View) = View /\ [k \in Key |-> View[k]] = View
    BY ViewType, ViewOfWhole DEF Configuration
  <1>2. <<d>> = Append(<<>>, d) /\ <<>> \in Seq(Change) /\ redis \in Configuration
    BY DEF TxShape
  <1>3. Playback(View, <<d>>) = PlaybackStep([cache |-> View, ok |-> TRUE], d)
    BY <1>1, <1>2, PlaybackOfNone, PlaybackOfOneMore
  <1>4. PlaybackStep([cache |-> View, ok |-> TRUE], d).ok
    BY <1>1, <1>3 DEF CVLAccepts
  <1> HIDE DEF View
  <1>5. ASSUME ~Accepts(View, d)
        PROVE  FALSE
    BY <1>1, <1>4, <1>5 DEF PlaybackStep
  <1> QED
    BY <1>5

LEMMA CVLAcceptsTwo ==
    ASSUME TxShape, NEW d1 \in Change, NEW d2 \in Change, CmdOf(d1) \in Command,
           CVLAccepts(<<d1, d2>>)
    PROVE  Accepts(View, d1) /\ Accepts(Apply(View, CmdOf(d1)), d2)
  <1>1. View \in Configuration /\ View \in Cache /\ ViewOf(View) = View /\ [k \in Key |-> View[k]] = View
    BY ViewType, ViewOfWhole DEF Configuration
  <1>2. /\ <<d1>> = Append(<<>>, d1) /\ <<>> \in Seq(Change) /\ redis \in Configuration
        /\ <<d1, d2>> = Append(<<d1>>, d2) /\ <<d1>> \in Seq(Change)
    BY DEF TxShape
  <1> DEFINE p == PlaybackStep([cache |-> View, ok |-> TRUE], d1)
             q == PlaybackStep(p, d2)
  <1>3. Playback(View, <<d1>>) = p
    BY <1>1, <1>2, PlaybackOfNone, PlaybackOfOneMore
  <1>4. Playback(View, <<d1, d2>>) = q
    BY <1>1, <1>2, <1>3, PlaybackOfOneMore
  <1>5. q.ok
    BY <1>1, <1>4 DEF CVLAccepts
  <1> HIDE DEF View
  <1>6. [cache |-> View, ok |-> TRUE] \in Playbacks
    BY <1>1 DEF Playbacks
  <1>7. p \in Playbacks
    BY <1>6, PlaybackStepType
  <1>8. p.ok /\ Accepts(ViewOf(p.cache), d2)
    <2> HIDE DEF p
    <2> QED
      BY <1>5, <1>7 DEF PlaybackStep, Playbacks
  <1>9. Accepts(View, d1)
    BY <1>1, <1>8 DEF PlaybackStep
  <1>10. p.cache = Apply(View, CmdOf(d1))
    <2>1. d1.key \in Key /\ CmdOf(d1).key = d1.key
      BY EditIsCmd DEF Change
    <2>2. View[d1.key] \in Entry /\ View[d1.key] # None
      BY <1>1, <2>1, TxAssumption DEF Configuration
    <2>3. p.cache = [View EXCEPT ![d1.key] = EditEffect(d1, View[d1.key])]
      BY <1>1, <1>9, <2>2 DEF PlaybackStep
    <2>4. EditEffect(d1, View[d1.key]) = Effect(CmdOf(d1).op, View[d1.key], CmdOf(d1).value)
      BY <2>2, EditIsCmd
    <2> HIDE DEF p
    <2> QED
      BY <2>1, <2>3, <2>4 DEF Apply
  <1>11. Apply(View, CmdOf(d1)) \in Configuration
    BY <1>1, ApplyType
  <1> QED
    BY <1>8, <1>9, <1>10, <1>11, ViewOfWhole

\* Rollback2SP: the playback of edits that CVL has accepted gives what their
\* commands make of redis.
LEMMA PlaybackRestores ==
    ASSUME TxShape, HGetAllSuffices, NEW N \in Nat, Paired(N), Accepted(N)
    PROVE  LET p == Playback(txTsEntryHGetAll, Prefix(cvlEditConfigData, N))
           IN  /\ p \in Playbacks
               /\ p.ok
               /\ ViewOf(p.cache) = Run(redis, Prefix(txCmds, N))
               /\ \A k \in Key : p.cache[k] # None => txTsEntryHGetAll[k] # None \/ Written(N, k)
  <1> DEFINE h == txTsEntryHGetAll
             P(n) == Playback(h, Prefix(cvlEditConfigData, n))
             R(n) == Run(redis, Prefix(txCmds, n))
             Good(n) == /\ P(n) \in Playbacks
                        /\ P(n).ok
                        /\ ViewOf(P(n).cache) = R(n)
                        /\ \A k \in Key : P(n).cache[k] # None <=> (h[k] # None \/ Written(n, k))
             T == {n \in Nat : n <= N => Good(n)}
  <1>0. /\ redis \in Configuration /\ h \in Cache
        /\ txCmds \in Seq(Command) /\ Len(txCmds) \in Nat /\ N <= Len(txCmds)
        /\ cvlEditConfigData \in Seq(Change) /\ Len(cvlEditConfigData) \in Nat /\ N <= Len(cvlEditConfigData)
    BY LenProperties DEF TxShape, Paired
  <1>1. 0 \in T
    <2>1. Prefix(cvlEditConfigData, 0) = <<>> /\ Prefix(txCmds, 0) = <<>>
      BY <1>0, PrefixFacts
    <2>2. P(0) = [cache |-> h, ok |-> TRUE]
      BY <1>0, <2>1, PlaybackOfNone
    <2>3. R(0) = redis
      BY <1>0, <2>1, RunEmpty
    <2>4. ViewOf(h) = redis
      BY <1>0 DEF HGetAllSuffices, ViewOf, Configuration
    <2>5. \A k \in Key : ~Written(0, k)
      BY DEF Written
    <2>6. Good(0)
      <3> HIDE DEF P, R, h
      <3> DEFINE s == [cache |-> h, ok |-> TRUE]
      <3>2. s \in Playbacks /\ s.ok /\ s.cache = h
        BY <1>0 DEF Playbacks
      <3>3. P(0) = s
        BY <2>2
      <3> HIDE DEF s
      <3>1. P(0) \in Playbacks /\ P(0).ok /\ P(0).cache = h
        BY <3>2, <3>3
      <3> QED
        BY <2>3, <2>4, <2>5, <3>1
    <2> HIDE DEF Good
    <2> QED
      BY <2>6
  <1>2. ASSUME NEW n \in T
        PROVE  n + 1 \in T
    <2>1. n \in Nat /\ n + 1 \in Nat /\ (n <= N => Good(n))
      OBVIOUS
    <2>2. ASSUME n + 1 <= N
          PROVE  Good(n + 1)
      <3> DEFINE d == cvlEditConfigData[n + 1]
                 c == txCmds[n + 1]
                 p == P(n)
                 k == d.key
                 e == EditEffect(d, IF p.cache[k] # None THEN p.cache[k] ELSE Empty)
      <3>1. n < Len(txCmds) /\ n < Len(cvlEditConfigData) /\ n \in 0..Len(txCmds)
              /\ n \in 0..Len(cvlEditConfigData) /\ n + 1 \in 1..N /\ n <= N
              /\ (n + 1) - 1 = n /\ n + 1 \in 1..Len(txCmds)
        BY <1>0, <2>1, <2>2
      <3>2. Good(n)
        BY <2>1, <3>1
      <3>3. /\ d \in Change
            /\ Prefix(cvlEditConfigData, n + 1) = Append(Prefix(cvlEditConfigData, n), d)
            /\ Prefix(cvlEditConfigData, n) \in Seq(Change)
            /\ c \in Command
            /\ Prefix(txCmds, n + 1) = Append(Prefix(txCmds, n), c)
            /\ Prefix(txCmds, n) \in Seq(Command)
        BY <1>0, <2>1, <3>1, PrefixStep, PrefixFacts
      <3>4. P(n + 1) = PlaybackStep(p, d)
        BY <1>0, <3>3, PlaybackOfOneMore
      <3>5. R(n + 1) = Apply(R(n), c) /\ R(n) \in Configuration
        BY <1>0, <3>3, RunAppend, RunType
      <3>6. c = CmdOf(d)
        BY <3>1 DEF Paired
      <3>7. Accepts(R(n), d)
        BY <3>1 DEF Accepted
      <3>8. \/ c.op = "Del" \/ h[c.key] # None \/ Written(n, c.key)
        BY <3>1 DEF HGetAllSuffices
      <3>9. \A x \in Key : Written(n + 1, x) <=> (Written(n, x) \/ c.key = x)
        BY <2>1 DEF Written
      <3> HIDE DEF P, R, h, d, c
      <3>10. p \in Playbacks /\ p.ok /\ ViewOf(p.cache) = R(n)
               /\ \A x \in Key : p.cache[x] # None <=> (h[x] # None \/ Written(n, x))
        BY <3>2
      <3> HIDE DEF p
      <3>11. k \in Key /\ c.key = k /\ p.cache \in Cache
               /\ p.cache[k] \in Entry \cup {None}
        BY <3>3, <3>6, <3>10, EditIsCmd DEF Playbacks, Change, Cache
      <3>12. e \in Entry /\ e # None
        BY <3>3, <3>11, EntryFacts, TxAssumption
      <3>13. P(n + 1) = [p EXCEPT !.cache[k] = e]
        BY <3>4, <3>7, <3>10 DEF PlaybackStep
      <3>14. e = Effect(c.op, R(n)[k], c.value)
        <4>1. CASE p.cache[k] # None
          <5>1. R(n)[k] = p.cache[k]
            BY <3>10, <3>11, <4>1 DEF ViewOf
          <5> QED
            BY <3>3, <3>6, <3>11, <4>1, <5>1, EditIsCmd
        <4>2. CASE p.cache[k] = None
          <5>1. c.op = "Del"
            BY <3>8, <3>10, <3>11, <4>2
          <5>2. e = Effect(c.op, Empty, c.value)
            BY <3>3, <3>6, <4>2, EditIsCmd, EntryFacts
          <5> QED
            BY <5>1, <5>2 DEF Effect
        <4> QED
          BY <4>1, <4>2
      <3> HIDE DEF e
      <3>15. P(n + 1) \in Playbacks
        BY <3>3, <3>4, <3>10, PlaybackStepType
      <3>16. P(n + 1).ok /\ P(n + 1).cache = [p.cache EXCEPT ![k] = e]
        BY <3>10, <3>13 DEF Playbacks
      <3>17. ViewOf(P(n + 1).cache) = R(n + 1)
        <4>1. R(n + 1) = [R(n) EXCEPT ![k] = e]
          BY <3>5, <3>11, <3>14 DEF Apply
        <4>2. \A x \in Key : ViewOf(P(n + 1).cache)[x] = IF x = k THEN e ELSE ViewOf(p.cache)[x]
          BY <3>11, <3>12, <3>16 DEF ViewOf, Cache
        <4>3. \A x \in Key : R(n + 1)[x] = IF x = k THEN e ELSE R(n)[x]
          BY <3>5, <3>11, <4>1 DEF Configuration
        <4>4. ViewOf(P(n + 1).cache) = [x \in Key |-> ViewOf(P(n + 1).cache)[x]]
          BY DEF ViewOf
        <4>5. R(n + 1) = [x \in Key |-> R(n + 1)[x]]
          BY <3>5, <4>1 DEF Configuration
        <4>6. \A x \in Key : ViewOf(P(n + 1).cache)[x] = R(n + 1)[x]
          BY <3>10, <4>2, <4>3
        <4> QED
          BY <4>4, <4>5, <4>6
      <3>18. \A x \in Key : P(n + 1).cache[x] # None <=> (h[x] # None \/ Written(n + 1, x))
        BY <3>9, <3>10, <3>11, <3>12, <3>16 DEF Cache
      <3> QED
        BY <3>15, <3>16, <3>17, <3>18
    <2> HIDE DEF Good
    <2> QED
      BY <2>1, <2>2
  <1>3. T = Nat
    <2>1. T \in SUBSET Nat
      OBVIOUS
    <2> HIDE DEF T
    <2> QED
      BY <1>1, <1>2, <2>1, NatSetInduction
  <1>4. Good(N)
    <2> HIDE DEF Good
    <2>1. \A n \in Nat : n <= N => Good(n)
      BY <1>3
    <2> QED
      BY <1>0, <2>1
  <1> QED
    BY <1>4

---------------------------------------------------------------------------
\* The invariant

LEMMA ConnectedStep ==
    ASSUME LoseInTx = FALSE, TxTypes, Connected, [Next]_vars
    PROVE  Connected'
  <1> USE DEF Connected
  <1>0. Len(txCmds) \in Nat /\ SubSeq(txCmds, 1, 0) = <<>>
    BY LenProperties, PrefixFacts DEF TxTypes, TxShape, Prefix
  <1>1. CASE startTx
    BY <1>1, TxAssumption DEF startTx, callVars, Idle, TxTypes, TxShape
  <1>2. CASE AppendWatchTx
    BY <1>2 DEF AppendWatchTx, callVars, Idle
  <1>3. CASE abortTx
    BY <1>3 DEF abortTx, ClearTx, Idle, TxTypes, TxShape
  <1>4. CASE ReopenDB
    BY <1>4 DEF ReopenDB, ClearTx, Idle, NewConnection
  <1>5. CASE AppCall
    <2>1. PICK writes \in Seq(PendingWrite) : Call(writes)
      BY <1>5, CallHasWrites DEF TxTypes
    <2> QED
      BY <2>1 DEF Call, txVars
  <1>6. CASE DoWrite
    <2>1. sent = None /\ sent' = None /\ conn' = conn
      BY <1>6 DEF DoWrite, TxTypes, Phases
    <2>2. txState' # "None" => txState # "None"
      BY <1>6 DEF DoWrite, txVars, WriteToTx
    <2> QED
      BY <2>1, <2>2
  <1>7. CASE DeclareSP \/ ReleaseSP
    BY <1>7 DEF DeclareSP, ReleaseSP, txVars, callVars
  <1>8. CASE Rollback2SP
    BY <1>8 DEF Rollback2SP, Idle
  <1>9. CASE CommitMulti
    <2>1. CASE CommitEnds /\ UNCHANGED conn
      BY <1>9, <2>1 DEF CommitMulti, CommitEnds, ClearTx, Idle
    <2>2. CASE txState # "None" /\ conn' = [conn EXCEPT !.multi = TRUE] /\ sent' = 0 /\ UNCHANGED txVars
      <3>1. conn.queue = <<>>
        BY <1>9 DEF CommitMulti, Idle
      <3> QED
        BY <1>0, <2>2, <3>1, TxAssumption DEF txVars, TxTypes, TxShape
    <2> QED
      BY <1>9, <2>1, <2>2 DEF CommitMulti
  <1>10. CASE CommitSend
    <2>1. sent \in Nat /\ sent < Len(txCmds) /\ sent # None /\ sent' = sent + 1 /\ sent + 1 # None
      BY <1>10, <1>0, TxAssumption DEF CommitSend, TxTypes, TxShape
    <2>2. SubSeq(txCmds, 1, sent + 1) = Append(SubSeq(txCmds, 1, sent), txCmds[sent + 1])
      BY <2>1, PrefixStep DEF TxTypes, TxShape, Prefix
    <2> QED
      BY <1>10, <2>1, <2>2 DEF CommitSend, txVars, TxTypes, TxShape
  <1>11. CASE CommitExec
    BY <1>11 DEF CommitExec, CommitEnds, ClearTx, NewConnection
  <1>12. ASSUME NEW k \in Key, NEW e \in Entry, OtherWrites(k, e)
         PROVE  Connected'
    BY <1>12 DEF OtherWrites, txVars, callVars, TxTypes, TxShape
  <1>13. CASE LoseConnection
    BY <1>13 DEF LoseConnection, txVars, callVars, NewConnection, TxTypes, Phases
  <1>14. CASE UNCHANGED vars
    BY <1>14 DEF vars, txVars, callVars
  <1> QED
    BY <1>1, <1>2, <1>3, <1>4, <1>5, <1>6, <1>7, <1>8, <1>9, <1>10, <1>11, <1>12, <1>13, <1>14 DEF Next

LEMMA NoCallIsKnown == KnownCall(<<>>)
  <1> DEFINE writes == <<>>
  <1>1. Len(writes) = 0
    OBVIOUS
  <1> HIDE DEF writes
  <1>2. KnownCall(writes)
    BY <1>1 DEF KnownCall
  <1> QED
    BY <1>2 DEF writes

LEMMA KnownTail ==
    ASSUME NEW writes \in Seq(PendingWrite), writes # <<>>, KnownCall(writes)
    PROVE  DropsFields(writes) \/ (KnownCall(Tail(writes)) /\ OneEdit(Head(writes)))
  <1>1. Len(Tail(writes)) = Len(writes) - 1 /\ \A i \in 1..Len(Tail(writes)) : Tail(writes)[i] = writes[i + 1]
    BY HeadTailProperties
  <1>2. Len(writes) \in Nat /\ Len(writes) # 0 /\ Head(writes) = writes[1]
    BY LenProperties, EmptySeq
  <1>3. ASSUME \A i \in 1..Len(writes) : OneEdit(writes[i])
        PROVE  KnownCall(Tail(writes)) /\ OneEdit(Head(writes))
    <2>1. 1 \in 1..Len(writes)
      BY <1>2
    <2>2. ASSUME NEW i \in 1..Len(Tail(writes))
          PROVE  OneEdit(Tail(writes)[i])
      <3>1. i + 1 \in 1..Len(writes)
        BY <1>1, <1>2
      <3> QED
        BY <1>1, <1>3, <3>1
    <2> QED
      BY <1>2, <1>3, <2>1, <2>2 DEF KnownCall
  <1> QED
    BY <1>3 DEF KnownCall

\* What is known of the first n edits and commands stays when more are appended.
LEMMA PairsStay ==
    ASSUME TxTypes, redis' = redis, NEW x \in Seq(Change), NEW n \in Nat,
           cvlEditConfigData' = cvlEditConfigData \o x,
           txCmds' = txCmds \/ \E c \in Command : txCmds' = Append(txCmds, c)
    PROVE  /\ Paired(n) => Paired(n)'
           /\ n <= Len(txCmds) + 1 /\ n <= Len(cvlEditConfigData) /\ Accepted(n) => Accepted(n)'
           /\ Len(cvlEditConfigData') = Len(cvlEditConfigData) + Len(x)
           /\ \A i \in 1..Len(cvlEditConfigData) : cvlEditConfigData'[i] = cvlEditConfigData[i]
           /\ \A i \in 1..Len(x) : cvlEditConfigData'[Len(cvlEditConfigData) + i] = x[i]
           /\ \A i \in 1..Len(txCmds) : txCmds'[i] = txCmds[i]
           /\ \A i \in 0..Len(txCmds) : Prefix(txCmds, i)' = Prefix(txCmds, i)
  <1>1. /\ txCmds \in Seq(Command) /\ Len(txCmds) \in Nat
        /\ cvlEditConfigData \in Seq(Change) /\ Len(cvlEditConfigData) \in Nat /\ Len(x) \in Nat
    BY LenProperties DEF TxTypes, TxShape
  <1>2. /\ Len(cvlEditConfigData') = Len(cvlEditConfigData) + Len(x)
        /\ \A i \in 1 .. Len(cvlEditConfigData) + Len(x) :
              cvlEditConfigData'[i] = IF i <= Len(cvlEditConfigData) THEN cvlEditConfigData[i]
                                      ELSE x[i - Len(cvlEditConfigData)]
    BY <1>1, ConcatProperties
  <1>3. \A i \in 1..Len(cvlEditConfigData) : cvlEditConfigData'[i] = cvlEditConfigData[i]
    BY <1>1, <1>2
  <1>4. \A i \in 1..Len(x) : cvlEditConfigData'[Len(cvlEditConfigData) + i] = x[i]
    <2> TAKE i \in 1..Len(x)
    <2>1. /\ Len(cvlEditConfigData) + i \in 1 .. Len(cvlEditConfigData) + Len(x)
          /\ ~(Len(cvlEditConfigData) + i <= Len(cvlEditConfigData))
          /\ (Len(cvlEditConfigData) + i) - Len(cvlEditConfigData) = i
      BY <1>1
    <2> QED
      BY <1>2, <2>1
  <1>5. /\ Len(txCmds') \in Nat /\ Len(txCmds') >= Len(txCmds)
        /\ \A i \in 1..Len(txCmds) : txCmds'[i] = txCmds[i]
    BY <1>1, AppendProperties
  <1>6. ASSUME NEW i \in 0..Len(txCmds)
        PROVE  Prefix(txCmds', i) = Prefix(txCmds, i)
    <2>1. ASSUME NEW c \in Command, txCmds' = Append(txCmds, c)
          PROVE  Prefix(txCmds', i) = Prefix(txCmds, i)
      BY <1>1, <2>1, PrefixOfAppend
    <2> QED
      BY <2>1
  <1>7. ASSUME Paired(n)
        PROVE  Paired(n)'
    <2>1. n <= Len(txCmds) /\ n <= Len(cvlEditConfigData)
           /\ \A i \in 1..n : txCmds[i] = CmdOf(cvlEditConfigData[i])
      BY <1>7 DEF Paired
    <2>2. n <= Len(txCmds') /\ n <= Len(cvlEditConfigData')
      BY <1>1, <1>2, <1>5, <2>1
    <2>3. ASSUME NEW i \in 1..n
          PROVE  txCmds'[i] = CmdOf(cvlEditConfigData'[i])
      <3>1. i \in 1..Len(txCmds) /\ i \in 1..Len(cvlEditConfigData)
        BY <1>1, <2>1
      <3> QED
        BY <1>3, <1>5, <2>1, <3>1
    <2> QED
      BY <2>2, <2>3 DEF Paired
  <1>8. ASSUME n <= Len(txCmds) + 1, n <= Len(cvlEditConfigData), Accepted(n)
        PROVE  Accepted(n)'
    <2>1. ASSUME NEW i \in 1..n
          PROVE  Accepts(Run(redis', Prefix(txCmds', i - 1)), cvlEditConfigData'[i])
      <3>1. i \in 1..Len(cvlEditConfigData) /\ i - 1 \in 0..Len(txCmds)
        BY <1>1, <1>8
      <3>2. Accepts(Run(redis, Prefix(txCmds, i - 1)), cvlEditConfigData[i])
        BY <1>8 DEF Accepted
      <3> QED
        BY <1>3, <1>6, <3>1, <3>2
    <2> QED
      BY <2>1 DEF Accepted
  <1> QED
    BY <1>2, <1>3, <1>4, <1>5, <1>6, <1>7, <1>8

\* DoWrite with its error, its limit and its two ways to write, in a transaction
\* that is live before and after.
LEMMA LiveWrite ==
    ASSUME TxTypes, Live, Live', DoWrite
    PROVE  /\ todo # <<>> /\ Head(todo) \in PendingWrite /\ Tail(todo) \in Seq(PendingWrite)
           /\ Head(todo) = todo[1] /\ Len(Tail(todo)) = Len(todo) - 1 /\ Len(todo) \in Nat \ {0}
           /\ redis' = redis /\ savePoint' = savePoint /\ ~failed /\ (IsSession => savePoint # None)
           /\ \/ /\ CallFails
                 /\ UNCHANGED txVars
              \/ /\ IsSession /\ AtTxCmdsLim
                 /\ cvlEditConfigData' = cvlEditConfigData \o Head(todo).edits
                 /\ CallFails
                 /\ UNCHANGED <<txCmds, txTsEntryMap, txTsEntryHGetAll>>
              \/ /\ CVLAccepts(Head(todo).edits) /\ ~AtTxCmdsLim
                 /\ cvlEditConfigData' = cvlEditConfigData \o Head(todo).edits
                 /\ WriteToTx(Head(todo).cmd)
                 /\ todo' = Tail(todo) /\ failed' = FALSE
  <1>1. todo # <<>> /\ todo \in Seq(PendingWrite) /\ ~err /\ txState # "None" /\ ~failed
    BY DEF DoWrite, Live, TxTypes, TxShape, Phases
  <1>2. /\ Head(todo) \in PendingWrite /\ Tail(todo) \in Seq(PendingWrite)
        /\ Head(todo) = todo[1] /\ Len(Tail(todo)) = Len(todo) - 1 /\ Len(todo) \in Nat \ {0}
    BY <1>1, HeadTailProperties, EmptySeq
  <1>3. failed \in BOOLEAN /\ (IsSession => savePoint # None)
    BY <1>1 DEF TxTypes, TxShape, Phases
  <1> QED
    BY <1>1, <1>2, <1>3 DEF DoWrite, txVars

\* The cache and the commands move together.
LEMMA WriteFollows ==
    ASSUME TxTypes, View = Run(redis, txCmds), redis' = redis, NEW c \in Command, WriteToTx(c)
    PROVE  /\ View' = Apply(View, c)
           /\ View' = Run(redis', txCmds')
  <1>1. redis \in Configuration /\ txCmds \in Seq(Command) /\ txTsEntryMap \in Cache
    BY DEF TxTypes, TxShape
  <1>2. View \in Configuration /\ c.key \in Key
    BY ViewType DEF TxTypes, Command
  <1>3. Effect(c.op, View[c.key], c.value) \in Entry
    BY <1>2, EntryFacts DEF Configuration
  <1>4. View' = Apply(View, c)
    <2> DEFINE e == Effect(c.op, View[c.key], c.value)
    <2>1. txTsEntryMap' = [txTsEntryMap EXCEPT ![c.key] = e]
      BY DEF WriteToTx
    <2>2. e # None
      BY <1>3, TxAssumption
    <2>3. View' = [k \in Key |-> IF txTsEntryMap'[k] # None THEN txTsEntryMap'[k] ELSE redis[k]]
      BY DEF View, ViewOf
    <2>4. View = [k \in Key |-> IF txTsEntryMap[k] # None THEN txTsEntryMap[k] ELSE redis[k]]
      BY DEF View, ViewOf
    <2>5. Apply(View, c) = [View EXCEPT ![c.key] = e]
      BY DEF Apply
    <2> DEFINE v == View
               w == View'
    <2> HIDE DEF e, v, w
    <2>6. v = [k \in Key |-> IF txTsEntryMap[k] # None THEN txTsEntryMap[k] ELSE redis[k]]
      BY <2>4 DEF v
    <2>7. w = [k \in Key |-> IF txTsEntryMap'[k] # None THEN txTsEntryMap'[k] ELSE redis[k]]
      BY <2>3 DEF w
    <2>8. w = [v EXCEPT ![c.key] = e]
      BY <1>1, <1>2, <2>1, <2>2, <2>6, <2>7 DEF Cache
    <2> QED
      BY <2>5, <2>8 DEF v, w
  <1>5. txCmds' = Append(txCmds, c)
    BY DEF WriteToTx
  <1>6. Run(redis, Append(txCmds, c)) = Apply(Run(redis, txCmds), c)
    BY <1>1, RunAppend
  <1> QED
    BY <1>4, <1>5, <1>6

LEMMA CacheFollowsStep ==
    ASSUME LoseInTx = FALSE, TxInv, [Next]_vars
    PROVE  CacheFollowsCmds'
  <1> SUFFICES ASSUME Live' PROVE View' = Run(redis', txCmds')
    BY DEF CacheFollowsCmds
  <1>types. TxTypes /\ TxShape /\ Phases /\ Connected
    BY DEF TxInv, TxTypes
  <1>same. ASSUME Live, UNCHANGED <<redis, txTsEntryMap, txCmds>>
           PROVE  View' = Run(redis', txCmds')
    BY <1>same DEF TxInv, CacheFollowsCmds, View, ViewOf
  <1>1. CASE startTx
    <2>1. txCmds' = <<>> /\ redis' = redis /\ txTsEntryMap' = NothingCached /\ redis \in Configuration
      BY <1>1, <1>types DEF startTx, Phases, TxShape
    <2>2. Run(redis, <<>>) = redis
      BY <2>1, RunEmpty
    <2>3. View' = redis
      BY <2>1 DEF View, ViewOf, NothingCached, Configuration
    <2> QED
      BY <2>1, <2>2, <2>3
  <1>2. CASE AppendWatchTx
    BY <1>2, <1>same DEF AppendWatchTx, Live
  <1>3. CASE abortTx \/ ReopenDB \/ CommitExec
    BY <1>3 DEF abortTx, ReopenDB, CommitExec, CommitEnds, ClearTx, Live
  <1>4. CASE AppCall
    <2>1. PICK writes \in Seq(PendingWrite) : Call(writes)
      BY <1>4, <1>types, CallHasWrites
    <2> QED
      BY <2>1, <1>same DEF Call, txVars, Live
  <1>5. CASE DoWrite
    <2>1. Live
      BY <1>5 DEF DoWrite, Live, txVars
    <2>2. View = Run(redis, txCmds)
      BY <2>1 DEF TxInv, CacheFollowsCmds
    <2>3. CASE UNCHANGED <<txCmds, txTsEntryMap>>
      BY <1>5, <1>same, <1>types, <2>1, <2>3, LiveWrite
    <2>4. CASE WriteToTx(Head(todo).cmd)
      <3>1. Head(todo).cmd \in Command /\ redis' = redis
        BY <1>5, <1>types, <2>1, LiveWrite DEF PendingWrite
      <3> QED
        BY <1>types, <2>2, <2>4, <3>1, WriteFollows
    <2> QED
      BY <1>5, <1>types, <2>1, <2>3, <2>4, LiveWrite DEF txVars
  <1>6. CASE DeclareSP \/ ReleaseSP
    BY <1>6, <1>same DEF DeclareSP, ReleaseSP, txVars, Live
  <1>7. CASE Rollback2SP
    <2>1. Live /\ redis' = redis
      BY <1>7, <1>types DEF Rollback2SP, Live, TxShape
    <2>2. savePoint # None /\ IsSession /\ savePoint.txCmdsLen \in Nat /\ savePoint.cECDLen = savePoint.txCmdsLen
            /\ Paired(savePoint.txCmdsLen) /\ Accepted(savePoint.txCmdsLen) /\ HGetAllSuffices
      BY <1>7, <1>types, <2>1 DEF Rollback2SP, TxInv, SessionInv, MarkHolds, TxShape
    <2>3. PICK N \in Nat : N = savePoint.txCmdsLen
      BY <2>2
    <2> DEFINE p == Playback(txTsEntryHGetAll, Prefix(cvlEditConfigData, N))
    <2>4. p.ok /\ ViewOf(p.cache) = Run(redis, Prefix(txCmds, N))
      BY <1>types, <2>2, <2>3, PlaybackRestores
    <2>5. txTsEntryMap' = p.cache /\ txCmds' = Prefix(txCmds, N)
      BY <1>7, <2>1, <2>2, <2>3 DEF Rollback2SP, Live, Prefix
    <2> HIDE DEF p
    <2>6. View' = ViewOf(p.cache)
      BY <2>1, <2>5 DEF View, ViewOf
    <2> QED
      BY <2>1, <2>4, <2>5, <2>6
  <1>8. CASE CommitMulti
    <2>1. CASE CommitEnds
      BY <2>1 DEF CommitEnds, ClearTx, Live
    <2>2. CASE conn' = [conn EXCEPT !.multi = TRUE] /\ UNCHANGED txVars
      <3>1. conn'.dirty = conn.dirty
        BY <1>types, <2>2 DEF TxShape
      <3> QED
        BY <1>8, <1>same, <2>2, <3>1 DEF CommitMulti, CommitEnds, txVars, Live
    <2> QED
      BY <1>8, <2>1, <2>2 DEF CommitMulti
  <1>9. CASE CommitSend
    BY <1>9, <1>same, <1>types DEF CommitSend, txVars, Live, Connected, TxShape
  <1>10. ASSUME NEW k \in Key, NEW e \in Entry, OtherWrites(k, e)
         PROVE  FALSE
    BY <1>10, <1>types DEF OtherWrites, txVars, Live, Connected, TxShape
  <1>11. CASE LoseConnection
    BY <1>11 DEF LoseConnection, txVars, Live
  <1>12. CASE UNCHANGED vars
    BY <1>12, <1>same DEF vars, txVars, Live
  <1> QED
    BY <1>1, <1>2, <1>3, <1>4, <1>5, <1>6, <1>7, <1>8, <1>9, <1>10, <1>11, <1>12 DEF Next

\* What a live session has before a step.
LEMMA SessionFacts ==
    ASSUME TxInv, IsSession, Live
    PROVE  /\ TxTypes /\ TxShape /\ Phases /\ Connected
           /\ redis \in Configuration
           /\ txCmds \in Seq(Command) /\ Len(txCmds) \in Nat
           /\ cvlEditConfigData \in Seq(Change) /\ Len(cvlEditConfigData) \in Nat
           /\ txTsEntryMap \in Cache /\ txTsEntryHGetAll \in Cache
           /\ View \in Configuration /\ View = Run(redis, txCmds)
           /\ InStep \/ OneAhead \/ CallIsLost
           /\ MarkHolds
           /\ HGetAllSuffices
           /\ savePoint # None =>
                 /\ savePoint \in [txCmdsLen : Nat, cECDLen : Nat]
                 /\ savePoint.txCmdsLen \in Nat /\ savePoint.cECDLen \in Nat
                 /\ savePoint.txCmdsLen <= Len(txCmds)
                 /\ savePoint.cECDLen <= Len(cvlEditConfigData)
  <1>1. TxTypes /\ TxShape /\ Phases /\ Connected
    BY DEF TxInv, TxTypes
  <1>2. redis \in Configuration /\ txCmds \in Seq(Command) /\ Len(txCmds) \in Nat
        /\ cvlEditConfigData \in Seq(Change) /\ Len(cvlEditConfigData) \in Nat
        /\ txTsEntryMap \in Cache /\ txTsEntryHGetAll \in Cache
    BY <1>1, LenProperties DEF TxShape
  <1>3. View \in Configuration
    BY <1>1, ViewType
  <1>4. View = Run(redis, txCmds)
    BY DEF TxInv, CacheFollowsCmds
  <1>5. (InStep \/ OneAhead \/ CallIsLost) /\ MarkHolds /\ HGetAllSuffices
    BY DEF TxInv, SessionInv
  <1>6. savePoint # None =>
           /\ savePoint \in [txCmdsLen : Nat, cECDLen : Nat]
           /\ savePoint.txCmdsLen \in Nat /\ savePoint.cECDLen \in Nat
           /\ savePoint.txCmdsLen <= Len(txCmds)
           /\ savePoint.cECDLen <= Len(cvlEditConfigData)
    BY <1>1 DEF TxShape
  <1> QED
    BY <1>1, <1>2, <1>3, <1>4, <1>5, <1>6

\* What is before the savepoint stays as it is while edits and commands are appended.
LEMMA MarkStays ==
    ASSUME TxInv, IsSession, Live, redis' = redis, savePoint' = savePoint, NEW x \in Seq(Change),
           cvlEditConfigData' = cvlEditConfigData \o x,
           txCmds' = txCmds \/ \E c \in Command : txCmds' = Append(txCmds, c)
    PROVE  MarkHolds'
  <1> SUFFICES ASSUME savePoint' # None
               PROVE  /\ savePoint'.cECDLen = savePoint'.txCmdsLen
                      /\ Paired(savePoint.txCmdsLen)'
                      /\ Accepted(savePoint.txCmdsLen)'
    BY DEF MarkHolds
  <1>1. /\ TxTypes /\ savePoint # None /\ savePoint.txCmdsLen \in Nat
        /\ savePoint.txCmdsLen <= Len(txCmds) /\ Len(txCmds) \in Nat
        /\ savePoint.cECDLen <= Len(cvlEditConfigData) /\ savePoint.cECDLen = savePoint.txCmdsLen
        /\ Paired(savePoint.txCmdsLen) /\ Accepted(savePoint.txCmdsLen)
    BY SessionFacts DEF MarkHolds
  <1>2. PICK n \in Nat : n = savePoint.txCmdsLen
    BY <1>1
  <1>3. Paired(n) /\ Accepted(n) /\ n <= Len(txCmds) + 1 /\ n <= Len(cvlEditConfigData)
    BY <1>1, <1>2
  <1>4. Paired(n)' /\ Accepted(n)'
    BY <1>1, <1>3, PairsStay
  <1>5. savePoint'.txCmdsLen = n
    BY <1>2
  <1> QED
    BY <1>1, <1>4, <1>5 DEF Paired, Accepted

\* doTxSPsaveHGetAll: a write to the candidate of a session keeps what
\* Rollback2SP will need.
LEMMA HGetAllStillSuffices ==
    ASSUME TxInv, IsSession, Live, savePoint # None, redis' = redis, NEW c \in Command, WriteToTx(c)
    PROVE  HGetAllSuffices'
  <1>f. /\ redis \in Configuration /\ txCmds \in Seq(Command) /\ Len(txCmds) \in Nat
        /\ txTsEntryMap \in Cache /\ txTsEntryHGetAll \in Cache /\ HGetAllSuffices
    BY SessionFacts
  <1>k. c.key \in Key
    BY DEF Command
  <1>n. PICK N \in Nat : N = Len(txCmds)
    BY <1>f
  <1>r. \A k \in Key : redis[k] # None
    BY <1>f, TxAssumption DEF Configuration
  <1>1. /\ Len(txCmds') = N + 1 /\ txCmds'[N + 1] = c
        /\ \A i \in 1..N : txCmds'[i] = txCmds[i]
    BY <1>f, <1>n, AppendProperties DEF WriteToTx
  <1>2. /\ \A k \in Key : k # c.key => txTsEntryMap'[k] = txTsEntryMap[k]
        /\ txTsEntryHGetAll' = txTsEntryHGetAll \/
           txTsEntryHGetAll' = [txTsEntryHGetAll EXCEPT ![c.key] = redis[c.key]]
        /\ c.op # "Del" /\ txTsEntryMap[c.key] = None =>
              txTsEntryHGetAll' = [txTsEntryHGetAll EXCEPT ![c.key] = redis[c.key]]
    BY <1>f, <1>k DEF WriteToTx, SaveHGetAll, Cache
  <1>3. /\ \A k \in Key : txTsEntryHGetAll'[k] \in {None, redis[k]}
        /\ \A k \in Key : txTsEntryHGetAll[k] # None => txTsEntryHGetAll'[k] # None
        /\ c.op # "Del" /\ txTsEntryMap[c.key] = None => txTsEntryHGetAll'[c.key] # None
    BY <1>f, <1>k, <1>r, <1>2 DEF HGetAllSuffices, Cache
  <1>4. /\ \A k \in Key : txTsEntryMap[k] # None =>
              txTsEntryHGetAll[k] # None \/ Written(N, k)
        /\ \A i \in 1 .. N :
              \/ txCmds[i].op = "Del"
              \/ txTsEntryHGetAll[txCmds[i].key] # None
              \/ Written(i - 1, txCmds[i].key)
    BY <1>f, <1>n DEF HGetAllSuffices
  <1> DEFINE Before(n, k) == \E i \in 1 .. n : txCmds[i].key = k
             After(n, k) == \E i \in 1 .. n : txCmds'[i].key = k
  <1>5. \A n \in 0 .. N, k \in Key : Before(n, k) => After(n, k)
    BY <1>1
  <1>6. \A k \in Key : Before(N, k) => After(N + 1, k)
    BY <1>1
  <1>7. After(N + 1, c.key)
    BY <1>1
  <1>8. /\ \A n, k : Written(n, k) <=> Before(n, k)
        /\ \A i \in 1 .. N : txCmds[i].key \in Key /\ i - 1 \in 0 .. N /\ N \in 0 .. N
    BY <1>f, <1>n, ElementOfSeq DEF Written, Command
  <1> HIDE DEF Before, After
  <1>9. \A k \in Key : txTsEntryMap'[k] # None => txTsEntryHGetAll'[k] # None \/ After(N + 1, k)
    BY <1>2, <1>3, <1>4, <1>6, <1>7, <1>8
  <1>10. ASSUME NEW i \in 1 .. N + 1
         PROVE  \/ txCmds'[i].op = "Del"
                \/ txTsEntryHGetAll'[txCmds'[i].key] # None
                \/ After(i - 1, txCmds'[i].key)
    <2>1. CASE i \in 1 .. N
      BY <1>1, <1>3, <1>4, <1>5, <1>8, <2>1
    <2>2. CASE i = N + 1
      <3>1. i - 1 = N
        BY <2>2
      <3>2. c.op = "Del" \/ txTsEntryHGetAll'[c.key] # None \/ After(N, c.key)
        BY <1>k, <1>3, <1>4, <1>5, <1>8
      <3> QED
        BY <1>1, <2>2, <3>1, <3>2
    <2> QED
      BY <2>1, <2>2
  <1> QED
    BY <1>1, <1>3, <1>9, <1>10 DEF HGetAllSuffices, Written, After

\* The write with which an edit and its command arrive, or the edit that came
\* before its command.
LEMMA WriteInStep ==
    ASSUME TxInv, IsSession, Live, redis' = redis, InStep \/ OneAhead,
           todo # <<>>, ~AtTxCmdsLim, CVLAccepts(Head(todo).edits),
           cvlEditConfigData' = cvlEditConfigData \o Head(todo).edits,
           WriteToTx(Head(todo).cmd), todo' = Tail(todo)
    PROVE  InStep' \/ OneAhead'
  <1>f. /\ TxTypes /\ TxShape /\ redis \in Configuration
        /\ txCmds \in Seq(Command) /\ Len(txCmds) \in Nat
        /\ cvlEditConfigData \in Seq(Change) /\ Len(cvlEditConfigData) \in Nat
        /\ View \in Configuration /\ View = Run(redis, txCmds)
        /\ todo \in Seq(PendingWrite)
    BY SessionFacts DEF TxShape
  <1>n. PICK N \in Nat : N = Len(txCmds)
    BY <1>f
  <1> DEFINE w == Head(todo)
             c == w.cmd
  <1>t. /\ w \in PendingWrite /\ Tail(todo) \in Seq(PendingWrite)
        /\ w = todo[1] /\ Len(todo) \in Nat \ {0} /\ Len(Tail(todo)) = Len(todo) - 1
        /\ \A i \in 1..Len(Tail(todo)) : Tail(todo)[i] = todo[i + 1]
        /\ \A i \in 1..Len(todo) : todo[i] \in PendingWrite
    BY <1>f, HeadTailProperties, EmptySeq, LenProperties, ElementOfSeq
  <1>w. w.edits \in Seq(Change) /\ Len(w.edits) \in Nat /\ c \in Command
        /\ \A i \in 1..Len(w.edits) : w.edits[i] \in Change
    BY <1>t, LenProperties, ElementOfSeq DEF PendingWrite
  <1>a. txCmds' = Append(txCmds, c)
    BY DEF WriteToTx
  <1>1. Len(txCmds') = N + 1 /\ txCmds'[N + 1] = c
    BY <1>a, <1>f, <1>n, <1>w, AppendProperties
  <1>s. \A n \in Nat :
           /\ Paired(n) => Paired(n)'
           /\ n <= N + 1 /\ n <= Len(cvlEditConfigData) /\ Accepted(n) => Accepted(n)'
    <2> TAKE n \in Nat
    <2> HIDE DEF c, w
    <2> QED
      BY <1>a, <1>f, <1>n, <1>w, PairsStay DEF w
  <1>2. /\ Len(cvlEditConfigData') = Len(cvlEditConfigData) + Len(w.edits)
        /\ \A i \in 1..Len(cvlEditConfigData) : cvlEditConfigData'[i] = cvlEditConfigData[i]
        /\ \A i \in 1..Len(w.edits) : cvlEditConfigData'[Len(cvlEditConfigData) + i] = w.edits[i]
        /\ \A i \in 0..N : Prefix(txCmds', i) = Prefix(txCmds, i)
    BY <1>a, <1>f, <1>n, <1>w, PairsStay
  <1>3. Prefix(txCmds', N) = txCmds /\ N \in 0..N
    BY <1>2, <1>f, <1>n, PrefixFacts
  <1>4. Prefix(txCmds', N + 1) = txCmds'
    <2>1. txCmds' \in Seq(Command)
      BY <1>a, <1>f, <1>w, AppendProperties
    <2> QED
      BY <1>1, <2>1, PrefixFacts
  <1>5. Run(redis', txCmds') = Apply(View, c)
    BY <1>a, <1>f, <1>w, RunAppend
  <1>6. CASE InStep /\ OneEdit(w) /\ KnownCall(Tail(todo))
    <2> DEFINE d == w.edits[1]
    <2>1. d \in Change /\ Len(w.edits) = 1 /\ c = CmdOf(d) /\ w.edits = <<d>>
      BY <1>w, <1>6 DEF OneEdit
    <2>2. Accepts(View, d)
      <3> HIDE DEF d
      <3> QED
        BY <1>f, <2>1, CVLAcceptsOne
    <2>3. /\ Len(cvlEditConfigData) = N /\ Paired(N) /\ Accepted(N)
      BY <1>n, <1>6 DEF InStep
    <2>4. Len(cvlEditConfigData') = N + 1 /\ cvlEditConfigData'[N + 1] = d
      BY <1>2, <1>n, <2>1, <2>3
    <2>5. Paired(N)' /\ Accepted(N)'
      BY <1>s, <2>3
    <2> HIDE DEF d, c, w
    <2>6. Paired(N + 1)'
      <3>1. ASSUME NEW i \in 1..N + 1
            PROVE  txCmds'[i] = CmdOf(cvlEditConfigData'[i])
        <4>0. i \in 1..N \/ i = N + 1
          OBVIOUS
        <4>1. CASE i \in 1..N
          BY <2>5, <4>1 DEF Paired
        <4>2. CASE i = N + 1
          BY <1>1, <2>1, <2>4, <4>2
        <4> QED
          BY <4>0, <4>1, <4>2
      <3> QED
        BY <1>1, <2>4, <3>1 DEF Paired
    <2>7. Accepted(N + 1)'
      <3>1. ASSUME NEW i \in 1..N + 1
            PROVE  Accepts(Run(redis', Prefix(txCmds', i - 1)), cvlEditConfigData'[i])
        <4>0. i \in 1..N \/ i = N + 1
          OBVIOUS
        <4>1. CASE i \in 1..N
          BY <2>5, <4>1 DEF Accepted
        <4>2. CASE i = N + 1
          <5>1. i - 1 = N
            BY <4>2
          <5> QED
            BY <1>3, <1>f, <2>2, <2>4, <4>2, <5>1
        <4> QED
          BY <4>0, <4>1, <4>2
      <3> QED
        BY <3>1 DEF Accepted
    <2> QED
      BY <1>1, <1>6, <2>4, <2>6, <2>7 DEF InStep, Paired, Accepted
  <1>7. CASE InStep /\ DropsFields(todo)
    <2> DEFINE d1 == w.edits[1]
               d2 == w.edits[2]
               second == todo[2]
    <2>1. /\ d1 \in Change /\ d2 \in Change /\ Len(w.edits) = 2 /\ w.edits = <<d1, d2>>
          /\ c = CmdOf(d1) /\ Len(todo) = 2
          /\ second.edits = <<>> /\ second.cmd = CmdOf(d2) /\ ~second.keepOn
      BY <1>t, <1>w, <1>7 DEF DropsFields
    <2>2. Len(Tail(todo)) = 1 /\ Tail(todo)[1] = second
      BY <1>t, <2>1
    <2> HIDE DEF d1, d2, second
    <2>3. Accepts(View, d1) /\ Accepts(Apply(View, c), d2)
      BY <1>f, <1>w, <2>1, CVLAcceptsTwo
    <2>4. Len(cvlEditConfigData) = N /\ Paired(N) /\ Accepted(N)
      BY <1>n, <1>7 DEF InStep
    <2>5. /\ Len(cvlEditConfigData') = N + 2
          /\ cvlEditConfigData'[N + 1] = d1 /\ cvlEditConfigData'[N + 2] = d2
      BY <1>2, <2>1, <2>4 DEF d1, d2
    <2>6. Paired(N)' /\ Accepted(N)'
      BY <1>s, <2>4
    <2> HIDE DEF c, w
    <2>7. Paired(N + 1)'
      <3>1. ASSUME NEW i \in 1..N + 1
            PROVE  txCmds'[i] = CmdOf(cvlEditConfigData'[i])
        <4>0. i \in 1..N \/ i = N + 1
          OBVIOUS
        <4>1. CASE i \in 1..N
          BY <2>6, <4>1 DEF Paired
        <4>2. CASE i = N + 1
          BY <1>1, <2>1, <2>5, <4>2
        <4> QED
          BY <4>0, <4>1, <4>2
      <3> QED
        BY <1>1, <2>5, <3>1 DEF Paired
    <2>8. Accepted(N + 2)'
      <3>1. ASSUME NEW i \in 1..N + 2
            PROVE  Accepts(Run(redis', Prefix(txCmds', i - 1)), cvlEditConfigData'[i])
        <4>0. i \in 1..N \/ i = N + 1 \/ i = N + 2
          OBVIOUS
        <4>1. CASE i \in 1..N
          BY <2>6, <4>1 DEF Accepted
        <4>2. CASE i = N + 1
          <5>1. i - 1 = N
            BY <4>2
          <5> QED
            BY <1>3, <1>f, <2>3, <2>5, <4>2, <5>1
        <4>3. CASE i = N + 2
          <5>1. i - 1 = N + 1
            BY <4>3
          <5> QED
            BY <1>4, <1>5, <2>3, <2>5, <4>3, <5>1
        <4> QED
          BY <4>0, <4>1, <4>2, <4>3
      <3> QED
        BY <3>1 DEF Accepted
    <2>9. N + 2 = (N + 1) + 1
      OBVIOUS
    <2>10. todo'[1].edits = <<>> /\ todo'[1].cmd = CmdOf(d2) /\ ~todo'[1].keepOn /\ Len(todo') = 1
      BY <2>1, <2>2
    <2> QED
      BY <1>1, <2>5, <2>7, <2>8, <2>9, <2>10 DEF OneAhead, Paired, Accepted
  <1>8. CASE OneAhead
    <2>1. /\ Len(cvlEditConfigData) = N + 1 /\ Paired(N) /\ Accepted(N + 1)
          /\ Len(todo) = 1 /\ w.edits = <<>> /\ c = CmdOf(cvlEditConfigData[N + 1])
      BY <1>n, <1>t, <1>8 DEF OneAhead
    <2>2. Len(w.edits) = 0
      BY <2>1
    <2>3. Len(cvlEditConfigData') = N + 1 /\ cvlEditConfigData'[N + 1] = cvlEditConfigData[N + 1]
      BY <1>2, <2>1, <2>2
    <2>4. Paired(N)' /\ Accepted(N + 1)'
      BY <1>s, <2>1
    <2> HIDE DEF c, w
    <2>5. Paired(N + 1)'
      <3>1. ASSUME NEW i \in 1..N + 1
            PROVE  txCmds'[i] = CmdOf(cvlEditConfigData'[i])
        <4>0. i \in 1..N \/ i = N + 1
          OBVIOUS
        <4>1. CASE i \in 1..N
          BY <2>4, <4>1 DEF Paired
        <4>2. CASE i = N + 1
          BY <1>1, <2>1, <2>3, <4>2
        <4> QED
          BY <4>0, <4>1, <4>2
      <3> QED
        BY <1>1, <2>3, <3>1 DEF Paired
    <2>6. Tail(todo) = <<>>
      BY <1>t, <2>1, EmptySeq
    <2>7. KnownCall(todo')
      BY <2>6, NoCallIsKnown
    <2> QED
      BY <1>1, <2>3, <2>4, <2>5, <2>7 DEF InStep, Paired, Accepted
  <1>9. InStep => DropsFields(todo) \/ (KnownCall(Tail(todo)) /\ OneEdit(w))
    BY <1>f, KnownTail DEF InStep
  <1> QED
    BY <1>6, <1>7, <1>8, <1>9

LEMMA SessionWrite ==
    ASSUME TxInv, IsSession, Live, Live', DoWrite
    PROVE  /\ (InStep \/ OneAhead \/ CallIsLost)'
           /\ MarkHolds'
           /\ HGetAllSuffices'
  <1>f. /\ TxTypes /\ redis \in Configuration
        /\ InStep \/ OneAhead \/ CallIsLost
        /\ MarkHolds /\ HGetAllSuffices
    BY SessionFacts
  <1>w. /\ todo # <<>> /\ Head(todo) \in PendingWrite /\ Tail(todo) \in Seq(PendingWrite)
        /\ Head(todo) = todo[1] /\ Len(Tail(todo)) = Len(todo) - 1 /\ Len(todo) \in Nat \ {0}
        /\ redis' = redis /\ savePoint' = savePoint /\ ~failed /\ savePoint # None
    BY <1>f, LiveWrite
  <1>e. Head(todo).edits \in Seq(Change) /\ Head(todo).cmd \in Command
    BY <1>w DEF PendingWrite
  <1>l. CallIsLost => AtTxCmdsLim
    BY <1>w DEF CallIsLost
  <1>c. ASSUME CallFails, UNCHANGED txCmds
        PROVE  /\ AtTxCmdsLim \/ failed' = TRUE => CallIsLost'
               /\ failed' = TRUE \/ (todo' = Tail(todo) /\ Head(todo).keepOn /\ Len(todo) > 1)
    <2>1. \/ failed' = TRUE
          \/ todo' = Tail(todo) /\ Head(todo).keepOn /\ Len(todo) > 1
      BY <1>w, <1>c DEF CallFails, PendingWrite
    <2>2. CASE failed' = TRUE
      BY <1>w, <2>2 DEF CallIsLost
    <2>3. CASE todo' = Tail(todo) /\ Head(todo).keepOn /\ Len(todo) > 1
      <3>1. todo' # <<>>
        <4>1. Len(Tail(todo)) # 0
          BY <1>w, <2>3
        <4> QED
          BY <1>w, <2>3, <4>1, EmptySeq
      <3> QED
        BY <1>c, <1>w, <2>1, <3>1 DEF CallIsLost, AtTxCmdsLim
    <2> QED
      BY <2>1, <2>2, <2>3
  <1>1. CASE CallFails /\ UNCHANGED txVars
    <2>1. MarkHolds' /\ HGetAllSuffices'
      BY <1>f, <1>w, <1>1 DEF txVars, MarkHolds, Paired, Accepted, HGetAllSuffices, Written
    <2>2. CASE failed' = TRUE \/ AtTxCmdsLim
      BY <1>c, <1>1, <2>1, <2>2 DEF txVars
    <2>3. CASE failed' # TRUE /\ ~AtTxCmdsLim
      <3>1. todo' = Tail(todo) /\ Head(todo).keepOn /\ Len(todo) > 1
        BY <1>c, <1>1, <2>3 DEF txVars
      <3>2. InStep
        BY <1>f, <1>l, <1>w, <2>3, <3>1 DEF OneAhead
      <3>3. KnownCall(todo')
        BY <1>w, <3>1, <3>2, KnownTail DEF InStep, DropsFields, TxTypes, TxShape
      <3> QED
        BY <1>1, <1>w, <2>1, <3>2, <3>3 DEF txVars, InStep, Paired, Accepted
    <2> QED
      BY <2>2, <2>3
  <1>2. CASE /\ AtTxCmdsLim
             /\ cvlEditConfigData' = cvlEditConfigData \o Head(todo).edits
             /\ CallFails
             /\ UNCHANGED <<txCmds, txTsEntryMap, txTsEntryHGetAll>>
    <2>1. CallIsLost'
      BY <1>c, <1>2
    <2>2. MarkHolds'
      BY <1>e, <1>w, <1>2, MarkStays
    <2>3. HGetAllSuffices'
      BY <1>f, <1>w, <1>2 DEF HGetAllSuffices, Written
    <2> QED
      BY <2>1, <2>2, <2>3
  <1>3. CASE /\ CVLAccepts(Head(todo).edits) /\ ~AtTxCmdsLim
             /\ cvlEditConfigData' = cvlEditConfigData \o Head(todo).edits
             /\ WriteToTx(Head(todo).cmd)
             /\ todo' = Tail(todo) /\ failed' = FALSE
    <2>1. InStep' \/ OneAhead'
      BY <1>f, <1>l, <1>w, <1>3, WriteInStep
    <2>2. txCmds' = Append(txCmds, Head(todo).cmd)
      BY <1>3 DEF WriteToTx
    <2>3. MarkHolds'
      BY <1>e, <1>w, <1>3, <2>2, MarkStays
    <2>4. HGetAllSuffices'
      BY <1>e, <1>w, <1>3, HGetAllStillSuffices
    <2> QED
      BY <2>1, <2>3, <2>4
  <1> QED
    BY <1>1, <1>2, <1>3, <1>f, LiveWrite

LEMMA SessionCall ==
    ASSUME TxInv, IsSession, Live, AppCall
    PROVE  /\ (InStep \/ OneAhead \/ CallIsLost)'
           /\ MarkHolds'
           /\ HGetAllSuffices'
  <1>f. /\ TxShape
        /\ InStep \/ OneAhead \/ CallIsLost
        /\ MarkHolds /\ HGetAllSuffices
    BY SessionFacts
  <1>1. PICK writes \in Seq(PendingWrite) : KnownCall(writes) /\ Call(writes)
    BY <1>f, CallHasWrites
  <1>2. todo = <<>> /\ ~failed /\ todo' = writes /\ UNCHANGED <<redis, txVars, savePoint>>
    BY <1>1 DEF Call, Idle
  <1>3. Len(todo) = 0
    BY <1>2
  <1>4. InStep
    BY <1>f, <1>2, <1>3 DEF OneAhead, CallIsLost
  <1>5. InStep'
    BY <1>1, <1>2, <1>4 DEF txVars, InStep, Paired, Accepted
  <1> QED
    BY <1>f, <1>2, <1>5 DEF txVars, MarkHolds, HGetAllSuffices, Paired, Accepted, Written

\* Rollback2SP goes back to edits and commands that are in step.
LEMMA SessionRollback ==
    ASSUME TxInv, IsSession, Live, Rollback2SP
    PROVE  /\ (InStep \/ OneAhead \/ CallIsLost)'
           /\ MarkHolds'
           /\ HGetAllSuffices'
           /\ err' = err
           /\ View' = AtSavePoint
  <1>f. /\ TxShape /\ redis \in Configuration
        /\ txCmds \in Seq(Command) /\ Len(txCmds) \in Nat
        /\ cvlEditConfigData \in Seq(Change) /\ Len(cvlEditConfigData) \in Nat
        /\ HGetAllSuffices
    BY SessionFacts
  <1>1. /\ savePoint # None /\ todo = <<>> /\ todo' = todo /\ savePoint' = None
        /\ redis' = redis /\ txTsEntryHGetAll' = txTsEntryHGetAll
    BY DEF Rollback2SP, Idle
  <1>2. /\ savePoint.txCmdsLen \in Nat /\ savePoint.cECDLen = savePoint.txCmdsLen
        /\ savePoint.txCmdsLen <= Len(txCmds) /\ savePoint.cECDLen <= Len(cvlEditConfigData)
        /\ Paired(savePoint.txCmdsLen) /\ Accepted(savePoint.txCmdsLen)
    BY <1>1, SessionFacts DEF MarkHolds
  <1>3. PICK n \in Nat : n = savePoint.txCmdsLen
    BY <1>2
  <1>4. n \in 0..Len(txCmds) /\ n \in 0..Len(cvlEditConfigData)
    BY <1>f, <1>2, <1>3
  <1>5. Paired(n) /\ Accepted(n)
    BY <1>2, <1>3
  <1> DEFINE p == Playback(txTsEntryHGetAll, Prefix(cvlEditConfigData, n))
  <1>6. /\ p.ok /\ ViewOf(p.cache) = Run(redis, Prefix(txCmds, n))
        /\ \A k \in Key : p.cache[k] # None => txTsEntryHGetAll[k] # None \/ Written(n, k)
    BY <1>f, <1>5, PlaybackRestores
  <1>7. /\ txTsEntryMap' = p.cache /\ txCmds' = Prefix(txCmds, n)
        /\ cvlEditConfigData' = Prefix(cvlEditConfigData, n)
        /\ err' = (err \/ ~p.ok)
    BY <1>2, <1>3, <1>6 DEF Rollback2SP, Live, Prefix
  <1> HIDE DEF p
  <1>8. /\ Len(txCmds') = n /\ \A i \in 1..n : txCmds'[i] = txCmds[i]
        /\ Len(cvlEditConfigData') = n
        /\ \A i \in 1..n : cvlEditConfigData'[i] = cvlEditConfigData[i]
    BY <1>f, <1>4, <1>7, PrefixFacts
  <1>9. \A i \in 1..n : Prefix(txCmds', i - 1) = Prefix(txCmds, i - 1)
    <2> TAKE i \in 1..n
    <2>1. i - 1 \in 0..n
      OBVIOUS
    <2> QED
      BY <1>f, <1>4, <1>7, <2>1, PrefixOfPrefix
  <1>10. InStep'
    <2>1. Paired(n)'
      BY <1>5, <1>8 DEF Paired
    <2>2. Accepted(n)'
      <3>1. ASSUME NEW i \in 1..n
            PROVE  Accepts(Run(redis', Prefix(txCmds', i - 1)), cvlEditConfigData'[i])
        BY <1>1, <1>5, <1>8, <1>9 DEF Accepted
      <3> QED
        BY <3>1 DEF Accepted
    <2>3. KnownCall(todo')
      BY <1>1, NoCallIsKnown
    <2> QED
      BY <1>8, <2>1, <2>2, <2>3 DEF InStep, Paired, Accepted
  <1>11. HGetAllSuffices'
    <2>1. \A m \in 0..n, k \in Key : Written(m, k) => \E i \in 1..m : txCmds'[i].key = k
      BY <1>8 DEF Written
    <2>2. /\ \A k \in Key : txTsEntryHGetAll[k] \in {None, redis[k]}
          /\ \A i \in 1 .. Len(txCmds) :
                \/ txCmds[i].op = "Del"
                \/ txTsEntryHGetAll[txCmds[i].key] # None
                \/ Written(i - 1, txCmds[i].key)
      BY <1>f DEF HGetAllSuffices
    <2>3. \A i \in 1..n : i \in 1..Len(txCmds) /\ i - 1 \in 0..n /\ n \in 0..n
      BY <1>f, <1>4
    <2>4. \A i \in 1..n : txCmds[i].key \in Key
      BY <1>f, <2>3, ElementOfSeq DEF Command
    <2>5. \A k \in Key : txTsEntryMap'[k] # None =>
             txTsEntryHGetAll[k] # None \/ \E i \in 1..n : txCmds'[i].key = k
      <3>1. n \in 0..n
        OBVIOUS
      <3> QED
        BY <1>6, <1>7, <2>1, <3>1
    <2>6. ASSUME NEW i \in 1..n
          PROVE  \/ txCmds'[i].op = "Del"
                 \/ txTsEntryHGetAll[txCmds'[i].key] # None
                 \/ \E j \in 1..(i - 1) : txCmds'[j].key = txCmds'[i].key
      BY <1>8, <2>1, <2>2, <2>3, <2>4
    <2> QED
      BY <1>1, <1>8, <2>2, <2>5, <2>6 DEF HGetAllSuffices, Written
  <1>12. MarkHolds'
    BY <1>1 DEF MarkHolds
  <1>13. err' = err
    BY <1>f, <1>6, <1>7 DEF Live, TxShape
  <1>14. View' = ViewOf(p.cache)
    BY <1>1, <1>7 DEF View, ViewOf
  <1>15. View' = AtSavePoint
    BY <1>3, <1>6, <1>14 DEF AtSavePoint, Prefix
  <1> QED
    BY <1>10, <1>11, <1>12, <1>13, <1>15

LEMMA SessionInvStep ==
    ASSUME LoseInTx = FALSE, TxInv, [Next]_vars
    PROVE  SessionInv'
  <1> SUFFICES ASSUME IsSession, Live'
               PROVE  /\ (InStep \/ OneAhead \/ CallIsLost)'
                      /\ MarkHolds'
                      /\ HGetAllSuffices'
    BY DEF SessionInv
  <1>types. TxTypes /\ TxShape /\ Phases /\ Connected
    BY DEF TxInv, TxTypes
  <1>same. ASSUME Live, UNCHANGED <<redis, txCmds, txTsEntryMap, txTsEntryHGetAll, cvlEditConfigData,
                                    savePoint, todo, failed>>
           PROVE  /\ (InStep \/ OneAhead \/ CallIsLost)'
                  /\ MarkHolds'
                  /\ HGetAllSuffices'
    <2>1. (InStep \/ OneAhead \/ CallIsLost) /\ MarkHolds /\ HGetAllSuffices
      BY <1>same, SessionFacts
    <2> QED
      BY <1>same, <2>1 DEF InStep, OneAhead, CallIsLost, MarkHolds, HGetAllSuffices,
                           Paired, Accepted, Written, AtTxCmdsLim
  <1>1. CASE startTx
    <2>1. /\ txCmds' = <<>> /\ cvlEditConfigData' = <<>> /\ todo' = <<>> /\ savePoint' = None
          /\ txTsEntryMap' = NothingCached /\ txTsEntryHGetAll' = NothingCached
      BY <1>1, <1>types DEF startTx, Phases, Idle, callVars
    <2>2. Len(txCmds') = 0 /\ Len(cvlEditConfigData') = 0
      BY <2>1
    <2>3. KnownCall(todo')
      BY <2>1, NoCallIsKnown
    <2>4. InStep'
      BY <2>2, <2>3 DEF InStep, Paired, Accepted
    <2>5. HGetAllSuffices'
      BY <2>1, <2>2 DEF HGetAllSuffices, NothingCached
    <2> QED
      BY <2>1, <2>4, <2>5 DEF MarkHolds
  <1>2. CASE AppendWatchTx
    BY <1>2 DEF AppendWatchTx
  <1>3. CASE abortTx \/ ReopenDB \/ CommitExec
    BY <1>3 DEF abortTx, ReopenDB, CommitExec, CommitEnds, ClearTx, Live
  <1>4. CASE AppCall
    <2>1. PICK writes \in Seq(PendingWrite) : Call(writes)
      BY <1>4, <1>types, CallHasWrites
    <2>2. Live
      BY <2>1 DEF Call, txVars, Live
    <2> QED
      BY <1>4, <2>2, SessionCall
  <1>5. CASE DoWrite
    <2>1. Live
      BY <1>5 DEF DoWrite, Live, txVars
    <2> QED
      BY <1>5, <2>1, SessionWrite
  <1>6. CASE DeclareSP
    <2>1. Live /\ UNCHANGED <<redis, txVars, callVars>> /\ todo = <<>> /\ ~failed
          /\ savePoint' = [txCmdsLen |-> Len(txCmds), cECDLen |-> Len(cvlEditConfigData)]
          /\ savePoint = None
      BY <1>6 DEF DeclareSP, txVars, Live, Idle
    <2>2. Len(todo) = 0
      BY <2>1
    <2>3. InStep /\ HGetAllSuffices
      BY <2>1, <2>2, SessionFacts DEF OneAhead, CallIsLost
    <2>4. InStep' /\ HGetAllSuffices'
      BY <2>1, <2>3 DEF txVars, callVars, InStep, HGetAllSuffices, Paired, Accepted, Written
    <2>5. MarkHolds'
      <3>1. savePoint'.txCmdsLen = Len(txCmds) /\ savePoint'.cECDLen = Len(cvlEditConfigData)
        BY <2>1
      <3> QED
        BY <2>1, <2>3, <3>1 DEF txVars, InStep, MarkHolds, Paired, Accepted
    <2> QED
      BY <2>4, <2>5
  <1>7. CASE ReleaseSP
    <2>1. Live /\ UNCHANGED <<redis, txVars, callVars>> /\ todo = <<>> /\ ~failed /\ savePoint' = None
      BY <1>7 DEF ReleaseSP, txVars, Live, Idle
    <2>2. Len(todo) = 0
      BY <2>1
    <2>3. InStep /\ HGetAllSuffices
      BY <2>1, <2>2, SessionFacts DEF OneAhead, CallIsLost
    <2> QED
      BY <2>1, <2>3 DEF txVars, callVars, InStep, HGetAllSuffices, Paired, Accepted, Written, MarkHolds
  <1>8. CASE Rollback2SP
    <2>1. Live
      BY <1>8, <1>types DEF Rollback2SP, Live, TxShape
    <2> QED
      BY <1>8, <2>1, SessionRollback
  <1>9. CASE CommitMulti
    <2>1. CASE CommitEnds
      BY <2>1 DEF CommitEnds, ClearTx, Live
    <2>2. CASE conn' = [conn EXCEPT !.multi = TRUE] /\ UNCHANGED <<redis, txVars, err, savePoint, todo, failed>>
      <3>1. conn'.dirty = conn.dirty
        BY <1>types, <2>2 DEF TxShape
      <3> QED
        BY <1>same, <2>2, <3>1 DEF txVars, Live
    <2> QED
      BY <1>9, <2>1, <2>2 DEF CommitMulti
  <1>10. CASE CommitSend
    <2>1. conn.multi
      BY <1>10, <1>types DEF CommitSend, Connected
    <2>2. conn'.dirty = conn.dirty /\ redis' = redis
      BY <1>10, <1>types, <2>1 DEF CommitSend, TxShape
    <2> QED
      BY <1>10, <1>same, <2>2 DEF CommitSend, txVars, Live
  <1>11. ASSUME NEW k \in Key, NEW e \in Entry, OtherWrites(k, e)
         PROVE  FALSE
    BY <1>11, <1>types DEF OtherWrites, txVars, Live, Connected, TxShape
  <1>12. CASE LoseConnection
    BY <1>12 DEF LoseConnection, txVars, Live
  <1>13. CASE UNCHANGED vars
    BY <1>13, <1>same DEF vars, txVars, callVars, Live
  <1> QED
    BY <1>1, <1>2, <1>3, <1>4, <1>5, <1>6, <1>7, <1>8, <1>9, <1>10, <1>11, <1>12, <1>13 DEF Next

LEMMA TxInvAlways ==
    ASSUME LoseInTx = FALSE
    PROVE  Spec => []TxInv
  <1>1. Init => TxInv
    <2> SUFFICES ASSUME Init PROVE TxInv
      OBVIOUS
    <2>1. TxTypes
      BY InitTypes
    <2>2. Connected
      BY DEF Init, Connected, NewConnection
    <2>3. CacheFollowsCmds /\ SessionInv
      BY DEF Init, CacheFollowsCmds, SessionInv, Live
    <2> QED
      BY <2>1, <2>2, <2>3 DEF TxInv
  <1>2. TxInv /\ [Next]_vars => TxInv'
    <2> SUFFICES ASSUME TxInv, [Next]_vars PROVE TxInv'
      OBVIOUS
    <2>1. TxTypes' /\ Connected'
      BY NextTypes, ConnectedStep DEF TxInv
    <2>2. CacheFollowsCmds' /\ SessionInv'
      BY CacheFollowsStep, SessionInvStep
    <2> QED
      BY <2>1, <2>2 DEF TxInv
  <1> QED
    BY <1>1, <1>2, PTL DEF Spec

---------------------------------------------------------------------------
\* The readers

LEMMA ReadersOfCache ==
    ASSUME TxShape, NEW K \in SUBSET Key
    PROVE  /\ GetEntries(K) = [k \in K |-> View[k]]
           /\ GetKeysPattern(K) = {k \in K : View[k] # Empty}
           /\ ExistKeysPattern(K) <=> {k \in K : View[k] # Empty} # {}
           /\ GetTablePattern(K) = [k \in {x \in K : View[x] # Empty} |-> View[k]]
  <1>1. \A k \in Key : View[k] = IF txTsEntryMap[k] # None THEN txTsEntryMap[k] ELSE redis[k]
    BY DEF View, ViewOf
  <1>2. \A k \in K : /\ k \in Key
                     /\ k \in Cached(K) <=> txTsEntryMap[k] # None
                     /\ k \in InRedis(K) <=> redis[k] # Empty
    BY DEF Cached, InRedis
  <1>3. Cached(K) \subseteq K /\ InRedis(K) \subseteq K
    BY DEF Cached, InRedis
  <1> HIDE DEF View
  <1>4. GetEntries(K) = [k \in K |-> View[k]]
    BY <1>1, <1>2 DEF GetEntries
  <1>5. GetKeysPattern(K) = {k \in K : View[k] # Empty}
    BY <1>1, <1>2, <1>3 DEF GetKeysPattern
  <1>6. ExistKeysPattern(K) <=> {k \in K : View[k] # Empty} # {}
    <2>1. \A k \in Cached(K) : txTsEntryMap[k] # Empty => k \in {x \in K : View[x] # Empty}
      BY <1>1, <1>2, <1>3
    <2> QED
      BY <1>5, <2>1 DEF ExistKeysPattern
  <1>7. GetTablePattern(K) = [k \in {x \in K : View[x] # Empty} |-> View[k]]
    <2> DEFINE read == [k \in InRedis(K) |-> redis[k]]
               gone == {k \in Cached(K) : txTsEntryMap[k] = Empty}
               new == Cached(K) \ gone
               D == new \cup (InRedis(K) \ gone)
    <2>1. GetTablePattern(K) = [k \in D |-> IF k \in new THEN txTsEntryMap[k] ELSE read[k]]
      BY DEF GetTablePattern
    <2>2. D = {x \in K : View[x] # Empty}
      BY <1>1, <1>2, <1>3
    <2>3. \A k \in D : (IF k \in new THEN txTsEntryMap[k] ELSE read[k]) = View[k]
      BY <1>1, <1>2, <1>3
    <2> HIDE DEF D, new, read
    <2> QED
      BY <2>1, <2>2, <2>3
  <1> QED
    BY <1>4, <1>5, <1>6, <1>7

(* All readers of a handle show the same entries: those of getEntry. Those that
   put the CAS Tx cache over redis do so in every state; GetConfig, which runs
   txCmds again, does as long as the transaction can commit, and then EXEC will
   leave just these entries. No connection is replaced inside a transaction. *)
THEOREM ReadersAgreeAlways ==
    ASSUME LoseInTx = FALSE
    PROVE  Spec => []ReadersAgree
  <1>1. TxInv => ReadersAgree
    <2> SUFFICES ASSUME TxInv PROVE ReadersAgree
      OBVIOUS
    <2>f. /\ TxShape /\ Phases /\ CacheFollowsCmds
          /\ redis \in Configuration /\ txCmds \in Seq(Command) /\ View \in Configuration
      BY ViewType DEF TxInv, TxTypes, TxShape
    <2> DEFINE there == {k \in Key : View[k] # Empty}
               shown(K) == [k \in K \cap there |-> View[k]]
    <2>1. ASSUME NEW K \in SUBSET Key
          PROVE  /\ GetEntries(K) = [k \in K |-> View[k]]
                 /\ GetKeysPattern(K) = DOMAIN shown(K)
                 /\ ExistKeysPattern(K) <=> DOMAIN shown(K) # {}
                 /\ GetTablePattern(K) = shown(K)
      <3>1. {k \in K : View[k] # Empty} = K \cap there
        OBVIOUS
      <3>2. DOMAIN shown(K) = K \cap there
        OBVIOUS
      <3>3. GetKeysPattern(K) = K \cap there /\ (ExistKeysPattern(K) <=> K \cap there # {})
        BY <2>f, <3>1, ReadersOfCache
      <3>4. GetTablePattern(K) = shown(K)
        BY <2>f, <3>1, ReadersOfCache
      <3>5. GetEntries(K) = [k \in K |-> View[k]]
        BY <2>f, ReadersOfCache
      <3> HIDE DEF shown, there
      <3> QED
        BY <3>2, <3>3, <3>4, <3>5
    <2>2. GetTable = shown(Key)
      <3>1. GetKeys = Key \cap there
        BY <2>f, ReadersOfCache DEF GetKeys
      <3> QED
        BY <3>1 DEF GetTable
    <2>3. ASSUME ~conn.dirty, ~err
          PROVE  View = Run(redis, txCmds)
      <3>1. CASE txState # "None"
        BY <2>f, <2>3, <3>1 DEF CacheFollowsCmds, Live
      <3>2. CASE txState = "None"
        <4>1. txCmds = <<>> /\ txTsEntryMap = NothingCached
          BY <2>f, <3>2 DEF Phases
        <4>2. View = redis
          BY <2>f, <4>1 DEF View, ViewOf, NothingCached, Configuration
        <4> QED
          BY <2>f, <4>1, <4>2, RunEmpty
      <3> QED
        BY <3>1, <3>2
    <2>4. ASSUME ~conn.dirty, ~err
          PROVE  GetConfig = shown(Key)
      <3>1. GetConfig = Merge(TableOf(redis), txCmds)
        BY DEF GetConfig, Merge, TableOf, InRedis
      <3>2. GetConfig = TableOf(View)
        BY <2>f, <2>3, <2>4, <3>1, MergeIsRun
      <3>3. TableOf(View) = shown(Key)
        <4>1. {k \in Key : View[k] # Empty} = Key \cap there
          OBVIOUS
        <4> QED
          BY <4>1 DEF TableOf
      <3> QED
        BY <3>2, <3>3
    <2> QED
      BY <2>1, <2>2, <2>3, <2>4 DEF ReadersAgree
  <1> QED
    BY <1>1, TxInvAlways, PTL

(* Rollback2SP validates edits again that CVL has accepted before. That fails
   only when another client has changed ConfigDB under the session: no sequence
   of calls that the app makes leads to it. No connection is replaced inside a
   transaction. *)
THEOREM PlaybackFailsOnlyIfOvertakenAlways ==
    ASSUME LoseInTx = FALSE
    PROVE  Spec => PlaybackFailsOnlyIfOvertaken
  <1>1. TxInv /\ [Next]_vars => [~err /\ err' => conn.dirty]_vars
    <2> SUFFICES ASSUME TxInv, Next, ~err, err', ~conn.dirty
                 PROVE  FALSE
      BY DEF vars
    <2>types. TxTypes /\ TxShape /\ Phases
      BY DEF TxInv, TxTypes
    <2>1. CASE Rollback2SP
      <3>1. CASE txState = "None"
        BY <2>1, <3>1 DEF Rollback2SP
      <3>2. CASE txState # "None"
        <4>1. Live /\ IsSession
          BY <2>1, <3>2 DEF Live, Rollback2SP
        <4>2. err' = err
          BY <2>1, <4>1, SessionRollback
        <4> QED
          BY <4>2
      <3> QED
        BY <3>1, <3>2
    <2>2. CASE AppCall
      <3>1. PICK writes \in Seq(PendingWrite) : Call(writes)
        BY <2>types, <2>2, CallHasWrites
      <3> QED
        BY <3>1 DEF Call
    <2>3. CASE \/ startTx \/ AppendWatchTx \/ abortTx \/ ReopenDB \/ DoWrite
               \/ DeclareSP \/ ReleaseSP
      BY <2>3 DEF startTx, AppendWatchTx, abortTx, ReopenDB, DoWrite, DeclareSP, ReleaseSP
    <2>4. CASE CommitMulti \/ CommitSend \/ CommitExec
      BY <2>4 DEF CommitMulti, CommitSend, CommitExec
    <2>5. CASE (\E k \in Key, e \in Entry : OtherWrites(k, e)) \/ LoseConnection
      BY <2>5 DEF OtherWrites, LoseConnection
    <2> QED
      BY <2>1, <2>2, <2>3, <2>4, <2>5 DEF Next
  <1> QED
    BY <1>1, TxInvAlways, PTL DEF Spec, PlaybackFailsOnlyIfOvertaken

---------------------------------------------------------------------------
\* The transaction as ConfigTransaction has it

\* What Rollback2SP would bring back.
Mark == IF savePoint = None THEN None ELSE AtSavePoint

LEMMA Seen ==
    ASSUME TxInv
    PROVE  /\ txState = "None" => TxSeen = Closed
           /\ txState # "None" /\ ~Live => TxSeen = Doomed
           /\ txState # "None" => TxSeen # Closed
           /\ Live => /\ TxSeen = [candidate |-> View, mark |-> Mark]
                      /\ TxSeen \notin {Closed, Doomed}
                      /\ View \in Configuration /\ View = Run(redis, txCmds)
                      /\ savePoint # None => AtSavePoint \in Configuration
                      /\ savePoint = None <=> Mark = None
  <1>1. txState = "None" => TxSeen = Closed
    BY DEF TxSeen
  <1>2. txState # "None" /\ ~Live => TxSeen = Doomed
    BY DEF TxSeen, Live, TxInv, TxTypes, TxShape
  <1>3. Live => TxSeen = [candidate |-> View, mark |-> Mark]
    BY DEF TxSeen, Live, Mark
  <1>4. /\ TxShape /\ redis \in Configuration /\ txCmds \in Seq(Command) /\ View \in Configuration
        /\ Len(txCmds) \in Nat
    BY ViewType, LenProperties DEF TxInv, TxTypes, TxShape
  <1>5. savePoint # None => AtSavePoint \in Configuration
    <2>1. SUFFICES ASSUME savePoint # None PROVE AtSavePoint \in Configuration
      OBVIOUS
    <2>2. savePoint.txCmdsLen \in 0..Len(txCmds)
      BY <1>4, <2>1 DEF TxShape
    <2>3. Prefix(txCmds, savePoint.txCmdsLen) \in Seq(Command)
      BY <1>4, <2>2, PrefixFacts
    <2> QED
      BY <1>4, <2>3, RunType DEF AtSavePoint, Prefix
  <1>6. savePoint = None <=> Mark = None
    BY <1>5, TxAssumption DEF Mark
  <1>7. [candidate |-> View, mark |-> Mark] \notin {Closed, Doomed}
    <2>1. Mark \in Configuration \cup {None}
      BY <1>5 DEF Mark
    <2> QED
      BY <1>4, <2>1, TxAssumption
  <1>8. Live => View = Run(redis, txCmds)
    BY DEF TxInv, CacheFollowsCmds
  <1>9. Closed # Doomed
    BY TxAssumption
  <1> QED
    BY <1>1, <1>2, <1>3, <1>4, <1>5, <1>6, <1>7, <1>8, <1>9

LEMMA SeenNext ==
    ASSUME TxTypes'
    PROVE  /\ txState' = "None" => TxSeen' = Closed
           /\ txState' # "None" /\ ~Live' => TxSeen' = Doomed
           /\ Live' => TxSeen' = [candidate |-> View', mark |-> Mark']
  <1>1. txState' = "None" => TxSeen' = Closed
    BY DEF TxSeen
  <1>2. txState' # "None" /\ ~Live' => TxSeen' = Doomed
    BY DEF TxSeen, Live, TxTypes, TxShape
  <1>3. Live' => TxSeen' = [candidate |-> View', mark |-> Mark']
    BY DEF TxSeen, Live, Mark
  <1> QED
    BY <1>1, <1>2, <1>3

LEMMA SeenSame ==
    ASSUME UNCHANGED <<redis, txCmds, txTsEntryMap, savePoint, err>>,
           conn'.dirty = conn.dirty, txState' = "None" <=> txState = "None"
    PROVE  UNCHANGED Transaction!vars
  BY DEF Transaction!vars, TxSeen, View, ViewOf, AtSavePoint

\* A write of the transaction is an Edit of the candidate.
LEMMA WriteImplements ==
    ASSUME TxInv, Live, Live', TxTypes', DoWrite
    PROVE  [Transaction!Next]_(Transaction!vars)
  <1>f. /\ TxTypes /\ TxShape /\ View \in Configuration /\ View = Run(redis, txCmds)
        /\ txCmds \in Seq(Command) /\ Len(txCmds) \in Nat
        /\ TxSeen = [candidate |-> View, mark |-> Mark] /\ TxSeen \notin {Closed, Doomed}
    BY Seen, LenProperties DEF TxInv, TxTypes, TxShape
  <1>w. redis' = redis /\ savePoint' = savePoint /\ Head(todo) \in PendingWrite
    BY <1>f, LiveWrite
  <1>s. conn' = conn /\ err' = err /\ txState # "None" /\ txState' # "None"
    BY DEF DoWrite, Live
  <1>1. CASE UNCHANGED <<txCmds, txTsEntryMap>>
    BY <1>w, <1>s, <1>1, SeenSame
  <1>2. CASE WriteToTx(Head(todo).cmd)
    <2> DEFINE c == Head(todo).cmd
               e == Effect(c.op, View[c.key], c.value)
    <2>1. c \in Command /\ c.key \in Key
      BY <1>w DEF PendingWrite, Command
    <2>2. e \in Entry
      BY <1>f, <2>1, EntryFacts DEF Configuration
    <2>3. View' = Apply(View, c)
      BY <1>f, <1>w, <1>2, <2>1, WriteFollows
    <2>4. View' = [View EXCEPT ![c.key] = e]
      BY <2>3 DEF Apply
    <2>5. Mark' = Mark
      <3>1. CASE savePoint = None
        BY <1>w, <3>1 DEF Mark
      <3>2. CASE savePoint # None
        <4>1. savePoint.txCmdsLen \in 0..Len(txCmds)
          BY <1>f, <3>2 DEF TxShape
        <4>2. txCmds' = Append(txCmds, c)
          BY <1>2 DEF WriteToTx
        <4>3. Prefix(txCmds', savePoint.txCmdsLen) = Prefix(txCmds, savePoint.txCmdsLen)
          BY <1>f, <2>1, <4>1, <4>2, PrefixOfAppend
        <4> QED
          BY <1>w, <3>2, <4>3 DEF Mark, AtSavePoint, Prefix
      <3> QED
        BY <3>1, <3>2
    <2>6. TxSeen' = [candidate |-> View', mark |-> Mark']
      BY SeenNext
    <2> HIDE DEF e, c
    <2>7. Transaction!Edit(c.key, e)
      <3> DEFINE seen == TxSeen
                 next == TxSeen'
                 v == View
                 m == Mark
                 k == c.key
      <3>1. seen = [candidate |-> v, mark |-> m]
        BY <1>f
      <3>2. next = [candidate |-> [v EXCEPT ![k] = e], mark |-> m]
        BY <2>4, <2>5, <2>6
      <3> HIDE DEF seen, next, v, m, k
      <3>3. next = [seen EXCEPT !.candidate[k] = e]
        BY <3>1, <3>2
      <3> QED
        BY <1>f, <1>w, <3>3 DEF Transaction!Edit, Transaction!Open, seen, next, k
    <2> QED
      BY <2>1, <2>2, <2>7 DEF Transaction!Next
  <1> QED
    BY <1>f, <1>1, <1>2, LiveWrite DEF txVars

\* DeclareSP, ReleaseSP and Rollback2SP of a transaction that can commit.
LEMMA SavePointImplements ==
    ASSUME TxInv, Live, TxTypes', DeclareSP \/ ReleaseSP \/ Rollback2SP
    PROVE  Transaction!Declare \/ Transaction!Release \/ Transaction!Rollback
  <1>f. /\ TxShape /\ View \in Configuration /\ View = Run(redis, txCmds)
        /\ txCmds \in Seq(Command)
        /\ TxSeen = [candidate |-> View, mark |-> Mark] /\ TxSeen \notin {Closed, Doomed}
        /\ savePoint = None <=> Mark = None
    BY Seen DEF TxInv, TxTypes, TxShape
  <1> DEFINE seen == TxSeen
             next == TxSeen'
             v == View
             m == Mark
  <1>seen. seen = [candidate |-> v, mark |-> m] /\ seen.candidate = v /\ seen.mark = m
    BY <1>f
  <1>1. CASE DeclareSP
    <2>1. /\ savePoint = None /\ UNCHANGED <<redis, txVars, err, conn>>
          /\ savePoint'.txCmdsLen = Len(txCmds)
          /\ savePoint' = [txCmdsLen |-> Len(txCmds), cECDLen |-> Len(cvlEditConfigData)]
      BY <1>1 DEF DeclareSP
    <2>2. Live' /\ View' = View
      BY <2>1 DEF Live, View, ViewOf, txVars
    <2>3. Prefix(txCmds, Len(txCmds)) = txCmds
      BY <1>f, PrefixFacts
    <2>4. AtSavePoint' = View
      BY <1>f, <2>1, <2>3 DEF AtSavePoint, Prefix, txVars
    <2>5. savePoint' # None
      <3>1. savePoint' \in [txCmdsLen : Nat, cECDLen : Nat]
        BY <1>f, <2>1, LenProperties DEF TxShape
      <3> QED
        BY <3>1, TxAssumption
    <2>6. Mark' = View
      BY <2>4, <2>5 DEF Mark
    <2>7. next = [candidate |-> v, mark |-> v]
      BY <2>2, <2>6, SeenNext
    <2> HIDE DEF seen, next, v, m
    <2>8. next = [seen EXCEPT !.mark = seen.candidate]
      BY <1>seen, <2>7
    <2> QED
      BY <1>f, <1>seen, <2>1, <2>8 DEF Transaction!Declare, Transaction!Open, seen, next, m
  <1>2. CASE ReleaseSP
    <2>1. savePoint # None /\ savePoint' = None /\ UNCHANGED <<redis, txVars, err, conn>>
      BY <1>2 DEF ReleaseSP
    <2>2. Live' /\ View' = View /\ Mark' = None
      BY <2>1 DEF Live, View, ViewOf, txVars, Mark
    <2>3. next = [candidate |-> v, mark |-> None]
      BY <2>2, SeenNext
    <2> HIDE DEF seen, next, v, m
    <2>4. next = [seen EXCEPT !.mark = None]
      BY <1>seen, <2>3
    <2> QED
      BY <1>f, <1>seen, <2>1, <2>4 DEF Transaction!Release, Transaction!Open, seen, next, m
  <1>3. CASE Rollback2SP
    <2>1. /\ IsSession /\ savePoint # None /\ savePoint' = None
          /\ UNCHANGED <<redis, txState, conn>>
      BY <1>3 DEF Rollback2SP
    <2>2. err' = err /\ View' = AtSavePoint
      BY <1>3, <2>1, SessionRollback
    <2>3. Live' /\ Mark' = None /\ Mark = AtSavePoint
      BY <2>1, <2>2 DEF Live, Mark
    <2>4. next = [candidate |-> m, mark |-> None]
      BY <2>2, <2>3, SeenNext
    <2> HIDE DEF seen, next, v, m
    <2>5. next = [candidate |-> seen.mark, mark |-> None]
      BY <1>seen, <2>4
    <2> QED
      BY <1>f, <1>seen, <2>1, <2>5 DEF Transaction!Rollback, Transaction!Open, seen, next, m
  <1> QED
    BY <1>1, <1>2, <1>3

LEMMA StepImplements ==
    ASSUME LoseInTx = FALSE, TxInv, TxTypes', [Next]_vars
    PROVE  [Transaction!Next]_(Transaction!vars)
  <1>types. /\ TxTypes /\ TxShape /\ Phases /\ Connected
            /\ redis \in Configuration
    BY DEF TxInv, TxTypes, TxShape
  <1>1. CASE startTx
    <2>1. TxSeen = Closed /\ redis' = redis /\ txState' # "None"
      BY <1>1, Seen DEF startTx
    <2>2. CASE ~Live'
      BY <2>1, <2>2, SeenNext DEF Transaction!Next, Transaction!Begin
    <2>3. CASE Live'
      <3>1. View' = redis
        BY <1>1, <1>types DEF startTx, View, ViewOf, NothingCached, Configuration
      <3>2. Mark' = None
        BY <1>1, <1>types DEF startTx, Mark
      <3>3. TxSeen' = [candidate |-> redis, mark |-> None]
        BY <2>3, <3>1, <3>2, SeenNext
      <3> QED
        BY <2>1, <3>3 DEF Transaction!Next, Transaction!Begin
    <2> QED
      BY <2>2, <2>3
  <1>2. CASE AppendWatchTx
    BY <1>2, SeenSame DEF AppendWatchTx
  <1>3. CASE abortTx \/ ReopenDB
    <2>1. redis' = redis /\ TxSeen' = Closed
      BY <1>3, SeenNext DEF abortTx, ReopenDB, ClearTx
    <2> QED
      BY <2>1 DEF Transaction!Next, Transaction!Discard, Transaction!vars
  <1>4. CASE AppCall
    <2>1. PICK writes \in Seq(PendingWrite) : Call(writes)
      BY <1>4, <1>types, CallHasWrites
    <2> QED
      BY <2>1, SeenSame DEF Call, txVars
  <1>5. CASE DoWrite
    <2>1. conn' = conn /\ err' = err /\ savePoint' = savePoint /\ (txState' = "None" <=> txState = "None")
      BY <1>5 DEF DoWrite, txVars, WriteToTx
    <2>2. CASE txState = "None"
      <3>1. TxSeen = Closed /\ TxSeen' = Closed
        BY <2>1, <2>2, Seen, SeenNext
      <3>2. CASE redis' = redis
        BY <3>1, <3>2 DEF Transaction!vars
      <3>3. CASE redis' = Apply(redis, Head(todo).cmd)
        <4> DEFINE c == Head(todo).cmd
                   e == Effect(c.op, redis[c.key], c.value)
        <4>1. Head(todo) \in PendingWrite
          BY <1>5, <1>types, HeadTailProperties DEF DoWrite, TxShape
        <4>2. c \in Command /\ c.key \in Key
          BY <4>1 DEF PendingWrite, Command
        <4>3. e \in Entry
          BY <1>types, <4>2, EntryFacts DEF Configuration
        <4>4. redis' = [redis EXCEPT ![c.key] = e]
          BY <3>3 DEF Apply
        <4> HIDE DEF c, e
        <4>5. Transaction!DirectWrite(c.key, e)
          BY <3>1, <4>4 DEF Transaction!DirectWrite
        <4> QED
          BY <4>2, <4>3, <4>5 DEF Transaction!Next
      <3> QED
        BY <1>5, <2>2, <3>2, <3>3 DEF DoWrite
    <2>3. CASE txState # "None" /\ ~Live
      <3>1. TxSeen = Doomed /\ TxSeen' = Doomed
        BY <2>1, <2>3, Seen, SeenNext DEF Live
      <3>2. redis' = redis
        BY <1>5, <2>3 DEF DoWrite
      <3> QED
        BY <3>1, <3>2 DEF Transaction!vars
    <2>4. CASE Live
      <3>1. Live'
        BY <2>1, <2>4 DEF Live
      <3> QED
        BY <1>5, <2>4, <3>1, WriteImplements
    <2> QED
      BY <2>2, <2>3, <2>4
  <1>6. CASE DeclareSP \/ ReleaseSP \/ Rollback2SP
    <2>1. CASE Live
      BY <1>6, <2>1, SavePointImplements DEF Transaction!Next
    <2>2. CASE ~Live
      <3>1. UNCHANGED <<redis, txState, conn>> /\ (err => err')
        BY <1>6, <1>types DEF DeclareSP, ReleaseSP, Rollback2SP, txVars, TxShape
      <3>2. txState # "None" => ~Live'
        BY <2>2, <3>1 DEF Live
      <3>3. TxSeen' = TxSeen
        BY <2>2, <3>1, <3>2, Seen, SeenNext
      <3> QED
        BY <3>1, <3>3 DEF Transaction!vars
    <2> QED
      BY <2>1, <2>2
  <1>7. CASE CommitMulti
    <2>1. CASE CommitEnds /\ UNCHANGED redis
      <3>1. TxSeen' = Closed
        BY <2>1, SeenNext DEF CommitEnds, ClearTx
      <3> QED
        BY <2>1, <3>1 DEF Transaction!Next, Transaction!Discard, Transaction!vars
    <2>2. CASE conn' = [conn EXCEPT !.multi = TRUE] /\ UNCHANGED <<redis, txVars, err, savePoint>>
      <3>1. conn'.dirty = conn.dirty
        BY <1>types, <2>2 DEF TxShape
      <3> QED
        BY <2>2, <3>1, SeenSame DEF txVars
    <2> QED
      BY <1>7, <2>1, <2>2 DEF CommitMulti
  <1>8. CASE CommitSend
    <2>1. conn.multi
      BY <1>8, <1>types DEF CommitSend, Connected
    <2>2. conn'.dirty = conn.dirty /\ redis' = redis
      BY <1>8, <1>types, <2>1 DEF CommitSend, TxShape
    <2> QED
      BY <1>8, <2>2, SeenSame DEF CommitSend, txVars
  <1>9. CASE CommitExec
    <2>1. /\ TxSeen' = Closed /\ txState # "None" /\ ~err /\ conn.multi
          /\ conn.queue = SubSeq(txCmds, 1, Len(txCmds))
      BY <1>9, <1>types, SeenNext DEF CommitExec, CommitEnds, ClearTx, Phases, Connected
    <2>2. conn.queue = txCmds
      BY <1>types, <2>1, PrefixFacts DEF Prefix, TxShape
    <2>3. CASE conn.dirty
      <3>1. redis' = redis /\ TxSeen = Doomed
        BY <1>9, <2>1, <2>3, Seen DEF CommitExec, Live
      <3> QED
        BY <2>1, <3>1, TxAssumption DEF Transaction!Next, Transaction!Discard
    <2>4. CASE ~conn.dirty
      <3>1. Live
        BY <2>1, <2>4 DEF Live
      <3>2. TxSeen = [candidate |-> View, mark |-> Mark] /\ TxSeen \notin {Closed, Doomed}
              /\ View = Run(redis, txCmds)
        BY <3>1, Seen
      <3>3. redis' = View
        BY <1>9, <2>1, <2>2, <2>4, <3>2 DEF CommitExec
      <3> DEFINE seen == TxSeen
      <3>4. seen.candidate = View
        BY <3>2
      <3> HIDE DEF seen
      <3>5. Transaction!Commit
        BY <2>1, <3>2, <3>3, <3>4 DEF Transaction!Commit, Transaction!Open, seen
      <3> QED
        BY <3>5 DEF Transaction!Next
    <2> QED
      BY <2>3, <2>4
  <1>10. ASSUME NEW k \in Key, NEW e \in Entry, OtherWrites(k, e)
         PROVE  [Transaction!Next]_(Transaction!vars)
    <2>1. redis' = [redis EXCEPT ![k] = e] /\ txState' = txState
      BY <1>10 DEF OtherWrites, txVars
    <2>2. CASE txState = "None"
      BY <2>1, <2>2, Seen, SeenNext DEF Transaction!Next, Transaction!Overtake
    <2>3. CASE txState # "None"
      <3>1. conn'.dirty
        BY <1>10, <1>types, <2>3 DEF OtherWrites, Connected, TxShape
      <3>2. ~Live' /\ TxSeen # Closed
        BY <2>3, <3>1, Seen DEF Live
      <3> QED
        BY <2>1, <2>3, <3>2, SeenNext DEF Transaction!Next, Transaction!Overtake
    <2> QED
      BY <2>2, <2>3
  <1>11. CASE LoseConnection
    <2>1. txState = "None" /\ txState' = "None" /\ redis' = redis
      BY <1>11 DEF LoseConnection, txVars
    <2> QED
      BY <2>1, Seen, SeenNext DEF Transaction!vars
  <1>12. CASE UNCHANGED vars
    BY <1>12, SeenSame DEF vars, txVars
  <1> QED
    BY <1>1, <1>2, <1>3, <1>4, <1>5, <1>6, <1>7, <1>8, <1>9, <1>10, <1>11, <1>12 DEF Next

(* A transaction commits as a whole or not at all, what it commits is what the
   app read and CVL validated, Rollback2SP brings back the candidate of
   DeclareSP, and a transaction that another client has overtaken does not
   commit. No connection is replaced inside a transaction: translib/db does not
   implement ConfigTransaction when go-redis may do so. *)
THEOREM TransactionImplements ==
    ASSUME LoseInTx = FALSE
    PROVE  Spec => ImplementsConfigTransaction
  <1>1. Init => Transaction!Init
    BY DEF Init, Transaction!Init, Transaction!Configuration, Configuration, TxSeen
  <1>2. TxInv /\ TxTypes' /\ [Next]_vars => [Transaction!Next]_(Transaction!vars)
    BY StepImplements
  <1> QED
    BY <1>1, <1>2, TxInvAlways, TxTypesAlways, PTL
       DEF Spec, ImplementsConfigTransaction, Transaction!Spec
=============================================================================
