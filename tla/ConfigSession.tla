---------------------------- MODULE ConfigSession ---------------------------
(***************************************************************************)
(* The Config Session (translib/cs): requests of several terminals on the  *)
(* one session uCS, the goroutine that waits for the confirmation of a     *)
(* commit, another process that writes ConfigDB, and crashes.              *)
(*                                                                         *)
(* A request copies uCS (GetSession) and then decides on the copy. Each    *)
(* helper locks csMutex for itself and acts on whatever uCS is by then.    *)
(* The session's edits are one candidate configuration here; DBTransaction *)
(* has the detail. The ConfigDB lock is its holder; see ConfigDBLock.      *)
(***************************************************************************)
EXTENDS Naturals, FiniteSets

CONSTANTS
    Terminal,       \* CLI terminals, each with the pid of its own
    Config,         \* ConfigDB configurations
    None,           \* nil, no value
    Free, Writer,   \* values of the lock that are not session tokens
    MaxTokens,      \* bound: sessions that are created
    Strict,         \* requests but Kill come with GSOstrict
    Timers,         \* commits with a timeout are requested
    Patient,        \* no Abort while the session shows ROLLBACK IN PROGRESS
    HostFaults,     \* cfg_mgmt.save may fail
    LockFaults,     \* ConfigDBUnlock may fail
    MaxCrash        \* bound: crashes of the server

Token == 1 .. MaxTokens
Op == {"Start", "Exit", "Commit", "CommitTimer", "Confirm", "Abort", "Kill", "Write"}
Session == [token : Token, state : {"Active", "Suspended"},
            pid : Terminal \cup {None},
            commitState : {"None", "ConfirmTimer", "RollbackReplace"},
            rollbackCfg : Config \cup {None},
            commitTimer : Token \cup {None}, commitCh : Token \cup {None}]

ASSUME SessionAssumption ==
    /\ MaxTokens \in Nat \ {0} /\ MaxCrash \in Nat
    /\ {Strict, Timers, Patient, HostFaults, LockFaults} \subseteq BOOLEAN
    /\ None \notin Config \cup Terminal \cup Token \cup Session
    /\ Free # Writer /\ {Free, Writer} \cap Token = {}

VARIABLES
    running,    \* ConfigDB, the running configuration
    lock,       \* holder of the ConfigDB lock: Free, Writer or a token
    up,         \* the server runs
    alive,      \* terminals whose process runs
    tokens,     \* csTokenCtr
    uCS,        \* the Config Session, or None
    csMutex,    \* the request inside newCS, or None
    ccDB,       \* the session's DB handle, by token
    req,        \* the requests: next step, copy of uCS, and local variables
    routine,    \* processCommitTimer's timer and goroutine, by token
    undo,       \* history: what a commit to be confirmed has replaced
    leaked,     \* history: the session whose ConfigDBUnlock has failed
    crashes     \* crashes so far

dbVars == <<running, lock, ccDB>>
server == <<up, alive, tokens, csMutex>>
history == <<undo, leaked, crashes>>
vars == <<dbVars, server, uCS, req, routine, history>>

---------------------------------------------------------------------------
\* Data

NewSession(t, c) ==
    [token |-> t, state |-> "Active", pid |-> c, commitState |-> "None",
     rollbackCfg |-> None, commitTimer |-> None, commitCh |-> None]

CandidateDB == [open : BOOLEAN, tx : BOOLEAN, dirty : BOOLEAN,
                candidate : {None} \cup Config]
ClosedDB == [open |-> FALSE, tx |-> FALSE, dirty |-> FALSE, candidate |-> None]
WatchingDB == [ClosedDB EXCEPT !.open = TRUE, !.tx = TRUE]

IsActive == uCS # None /\ uCS.state = "Active"
IsPidActive(s) == s.pid # None /\ s.pid \in alive

\* at: the next step; sess: the copy of uCS; saved: the rollback configuration;
\* mine: the session that commitCS has committed.
NoRequest == [at |-> "idle", op |-> None, sess |-> None, saved |-> None, mine |-> None]
RequestStep ==
    {"idle", "newCSWatch", "newCSLock", "suspend", "suspendStale", "resume",
     "save", "setRollback", "commitCS", "startTimer", "setCh",
     "stopTimer", "send", "cpHistory", "cleanCS", "reload", "deleteCS", "write"}
ActionRequest == [at : RequestStep, op : {None} \cup Op, sess : {None} \cup Session,
                  saved : {None} \cup Config, mine : {None} \cup Token]

\* timer: whether commitTimer has not been stopped.
NoRoutine == [at |-> "none", timer |-> FALSE, rollbackCfg |-> None]
RoutineStep == {"none", "waiting", "setState", "reload", "cleanCS", "ended"}
TimerRoutine == [at : RoutineStep, timer : BOOLEAN, rollbackCfg : {None} \cup Config]

\* The request is at a step that is its own, or takes csMutex.
At(c, label) == up /\ req[c].at = label
AtLocked(c, label) == At(c, label) /\ csMutex = None
Goto(c, label) == req' = [req EXCEPT ![c].at = label]
Done(c) == req' = [req EXCEPT ![c] = NoRequest]

Unlock(t) ==
    \/ lock' = (IF lock = t THEN Free ELSE lock) /\ UNCHANGED leaked
    \/ LockFaults /\ lock = t /\ leaked' = t /\ UNCHANGED lock

\* Mutant: the unlock is left out.
EndSessionLocked ==
    /\ ccDB' = [ccDB EXCEPT ![uCS.token] = ClosedDB]
    /\ UNCHANGED <<lock, leaked>>
    /\ uCS' = None

\* The session is over: DeleteDB, ConfigDBUnlock, uCS = nil.
EndSession ==
    /\ ccDB' = [ccDB EXCEPT ![uCS.token] = ClosedDB]
    /\ Unlock(uCS.token)
    /\ uCS' = None

Dirty == [t \in Token |-> [ccDB[t] EXCEPT !.dirty = @ \/ ccDB[t].tx]]

Init ==
    /\ running \in Config
    /\ lock = Free
    /\ up = TRUE /\ alive = Terminal /\ tokens = 0
    /\ uCS = None /\ csMutex = None
    /\ ccDB = [t \in Token |-> ClosedDB]
    /\ req = [c \in Terminal |-> NoRequest]
    /\ routine = [t \in Token |-> NoRoutine]
    /\ undo = None /\ leaked = None
    /\ crashes = 0

---------------------------------------------------------------------------
\* GetSession, and the checks each request makes on its copy

\* Each: the next step for a copy s of uCS, "idle" when the request is refused.
StartOrResume(s) ==
    IF s = None THEN "newCSWatch"
    ELSE IF s.state = "Suspended" THEN "resume"
    ELSE IF IsPidActive(s) THEN "idle" ELSE "suspendStale"

Exit(s) == IF s # None /\ s.state = "Active" THEN "suspend" ELSE "idle"

\* firstStep: "save" when there is a timeout, "commitCS" when there is none.
Commit(s, firstStep) ==
    IF s # None /\ s.state = "Active" /\ s.commitState # "ConfirmTimer"
    THEN firstStep ELSE "idle"

processCommitConfirm(s) ==
    IF s = None \/ s.state # "Active" \/ s.commitState # "ConfirmTimer" THEN "idle"
    ELSE IF s.commitTimer # None THEN "stopTimer" ELSE "cpHistory"

Abort(s) ==
    IF s = None \/ s.state # "Active" THEN "idle"
    ELSE IF s.commitState = "ConfirmTimer" THEN "stopTimer" ELSE "deleteCS"

Kill(s) ==
    IF s = None \/ s.commitState = "RollbackReplace" THEN "idle"
    ELSE IF s.commitState = "ConfirmTimer" THEN "stopTimer" ELSE "deleteCS"

FirstStep(o, s) ==
    CASE o = "Start"       -> StartOrResume(s)
      [] o = "Exit"        -> Exit(s)
      [] o = "Commit"      -> Commit(s, "commitCS")
      [] o = "CommitTimer" -> Commit(s, "save")
      [] o = "Confirm"     -> processCommitConfirm(s)
      [] o = "Abort"       -> Abort(s)
      [] o = "Kill"        -> Kill(s)
      [] o = "Write"       -> IF s # None THEN "write" ELSE "idle"

\* The pid is checked for all but the administrator's Kill, which may be told
\* to spare a session whose terminal is there.
GetSession(c, o) ==
    /\ AtLocked(c, "idle") /\ c \in alive
    /\ o \in {"CommitTimer", "Confirm"} => Timers
    /\ uCS # None /\ Strict /\ o # "Kill" => ~(IsPidActive(uCS) /\ uCS.pid # c)
    /\ Patient /\ o = "Abort" /\ uCS # None => uCS.commitState # "RollbackReplace"
    /\ FirstStep(o, uCS) # "idle"      \* a refused request changes nothing
    /\ req' = [req EXCEPT ![c] =
                 [NoRequest EXCEPT !.at = FirstStep(o, uCS), !.op = o, !.sess = uCS]]
    /\ UNCHANGED <<dbVars, server, uCS, routine, history>>

---------------------------------------------------------------------------
\* newCS, resumeCS, suspendCS

\* newCS with csMutex held: NewDB and StartSessTx, which WATCHes ConfigDB.
newCSWatch(c) ==
    /\ AtLocked(c, "newCSWatch")
    /\ \/ /\ uCS # None \/ tokens = MaxTokens   \* TranslibBusy, or the bound
          /\ Done(c)
          /\ UNCHANGED <<csMutex, tokens, ccDB>>
       \/ /\ uCS = None /\ tokens < MaxTokens
          /\ csMutex' = c
          /\ tokens' = tokens + 1
          /\ ccDB' = [ccDB EXCEPT ![tokens'] = WatchingDB]
          /\ Goto(c, "newCSLock")
    /\ UNCHANGED <<running, lock, up, alive, uCS, routine, history>>

\* Mutant: on a lock that is taken the DB is not deleted.
newCSLockNoDelete(c) ==
    /\ At(c, "newCSLock") /\ csMutex = c
    /\ IF lock = Free
       THEN lock' = tokens /\ uCS' = NewSession(tokens, c)
       ELSE UNCHANGED <<lock, uCS>>
    /\ csMutex' = None
    /\ Done(c)
    /\ UNCHANGED <<running, ccDB, up, alive, tokens, routine, history>>

\* Mutant: the session is created whether the lock is had or not.
newCSLockIgnoreError(c) ==
    /\ At(c, "newCSLock") /\ csMutex = c
    /\ lock' = IF lock = Free THEN tokens ELSE lock
    /\ uCS' = NewSession(tokens, c)
    /\ csMutex' = None
    /\ Done(c)
    /\ UNCHANGED <<running, ccDB, up, alive, tokens, routine, history>>

\* ... and ConfigDBTryLock of the new token.
newCSLock(c) ==
    /\ At(c, "newCSLock") /\ csMutex = c
    /\ IF lock = Free
       THEN /\ lock' = tokens
            /\ uCS' = NewSession(tokens, c)
            /\ UNCHANGED ccDB
       ELSE /\ ccDB' = [ccDB EXCEPT ![tokens] = ClosedDB]
            /\ UNCHANGED <<lock, uCS>>
    /\ csMutex' = None
    /\ Done(c)
    /\ UNCHANGED <<running, up, alive, tokens, routine, history>>

\* suspendCS of Exit, and of StartOrResume when the session's terminal is gone.
suspendCS(c) ==
    /\ AtLocked(c, "suspend") \/ AtLocked(c, "suspendStale")
    /\ uCS' = IF IsActive THEN [uCS EXCEPT !.state = "Suspended", !.pid = None] ELSE uCS
    /\ IF At(c, "suspend") THEN Done(c) ELSE Goto(c, "resume")
    /\ UNCHANGED <<dbVars, server, routine, history>>

resumeCS(c) ==
    /\ AtLocked(c, "resume")
    /\ uCS' = IF uCS # None /\ uCS.state = "Suspended"
              THEN [uCS EXCEPT !.state = "Active", !.pid = c] ELSE uCS
    /\ Done(c)
    /\ UNCHANGED <<dbVars, server, routine, history>>

---------------------------------------------------------------------------
\* Commit

\* saveRunningConfig, by the host service.
saveRunningConfig(c) ==
    /\ At(c, "save")
    /\ \/ req' = [req EXCEPT ![c].saved = running, ![c].at = "setRollback"]
       \/ HostFaults /\ Done(c)
    /\ UNCHANGED <<dbVars, server, uCS, routine, history>>

SetRollbackCfg(c) ==
    /\ AtLocked(c, "setRollback")
    /\ uCS' = IF uCS # None THEN [uCS EXCEPT !.rollbackCfg = req[c].saved] ELSE uCS
    /\ Goto(c, "commitCS")
    /\ UNCHANGED <<dbVars, server, routine, history>>

\* csCommitTx: the transaction is over, whether EXEC succeeds or not.
CommitsTx(t) == ccDB[t].tx /\ ~ccDB[t].dirty
Committed(t) == IF ccDB[t].candidate = None THEN running ELSE ccDB[t].candidate
TxOver(t) == [ClosedDB EXCEPT !.open = TRUE]

commitCS(c) ==
    /\ AtLocked(c, "commitCS")
    /\ \/ \* TranslibBusy
          /\ ~IsActive
          /\ Done(c)
          /\ UNCHANGED <<dbVars, uCS, undo, leaked>>
       \/ \* csCommitTx fails: the session stays
          /\ IsActive /\ ~CommitsTx(uCS.token)
          /\ ccDB' = [ccDB EXCEPT ![uCS.token] = TxOver(uCS.token)]
          /\ Done(c)
          /\ UNCHANGED <<running, lock, uCS, undo, leaked>>
       \/ \* without a timeout: checkpoint, DeleteDB, unlock
          /\ IsActive /\ CommitsTx(uCS.token) /\ req[c].op = "Commit"
          /\ running' = Committed(uCS.token)
          /\ EndSession
          /\ Done(c)
          /\ UNCHANGED undo
       \/ \* with a timeout: the session waits for the confirmation
          /\ IsActive /\ CommitsTx(uCS.token) /\ req[c].op = "CommitTimer"
          /\ running' = Committed(uCS.token)
          /\ undo' = running
          /\ ccDB' = [ccDB EXCEPT ![uCS.token] = TxOver(uCS.token)]
          /\ uCS' = [uCS EXCEPT !.commitState = "ConfirmTimer"]
          /\ req' = [req EXCEPT ![c].mine = uCS.token, ![c].at = "startTimer"]
          /\ UNCHANGED <<lock, leaked>>
    /\ UNCHANGED <<server, routine, crashes>>

\* processCommitTimer: StartCommitTimer, SetCommitCh, go func. The timer and
\* the channel are named by the session that was committed.
StartCommitTimer(c) ==
    /\ AtLocked(c, "startTimer")
    /\ IF uCS = None
       THEN Done(c) /\ UNCHANGED <<uCS, routine>>
       ELSE /\ uCS' = [uCS EXCEPT !.commitTimer = req[c].mine]
            /\ routine' = [routine EXCEPT ![req[c].mine].timer = TRUE]
            /\ Goto(c, "setCh")
    /\ UNCHANGED <<dbVars, server, history>>

SetCommitCh(c) ==
    /\ AtLocked(c, "setCh")
    /\ uCS' = IF uCS # None THEN [uCS EXCEPT !.commitCh = req[c].mine] ELSE uCS
    /\ routine' = [routine EXCEPT ![req[c].mine].at = "waiting",
                                  ![req[c].mine].rollbackCfg = req[c].saved]
    /\ Done(c)
    /\ UNCHANGED <<dbVars, server, history>>

---------------------------------------------------------------------------
\* Confirm, Abort and Kill

\* commitTimer.Stop(): a nil timer panics, and the panic ends the request.
stopTimer(c) ==
    /\ At(c, "stopTimer")
    /\ LET t == req[c].sess.commitTimer IN
       IF t = None
       THEN Done(c) /\ UNCHANGED routine
       ELSE routine' = [routine EXCEPT ![t].timer = FALSE] /\ Goto(c, "send")
    /\ UNCHANGED <<dbVars, server, uCS, history>>

\* commitCh <- true: unbuffered, so it takes a receiver; nil takes none.
send(c) ==
    /\ At(c, "send")
    /\ LET t == req[c].sess.commitCh IN
       /\ t # None /\ routine[t].at = "waiting"
       /\ routine' = [routine EXCEPT ![t].at = "ended"]
    /\ Goto(c, IF req[c].op = "Confirm" THEN "cpHistory" ELSE "reload")
    /\ UNCHANGED <<dbVars, server, uCS, history>>

\* createCpHistory and cleanCS both panic when the session is gone.
createCpHistory(c) ==
    /\ At(c, "cpHistory")
    /\ IF uCS = None THEN Done(c) ELSE Goto(c, "cleanCS")
    /\ UNCHANGED <<dbVars, server, uCS, routine, history>>

\* Mutant: a confirmed session keeps its lock and waits on.
cleanCSLeft(c) ==
    /\ AtLocked(c, "cleanCS")
    /\ Done(c)
    /\ UNCHANGED <<dbVars, server, uCS, routine, history>>

cleanCS(c) ==
    /\ AtLocked(c, "cleanCS")
    /\ IF uCS = None
       THEN UNCHANGED <<uCS, lock, leaked, ccDB, undo>>
       ELSE EndSession /\ undo' = None
    /\ Done(c)
    /\ UNCHANGED <<running, server, routine, crashes>>

\* configReload of Abort and Kill. When it fails they give up; cfg_mgmt.save
\* fails without a file to reload.
abortReload(c) ==
    /\ At(c, "reload")
    /\ \/ /\ req[c].sess.rollbackCfg # None
          /\ running' = req[c].sess.rollbackCfg
          /\ ccDB' = Dirty
          /\ undo' = None
          /\ Goto(c, "deleteCS")
       \/ /\ HostFaults \/ req[c].sess.rollbackCfg = None
          /\ Done(c)
          /\ UNCHANGED <<running, ccDB, undo>>
    /\ UNCHANGED <<lock, leaked, server, uCS, routine, crashes>>

\* Ends the session that is there now, with csAbortTx unless CONFIRM_TIMER.
deleteCS(c) ==
    /\ AtLocked(c, "deleteCS")
    /\ IF uCS = None THEN UNCHANGED <<uCS, lock, leaked, ccDB>> ELSE EndSession
    /\ Done(c)
    /\ UNCHANGED <<running, server, routine, undo, crashes>>

\* A write request on the session's DB (GetConfigDB): into the candidate while
\* the transaction is open, and straight to ConfigDB when it is over.
write(c) ==
    /\ At(c, "write")
    /\ LET t == req[c].sess.token IN
       \/ /\ ccDB[t].tx
          /\ \E v \in Config : ccDB' = [ccDB EXCEPT ![t].candidate = v]
          /\ UNCHANGED running
       \/ /\ ccDB[t].open /\ ~ccDB[t].tx
          /\ running' \in Config
          /\ UNCHANGED ccDB
       \/ /\ ~ccDB[t].open
          /\ UNCHANGED <<running, ccDB>>
    /\ Done(c)
    /\ UNCHANGED <<lock, server, uCS, routine, history>>

---------------------------------------------------------------------------
\* The goroutine of processCommitTimer

RoutineGoto(t, label) == routine' = [routine EXCEPT ![t].at = label]

TimerExpires(t) ==
    /\ up
    /\ routine[t].at = "waiting" /\ routine[t].timer
    /\ RoutineGoto(t, "setState")
    /\ UNCHANGED <<dbVars, server, uCS, req, history>>

SetCommitState(t) ==
    /\ up /\ csMutex = None
    /\ routine[t].at = "setState"
    /\ uCS' = IF uCS # None THEN [uCS EXCEPT !.commitState = "RollbackReplace"] ELSE uCS
    /\ RoutineGoto(t, "reload")
    /\ UNCHANGED <<dbVars, server, req, history>>

\* Mutant: the clean-up does not wait for the reload.
configReloadSkipped(t) ==
    /\ up
    /\ routine[t].at = "reload"
    /\ RoutineGoto(t, "cleanCS")
    /\ UNCHANGED <<dbVars, server, uCS, req, history>>

configReload(t) ==
    /\ up
    /\ routine[t].at = "reload"
    /\ \/ running' = routine[t].rollbackCfg /\ ccDB' = Dirty /\ undo' = None
       \/ HostFaults /\ UNCHANGED <<running, ccDB, undo>>
    /\ RoutineGoto(t, "cleanCS")
    /\ UNCHANGED <<lock, leaked, server, uCS, req, crashes>>

\* Memory is lost, connections are closed; the lock stays in redis.
ProcessGone ==
    /\ up' = FALSE
    /\ uCS' = None /\ csMutex' = None
    /\ ccDB' = [t \in Token |-> ClosedDB]
    /\ req' = [c \in Terminal |-> NoRequest]
    /\ routine' = [t \in Token |-> NoRoutine]

\* cleanCS: without a session the goroutine's panic is the end of the process.
RoutineCleanCS(t) ==
    /\ up /\ csMutex = None
    /\ routine[t].at = "cleanCS"
    /\ IF uCS = None
       THEN ProcessGone /\ UNCHANGED <<lock, leaked>>
       ELSE EndSession /\ RoutineGoto(t, "ended") /\ UNCHANGED <<up, csMutex, req>>
    /\ UNCHANGED <<running, alive, tokens, undo, crashes>>

---------------------------------------------------------------------------
\* The environment

\* Another process edits ConfigDB under the lock.
WriterLocks ==
    /\ lock = Free
    /\ lock' = Writer
    /\ UNCHANGED <<running, ccDB, server, uCS, req, routine, history>>

WriterCommits ==
    /\ lock = Writer
    /\ running' \in Config
    /\ lock' = Free
    /\ ccDB' = IF running' = running THEN ccDB ELSE Dirty
    /\ UNCHANGED <<server, uCS, req, routine, history>>

\* A terminal is closed, and its pid is not used again.
TerminalCloses(c) ==
    /\ c \in alive /\ alive # {c} /\ req[c].at = "idle"
    /\ alive' = alive \ {c}
    /\ UNCHANGED <<dbVars, up, tokens, csMutex, uCS, req, routine, history>>

Crash ==
    /\ up /\ crashes < MaxCrash
    /\ crashes' = crashes + 1
    /\ ProcessGone
    /\ UNCHANGED <<running, lock, alive, tokens, undo, leaked>>

\* The init function of db_lock.go: ConfigDBClearLock clears a session's lock.
Restart ==
    /\ ~up
    /\ up' = TRUE
    /\ lock' = IF lock \in Token THEN Free ELSE lock
    /\ undo' = None
    /\ UNCHANGED <<running, ccDB, alive, tokens, csMutex, uCS, req, routine, leaked, crashes>>

Request(c) ==
    \/ newCSWatch(c) \/ newCSLock(c) \/ suspendCS(c) \/ resumeCS(c)
    \/ saveRunningConfig(c) \/ SetRollbackCfg(c) \/ commitCS(c)
    \/ StartCommitTimer(c) \/ SetCommitCh(c)
    \/ stopTimer(c) \/ send(c) \/ createCpHistory(c) \/ cleanCS(c)
    \/ abortReload(c) \/ deleteCS(c) \/ write(c)

Routine(t) ==
    TimerExpires(t) \/ SetCommitState(t) \/ configReload(t) \/ RoutineCleanCS(t)

Next ==
    \/ \E c \in Terminal : Request(c) \/ TerminalCloses(c)
    \/ \E c \in Terminal, o \in Op : GetSession(c, o)
    \/ \E t \in Token : Routine(t)
    \/ WriterLocks \/ WriterCommits
    \/ Crash \/ Restart

Spec == Init /\ [][Next]_vars

\* Goroutines and timers run; nobody has to send a request or write.
FairSpec ==
    /\ Spec
    /\ \A c \in Terminal : WF_vars(Request(c))
    /\ \A t \in Token : WF_vars(Routine(t))
    /\ WF_vars(Restart)

---------------------------------------------------------------------------
\* Properties

SessionTypeOK ==
    /\ running \in Config
    /\ lock \in {Free, Writer} \cup Token
    /\ up \in BOOLEAN /\ alive \subseteq Terminal /\ tokens \in 0 .. MaxTokens
    /\ uCS \in {None} \cup Session
    /\ csMutex \in {None} \cup Terminal
    /\ ccDB \in [Token -> CandidateDB]
    /\ req \in [Terminal -> ActionRequest]
    /\ routine \in [Token -> TimerRoutine]
    /\ undo \in {None} \cup Config /\ leaked \in {None} \cup Token
    /\ crashes \in 0 .. MaxCrash

(* Whatever requests, timers and other processes do in between, the session the
   server has is the one that holds the ConfigDB lock: newCS does not keep a
   session without it, and no helper unlocks and keeps the session. *)
SessionHoldsLock == uCS # None => lock = uCS.token

(* The candidates that are open are that of uCS and the one newCS is about to
   lock: no path forgets DeleteDB, and none closes the DB of a live session. *)
OpenDBIsOfSession ==
    {t \in Token : ccDB[t].open} =
        (IF uCS = None THEN {} ELSE {uCS.token})
          \cup (IF csMutex = None THEN {} ELSE {tokens})

(* A lock of a session outlives the session only when ConfigDBUnlock failed or
   the server is gone; the others find it free again. *)
LockIsOfSession ==
    up /\ lock \in Token \ {leaked} => uCS # None /\ lock = uCS.token

(* Commit with a timeout: kept when it is confirmed in time, taken back as a
   whole by the timer or an abort, and in either case settled before the lock
   is given away. *)
Promise == INSTANCE ConfirmedCommit
    WITH Holder <- Token \cup {Writer}, Settled <- None,
         holder <- lock, undo <- undo
ImplementsConfirmedCommit == Promise!Spec

(* A commit that waits for its confirmation does not wait for ever. *)
UnconfirmedCommitIsSettled == undo # None ~> undo = None
=============================================================================
