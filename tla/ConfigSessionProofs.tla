------------------------ MODULE ConfigSessionProofs ------------------------
(***************************************************************************)
(* Proofs about the Config Session, for any terminals, configurations and  *)
(* number of sessions, with failing host services, unlocks and crashes.    *)
(*                                                                         *)
(* The requests decide on copies of uCS that may be stale, so nothing that *)
(* a request has checked is used: what holds is kept by each helper under  *)
(* csMutex alone. The promise of ConfirmedCommit needs more, and is kept   *)
(* when the requests follow one another.                                   *)
(***************************************************************************)
EXTENDS ConfigSession, TLAPS

\* A request past saveRunningConfig, and the goroutine it starts, have a
\* configuration to go back to; a request that uses its copy of uCS has one.
NeedsSaved == {"setRollback", "startTimer", "setCh"}
NeedsCopy == {"stopTimer", "send", "reload", "write"}
KnownRequest ==
    {r \in ActionRequest :
        /\ r.at \in NeedsSaved \/ (r.at = "commitCS" /\ r.op = "CommitTimer")
              => r.saved \in Config
        /\ r.at \in NeedsCopy => r.sess \in Session}
KnownRoutine ==
    {r \in TimerRoutine :
        r.at \in {"waiting", "setState", "reload"} => r.rollbackCfg \in Config}

SessionTypeInv ==
    /\ SessionTypeOK
    /\ req \in [Terminal -> KnownRequest]
    /\ routine \in [Token -> KnownRoutine]
    /\ csMutex # None => tokens \in Token

(* The step a request begins with is one of its program. *)
LEMMA FirstStepIsAStep ==
    ASSUME NEW o \in Op, NEW s \in {None} \cup Session
    PROVE  /\ FirstStep(o, s) \in RequestStep
           /\ FirstStep(o, s) \notin {"newCSLock", "send", "reload"} \cup NeedsSaved
           /\ FirstStep(o, s) \in NeedsCopy => s \in Session
           /\ o = "CommitTimer" => FirstStep(o, s) # "commitCS"
  <1>1. CASE o = "Start"
    <2>1. FirstStep(o, s) = StartOrResume(s)
      BY <1>1 DEF FirstStep
    <2>2. StartOrResume(s) \in {"newCSWatch", "resume", "suspendStale", "idle"}
      BY DEF StartOrResume
    <2>3. QED
      BY <1>1, <2>1, <2>2 DEF RequestStep, NeedsSaved, NeedsCopy
  <1>2. CASE o = "Exit"
    <2>1. FirstStep(o, s) = Exit(s)
      BY <1>2 DEF FirstStep
    <2>2. Exit(s) \in {"suspend", "idle"}
      BY DEF Exit
    <2>3. QED
      BY <1>2, <2>1, <2>2 DEF RequestStep, NeedsSaved, NeedsCopy
  <1>3. CASE o = "Commit"
    <2>1. FirstStep(o, s) = Commit(s, "commitCS")
      BY <1>3 DEF FirstStep
    <2>2. Commit(s, "commitCS") \in {"commitCS", "idle"}
      BY DEF Commit
    <2>3. QED
      BY <1>3, <2>1, <2>2 DEF RequestStep, NeedsSaved, NeedsCopy
  <1>4. CASE o = "CommitTimer"
    <2>1. FirstStep(o, s) = Commit(s, "save")
      BY <1>4 DEF FirstStep
    <2>2. Commit(s, "save") \in {"save", "idle"}
      BY DEF Commit
    <2>3. QED
      BY <1>4, <2>1, <2>2 DEF RequestStep, NeedsSaved, NeedsCopy
  <1>5. CASE o = "Confirm"
    <2>1. FirstStep(o, s) = processCommitConfirm(s)
      BY <1>5 DEF FirstStep
    <2>2. /\ processCommitConfirm(s) \in {"stopTimer", "cpHistory", "idle"}
          /\ processCommitConfirm(s) = "stopTimer" => s \in Session
      BY DEF processCommitConfirm
    <2>3. QED
      BY <1>5, <2>1, <2>2 DEF RequestStep, NeedsSaved, NeedsCopy
  <1>6. CASE o = "Abort"
    <2>1. FirstStep(o, s) = Abort(s)
      BY <1>6 DEF FirstStep
    <2>2. /\ Abort(s) \in {"stopTimer", "deleteCS", "idle"}
          /\ Abort(s) = "stopTimer" => s \in Session
      BY DEF Abort
    <2>3. QED
      BY <1>6, <2>1, <2>2 DEF RequestStep, NeedsSaved, NeedsCopy
  <1>7. CASE o = "Kill"
    <2>1. FirstStep(o, s) = Kill(s)
      BY <1>7 DEF FirstStep
    <2>2. /\ Kill(s) \in {"stopTimer", "deleteCS", "idle"}
          /\ Kill(s) = "stopTimer" => s \in Session
      BY DEF Kill
    <2>3. QED
      BY <1>7, <2>1, <2>2 DEF RequestStep, NeedsSaved, NeedsCopy
  <1>8. CASE o = "Write"
    <2>1. FirstStep(o, s) = IF s # None THEN "write" ELSE "idle"
      BY <1>8 DEF FirstStep
    <2>2. QED
      BY <1>8, <2>1 DEF RequestStep, NeedsSaved, NeedsCopy
  <1>9. QED
    BY <1>1, <1>2, <1>3, <1>4, <1>5, <1>6, <1>7, <1>8 DEF Op

(* The records of the model, when the code sets one field of them. *)
LEMMA NewRecords ==
    /\ NoRequest \in KnownRequest
    /\ NoRoutine \in KnownRoutine
    /\ ClosedDB \in CandidateDB
    /\ WatchingDB \in CandidateDB
    /\ \A t \in Token : TxOver(t) \in CandidateDB
    /\ \A t \in Token, c \in Terminal :
          NewSession(t, c) \in Session /\ NewSession(t, c).token = t
  BY SessionAssumption
     DEF NoRequest, KnownRequest, ActionRequest, RequestStep, NoRoutine, KnownRoutine,
         TimerRoutine, RoutineStep, ClosedDB, WatchingDB, TxOver, CandidateDB,
         NewSession, Session, NeedsSaved, NeedsCopy

(* The step after a configuration is saved, and those before, need no more. *)
LEMMA GotoType ==
    ASSUME req \in [Terminal -> KnownRequest], NEW c \in Terminal,
           NEW label \in RequestStep, Goto(c, label),
           label \in NeedsSaved \cup {"commitCS"} => req[c].saved \in Config,
           label \in NeedsCopy => req[c].sess \in Session
    PROVE  req' \in [Terminal -> KnownRequest]
  <1>1. [req[c] EXCEPT !.at = label] \in KnownRequest
    BY DEF KnownRequest, ActionRequest, NeedsSaved
  <1>2. QED
    BY <1>1 DEF Goto

(* saveRunningConfig gives the request its configuration. *)
LEMMA SavedType ==
    ASSUME NEW r \in KnownRequest, NEW cfg \in Config
    PROVE  [r EXCEPT !.saved = cfg, !.at = "setRollback"] \in KnownRequest
  <1> DEFINE s == [r EXCEPT !.saved = cfg, !.at = "setRollback"]
  <1>1. s \in ActionRequest
    BY DEF KnownRequest, ActionRequest, RequestStep
  <1>2. s.at = "setRollback" /\ s.saved = cfg
    BY DEF KnownRequest, ActionRequest
  <1>3. QED
    BY <1>1, <1>2 DEF KnownRequest, NeedsCopy

(* A request that returns leaves nothing behind. *)
LEMMA DoneType ==
    ASSUME req \in [Terminal -> KnownRequest], NEW c \in Terminal, Done(c)
    PROVE  req' \in [Terminal -> KnownRequest]
  BY NewRecords DEF Done

(* A goroutine that has a configuration to go back to keeps it. *)
LEMMA RoutineGotoType ==
    ASSUME routine \in [Token -> KnownRoutine], NEW t \in Token,
           NEW label \in RoutineStep, RoutineGoto(t, label),
           \/ label \notin {"waiting", "setState", "reload"}
           \/ routine[t].rollbackCfg \in Config
    PROVE  routine' \in [Token -> KnownRoutine]
  <1>1. [routine[t] EXCEPT !.at = label] \in KnownRoutine
    BY DEF KnownRoutine, TimerRoutine
  <1>2. QED
    BY <1>1 DEF RoutineGoto

(* SetCommitCh starts a goroutine that knows its configuration. *)
LEMMA WaitingType ==
    ASSUME NEW r \in KnownRoutine, NEW cfg \in Config
    PROVE  [r EXCEPT !.at = "waiting", !.rollbackCfg = cfg] \in KnownRoutine
  <1> DEFINE s == [r EXCEPT !.at = "waiting", !.rollbackCfg = cfg]
  <1>1. s \in TimerRoutine
    BY DEF KnownRoutine, TimerRoutine, RoutineStep
  <1>2. s.rollbackCfg = cfg
    BY DEF KnownRoutine, TimerRoutine
  <1>3. QED
    BY <1>1, <1>2 DEF KnownRoutine

(* Starting and stopping commitTimer touches nothing else. *)
LEMMA TimerType ==
    ASSUME routine \in [Token -> KnownRoutine], NEW t, NEW on \in BOOLEAN,
           routine' = [routine EXCEPT ![t].timer = on]
    PROVE  routine' \in [Token -> KnownRoutine]
  <1>1. t \in Token => [routine[t] EXCEPT !.timer = on] \in KnownRoutine
    BY DEF KnownRoutine, TimerRoutine
  <1>2. QED
    BY <1>1

(* A write that others make is only noted on the handles that watch. *)
LEMMA DirtyType ==
    ASSUME ccDB \in [Token -> CandidateDB]
    PROVE  Dirty \in [Token -> CandidateDB]
  <1>1. ASSUME NEW t \in Token
        PROVE  [ccDB[t] EXCEPT !.dirty = @ \/ ccDB[t].tx] \in CandidateDB
    BY DEF CandidateDB
  <1>2. QED
    BY <1>1 DEF Dirty

(* commitCS, cleanCS and deleteCS end the session in the same way. *)
LEMMA EndSessionType ==
    ASSUME SessionTypeOK, uCS # None, EndSession
    PROVE  /\ ccDB' \in [Token -> CandidateDB]
           /\ lock' \in {Free, Writer} \cup Token
           /\ leaked' \in {None} \cup Token
           /\ uCS' = None
  <1>1. uCS.token \in Token
    BY DEF SessionTypeOK, Session
  <1>2. QED
    BY <1>1, NewRecords DEF EndSession, Unlock, SessionTypeOK

(* A process that is gone has the state of one that is started. *)
LEMMA ProcessGoneType ==
    ASSUME ProcessGone
    PROVE  /\ ccDB' \in [Token -> CandidateDB]
           /\ req' \in [Terminal -> KnownRequest]
           /\ routine' \in [Token -> KnownRoutine]
           /\ uCS' = None /\ csMutex' = None /\ up' = FALSE
  BY NewRecords DEF ProcessGone

(* Before the first request. *)
LEMMA InitTypeInv == Init => SessionTypeInv
  BY SessionAssumption, NewRecords
     DEF Init, SessionTypeInv, SessionTypeOK, KnownRequest, KnownRoutine, Token

(* A step of a request, of a goroutine or of the environment keeps the types. *)
LEMMA NextTypeInv == SessionTypeInv /\ [Next]_vars => SessionTypeInv'
  <1> SUFFICES ASSUME SessionTypeInv, [Next]_vars PROVE SessionTypeInv'
    OBVIOUS
  <1> USE SessionAssumption DEF SessionTypeInv, SessionTypeOK, dbVars, server, history
  <1>1. ASSUME NEW c \in Terminal, NEW o \in Op, GetSession(c, o)
        PROVE  SessionTypeInv'
    <2> DEFINE r == [NoRequest EXCEPT !.at = FirstStep(o, uCS), !.op = o, !.sess = uCS]
    <2>1. r \in KnownRequest
      BY FirstStepIsAStep DEF NoRequest, KnownRequest, ActionRequest, NeedsSaved, NeedsCopy
    <2>2. QED
      BY <1>1, <2>1 DEF GetSession, KnownRequest
  <1>2. ASSUME NEW c \in Terminal, newCSWatch(c)
        PROVE  SessionTypeInv'
    <2>1. req' \in [Terminal -> KnownRequest]
      BY <1>2, GotoType, DoneType DEF newCSWatch, RequestStep, NeedsSaved, NeedsCopy
    <2>2. \/ UNCHANGED <<csMutex, tokens, ccDB>>
          \/ /\ csMutex' = c /\ tokens' \in Token
             /\ ccDB' = [ccDB EXCEPT ![tokens'] = WatchingDB]
      BY <1>2 DEF newCSWatch, Token
    <2>3. ccDB' \in [Token -> CandidateDB] /\ (csMutex' # None => tokens' \in Token)
      BY <2>2, NewRecords
    <2>4. tokens' \in 0 .. MaxTokens
      BY <2>2 DEF Token
    <2>5. QED
      BY <1>2, <2>1, <2>3, <2>4 DEF newCSWatch, KnownRequest
  <1>3. ASSUME NEW c \in Terminal, newCSLock(c)
        PROVE  SessionTypeInv'
    <2>1. req' \in [Terminal -> KnownRequest]
      BY <1>3, DoneType DEF newCSLock
    <2>2. QED
      BY <1>3, <2>1, NewRecords DEF newCSLock, KnownRequest
  <1>4. ASSUME NEW c \in Terminal, suspendCS(c)
        PROVE  SessionTypeInv'
    <2>1. req' \in [Terminal -> KnownRequest]
      BY <1>4, GotoType, DoneType DEF suspendCS, RequestStep, NeedsSaved, NeedsCopy
    <2>2. uCS' \in {None} \cup Session
      BY <1>4 DEF suspendCS, IsActive, Session
    <2>3. QED
      BY <1>4, <2>1, <2>2 DEF suspendCS, KnownRequest
  <1>5. ASSUME NEW c \in Terminal, resumeCS(c)
        PROVE  SessionTypeInv'
    <2>1. req' \in [Terminal -> KnownRequest]
      BY <1>5, DoneType DEF resumeCS
    <2>2. uCS' \in {None} \cup Session
      BY <1>5 DEF resumeCS, Session
    <2>3. QED
      BY <1>5, <2>1, <2>2 DEF resumeCS, KnownRequest
  <1>6. ASSUME NEW c \in Terminal, saveRunningConfig(c)
        PROVE  SessionTypeInv'
    <2>1. [req[c] EXCEPT !.saved = running, !.at = "setRollback"] \in KnownRequest
      BY SavedType
    <2>2. req' \in [Terminal -> KnownRequest]
      BY <1>6, <2>1, DoneType DEF saveRunningConfig
    <2>3. QED
      BY <1>6, <2>2 DEF saveRunningConfig, KnownRequest
  <1>7. ASSUME NEW c \in Terminal, SetRollbackCfg(c)
        PROVE  SessionTypeInv'
    <2>1. req[c].saved \in Config
      BY <1>7 DEF SetRollbackCfg, AtLocked, At, KnownRequest, NeedsSaved
    <2>2. req' \in [Terminal -> KnownRequest]
      BY <1>7, <2>1, GotoType DEF SetRollbackCfg, RequestStep, NeedsCopy
    <2>3. uCS' \in {None} \cup Session
      BY <1>7, <2>1 DEF SetRollbackCfg, Session
    <2>4. QED
      BY <1>7, <2>2, <2>3 DEF SetRollbackCfg, KnownRequest
  <1>8. ASSUME NEW c \in Terminal, commitCS(c)
        PROVE  SessionTypeInv'
    <2>1. IsActive => uCS \in Session /\ uCS.token \in Token
      BY DEF IsActive, Session
    <2>2. \A t \in Token : Committed(t) \in Config
      BY DEF Committed, CandidateDB
    <2>3. CASE ~IsActive
      BY <1>8, <2>3, DoneType DEF commitCS, KnownRequest
    <2>4. CASE IsActive /\ ~CommitsTx(uCS.token)
      <3>1. ccDB' = [ccDB EXCEPT ![uCS.token] = TxOver(uCS.token)]
        BY <1>8, <2>4 DEF commitCS
      <3>2. ccDB' \in [Token -> CandidateDB]
        BY <2>1, <2>4, <3>1, NewRecords
      <3>3. QED
        BY <1>8, <2>4, <3>2, DoneType DEF commitCS, KnownRequest
    <2>5. CASE IsActive /\ CommitsTx(uCS.token) /\ req[c].op = "Commit"
      <3>1. EndSession /\ uCS # None
        BY <1>8, <2>5 DEF commitCS, IsActive
      <3>2. QED
        BY <1>8, <2>1, <2>2, <2>5, <3>1, DoneType, EndSessionType DEF commitCS, KnownRequest
    <2>6. CASE IsActive /\ CommitsTx(uCS.token) /\ req[c].op = "CommitTimer"
      <3>1. [req[c] EXCEPT !.mine = uCS.token, !.at = "startTimer"] \in KnownRequest
        BY <1>8, <2>1, <2>6 DEF commitCS, AtLocked, At, KnownRequest, ActionRequest, RequestStep,
                                      NeedsSaved, NeedsCopy
      <3>2. req' \in [Terminal -> KnownRequest]
        <4>1. req' = [req EXCEPT ![c] = [req[c] EXCEPT !.mine = uCS.token, !.at = "startTimer"]]
          BY <1>8, <2>6 DEF commitCS
        <4>2. QED
          BY <3>1, <4>1
      <3>3. uCS' \in Session
        BY <1>8, <2>1, <2>6 DEF commitCS, Session
      <3>4. QED
        BY <1>8, <2>1, <2>2, <2>6, <3>2, <3>3, NewRecords DEF commitCS, KnownRequest
    <2>7. QED
      BY <1>8, <2>3, <2>4, <2>5, <2>6 DEF commitCS
  <1>9. ASSUME NEW c \in Terminal, StartCommitTimer(c)
        PROVE  SessionTypeInv'
    <2>1. req[c].saved \in Config /\ req[c].mine \in {None} \cup Token
      BY <1>9 DEF StartCommitTimer, AtLocked, At, KnownRequest, ActionRequest, NeedsSaved
    <2>2. req' \in [Terminal -> KnownRequest]
      BY <1>9, <2>1, GotoType, DoneType DEF StartCommitTimer, RequestStep, NeedsCopy
    <2>3. routine' \in [Token -> KnownRoutine]
      BY <1>9, TimerType DEF StartCommitTimer
    <2>4. uCS' \in {None} \cup Session
      BY <1>9, <2>1 DEF StartCommitTimer, Session
    <2>5. QED
      BY <1>9, <2>2, <2>3, <2>4 DEF StartCommitTimer, KnownRequest, KnownRoutine
  <1>10. ASSUME NEW c \in Terminal, SetCommitCh(c)
         PROVE  SessionTypeInv'
    <2> DEFINE t == req[c].mine
    <2>1. req[c].saved \in Config /\ t \in {None} \cup Token
      BY <1>10 DEF SetCommitCh, AtLocked, At, KnownRequest, ActionRequest, NeedsSaved
    <2>2. t \in Token =>
             [routine[t] EXCEPT !.at = "waiting", !.rollbackCfg = req[c].saved] \in KnownRoutine
      BY <2>1, WaitingType
    <2>3. routine' \in [Token -> KnownRoutine]
      BY <1>10, <2>1, <2>2 DEF SetCommitCh
    <2>4. req' \in [Terminal -> KnownRequest]
      BY <1>10, DoneType DEF SetCommitCh
    <2>5. uCS' \in {None} \cup Session
      BY <1>10, <2>1 DEF SetCommitCh, Session
    <2>6. QED
      BY <1>10, <2>3, <2>4, <2>5 DEF SetCommitCh, KnownRequest, KnownRoutine
  <1>11. ASSUME NEW c \in Terminal, stopTimer(c)
         PROVE  SessionTypeInv'
    <2>1. req' \in [Terminal -> KnownRequest]
      BY <1>11, GotoType, DoneType DEF stopTimer, At, RequestStep, NeedsSaved, NeedsCopy, KnownRequest
    <2>2. routine' \in [Token -> KnownRoutine]
      BY <1>11, TimerType DEF stopTimer
    <2>3. QED
      BY <1>11, <2>1, <2>2 DEF stopTimer, KnownRequest, KnownRoutine
  <1>12. ASSUME NEW c \in Terminal, send(c)
         PROVE  SessionTypeInv'
    <2> DEFINE t == req[c].sess.commitCh
    <2>1. t \in Token => [routine[t] EXCEPT !.at = "ended"] \in KnownRoutine
      BY DEF KnownRoutine, TimerRoutine, RoutineStep
    <2>2. routine' \in [Token -> KnownRoutine]
      BY <1>12, <2>1 DEF send
    <2>3. req' \in [Terminal -> KnownRequest]
      BY <1>12, GotoType DEF send, At, RequestStep, NeedsSaved, NeedsCopy, KnownRequest
    <2>4. QED
      BY <1>12, <2>2, <2>3 DEF send, KnownRequest, KnownRoutine
  <1>13. ASSUME NEW c \in Terminal, createCpHistory(c)
         PROVE  SessionTypeInv'
    <2>1. req' \in [Terminal -> KnownRequest]
      BY <1>13, GotoType, DoneType DEF createCpHistory, RequestStep, NeedsSaved, NeedsCopy
    <2>2. QED
      BY <1>13, <2>1 DEF createCpHistory, KnownRequest
  <1>14. ASSUME NEW c \in Terminal, cleanCS(c)
         PROVE  SessionTypeInv'
    BY <1>14, DoneType, EndSessionType DEF cleanCS, KnownRequest
  <1>15. ASSUME NEW c \in Terminal, abortReload(c)
         PROVE  SessionTypeInv'
    <2>1. req' \in [Terminal -> KnownRequest]
      BY <1>15, GotoType, DoneType DEF abortReload, RequestStep, NeedsSaved, NeedsCopy
    <2>2. req[c].sess.rollbackCfg \in {None} \cup Config
      BY <1>15 DEF abortReload, At, KnownRequest, NeedsCopy, Session
    <2>3. QED
      BY <1>15, <2>1, <2>2, DirtyType DEF abortReload, KnownRequest
  <1>16. ASSUME NEW c \in Terminal, deleteCS(c)
         PROVE  SessionTypeInv'
    BY <1>16, DoneType, EndSessionType DEF deleteCS, KnownRequest
  <1>17. ASSUME NEW c \in Terminal, write(c)
         PROVE  SessionTypeInv'
    <2> DEFINE t == req[c].sess.token
    <2>1. t \in Token
      BY <1>17 DEF write, At, KnownRequest, NeedsCopy, Session
    <2>2. \A v \in Config : [ccDB[t] EXCEPT !.candidate = v] \in CandidateDB
      BY <2>1 DEF CandidateDB
    <2>3. ccDB' \in [Token -> CandidateDB]
      <3>1. CASE ccDB' = ccDB
        BY <3>1
      <3>2. ASSUME NEW v \in Config, ccDB' = [ccDB EXCEPT ![t].candidate = v]
            PROVE  ccDB' \in [Token -> CandidateDB]
        BY <2>1, <2>2, <3>2
      <3>3. QED
        BY <1>17, <3>1, <3>2 DEF write
    <2>4. running' \in Config
      BY <1>17 DEF write
    <2>5. QED
      BY <1>17, <2>3, <2>4, DoneType DEF write, KnownRequest
  <1>18. ASSUME NEW c \in Terminal, TerminalCloses(c)
         PROVE  SessionTypeInv'
    BY <1>18 DEF TerminalCloses
  <1>19. ASSUME NEW t \in Token, TimerExpires(t)
         PROVE  SessionTypeInv'
    <2>1. routine' \in [Token -> KnownRoutine]
      BY <1>19, RoutineGotoType DEF TimerExpires, RoutineStep, KnownRoutine
    <2>2. QED
      BY <1>19, <2>1 DEF TimerExpires, KnownRoutine
  <1>20. ASSUME NEW t \in Token, SetCommitState(t)
         PROVE  SessionTypeInv'
    <2>1. routine' \in [Token -> KnownRoutine]
      BY <1>20, RoutineGotoType DEF SetCommitState, RoutineStep, KnownRoutine
    <2>2. uCS' \in {None} \cup Session
      BY <1>20 DEF SetCommitState, Session
    <2>3. QED
      BY <1>20, <2>1, <2>2 DEF SetCommitState, KnownRoutine
  <1>21. ASSUME NEW t \in Token, configReload(t)
         PROVE  SessionTypeInv'
    <2>1. routine' \in [Token -> KnownRoutine]
      BY <1>21, RoutineGotoType DEF configReload, RoutineStep
    <2>2. running' \in Config
      BY <1>21 DEF configReload, KnownRoutine
    <2>3. QED
      BY <1>21, <2>1, <2>2, DirtyType DEF configReload, KnownRoutine
  <1>22. ASSUME NEW t \in Token, RoutineCleanCS(t)
         PROVE  SessionTypeInv'
    <2>1. CASE uCS = None
      BY <1>22, <2>1, ProcessGoneType DEF RoutineCleanCS, KnownRequest, KnownRoutine
    <2>2. CASE uCS # None
      <3>1. routine' \in [Token -> KnownRoutine]
        BY <1>22, <2>2, RoutineGotoType DEF RoutineCleanCS, RoutineStep
      <3>2. QED
        BY <1>22, <2>2, <3>1, EndSessionType DEF RoutineCleanCS, KnownRoutine
    <2>3. QED
      BY <2>1, <2>2
  <1>23. CASE WriterLocks
    BY <1>23 DEF WriterLocks
  <1>24. CASE WriterCommits
    BY <1>24, DirtyType DEF WriterCommits
  <1>25. CASE Crash
    BY <1>25, ProcessGoneType DEF Crash, KnownRequest, KnownRoutine
  <1>26. CASE Restart
    BY <1>26 DEF Restart
  <1>27. CASE UNCHANGED vars
    BY <1>27 DEF vars
  <1>28. QED
    BY <1>1, <1>2, <1>3, <1>4, <1>5, <1>6, <1>7, <1>8, <1>9, <1>10, <1>11, <1>12, <1>13,
       <1>14, <1>15, <1>16, <1>17, <1>18, <1>19, <1>20, <1>21, <1>22, <1>23, <1>24, <1>25,
       <1>26, <1>27 DEF Next, Request, Routine

(* The types, with what a request and the goroutine know at each of their steps. *)
THEOREM SessionTypeInvariant == Spec => []SessionTypeInv
  <1>1. QED
    BY InitTypeInv, NextTypeInv, PTL DEF Spec

(* Requests, timers, host services, unlocks that fail and crashes leave every
   variable of the session in its type, the copies of requests included. *)
THEOREM SessionTypeCorrect == Spec => []SessionTypeOK
  <1>1. SessionTypeInv => SessionTypeOK
    BY DEF SessionTypeInv
  <1>2. QED
    BY <1>1, SessionTypeInvariant, PTL

---------------------------------------------------------------------------
\* csMutex is kept from the check for uCS = nil to the assignment of uCS, and
\* a server that is down has neither.
NewCSIsAlone ==
    /\ csMutex # None => uCS = None
    /\ ~up => uCS = None /\ csMutex = None

SessionCore ==
    SessionHoldsLock /\ OpenDBIsOfSession /\ LockIsOfSession /\ NewCSIsAlone

SessionInv == SessionTypeInv /\ SessionCore

(* Most steps change fields of the session, or the content of its DB. *)
LEMMA SameSession ==
    ASSUME SessionCore, UNCHANGED <<lock, leaked, up, tokens, csMutex>>,
           \/ uCS' = uCS
           \/ uCS # None /\ uCS' # None /\ uCS'.token = uCS.token,
           \A t \in Token : ccDB'[t].open = ccDB[t].open
    PROVE  SessionCore'
  BY DEF SessionCore, SessionHoldsLock, OpenDBIsOfSession, LockIsOfSession, NewCSIsAlone

(* Its end takes the session, its DB and its lock together, whichever session
   the caller had in mind. *)
LEMMA SessionEnds ==
    ASSUME SessionTypeOK, SessionCore, uCS # None, EndSession,
           csMutex = None, UNCHANGED <<up, tokens, csMutex>>
    PROVE  SessionCore'
  <1>1. uCS.token \in Token /\ uCS' = None /\ csMutex' = None
    BY DEF SessionTypeOK, Session, EndSession
  <1>2. \A t \in Token : ~ccDB'[t].open
    BY <1>1 DEF EndSession, ClosedDB, SessionCore, OpenDBIsOfSession, SessionTypeOK
  <1>3. LockIsOfSession'
    BY <1>1, SessionAssumption
       DEF EndSession, Unlock, SessionCore, SessionHoldsLock, LockIsOfSession
  <1>4. QED
    BY <1>1, <1>2, <1>3
       DEF SessionCore, SessionHoldsLock, OpenDBIsOfSession, NewCSIsAlone

(* A crash takes the session and its handle, and leaves the lock to Restart. *)
LEMMA ProcessGoneCore ==
    ASSUME ProcessGone PROVE SessionCore'
  BY DEF ProcessGone, SessionCore, SessionHoldsLock, OpenDBIsOfSession, LockIsOfSession,
         NewCSIsAlone, ClosedDB

(* configReload and writers change what is watched, and open no DB. *)
LEMMA DirtyOpensNothing ==
    ASSUME ccDB \in [Token -> CandidateDB]
    PROVE  \A t \in Token : Dirty[t].open = ccDB[t].open
  BY DEF Dirty, CandidateDB

(* There is no session, no handle is open and the lock is free. *)
LEMMA InitCore == Init => SessionCore
  BY SessionAssumption
     DEF Init, SessionCore, SessionHoldsLock, OpenDBIsOfSession, LockIsOfSession,
         NewCSIsAlone, ClosedDB

(* Each helper keeps session, lock and DB together. *)
LEMMA NextCore == SessionInv /\ [Next]_vars => SessionCore'
  <1> SUFFICES ASSUME SessionInv, [Next]_vars PROVE SessionCore'
    OBVIOUS
  <1> USE DEF SessionInv, SessionTypeInv, dbVars, server, history
  <1>typed. /\ ccDB \in [Token -> CandidateDB]
            /\ uCS # None => uCS \in Session /\ uCS.token \in Token
    BY DEF SessionTypeOK, Session
  <1>1. ASSUME NEW c \in Terminal, NEW o \in Op, GetSession(c, o)
        PROVE  SessionCore'
    BY <1>1, SameSession DEF GetSession
  <1>2. ASSUME NEW c \in Terminal, newCSWatch(c)
        PROVE  SessionCore'
    <2>1. CASE UNCHANGED <<csMutex, tokens, ccDB>>
      BY <1>2, <2>1, SameSession DEF newCSWatch
    <2>2. CASE uCS = None /\ tokens < MaxTokens /\ tokens' = tokens + 1 /\ csMutex' = c
                 /\ ccDB' = [ccDB EXCEPT ![tokens'] = WatchingDB]
      <3>1. tokens' \in Token /\ csMutex = None /\ up
        BY <1>2, <2>2, SessionAssumption DEF newCSWatch, AtLocked, At, SessionTypeOK, Token
      <3>2. \A t \in Token : ~ccDB[t].open
        BY <2>2, <3>1 DEF SessionCore, OpenDBIsOfSession
      <3>3. \A t \in Token : ccDB'[t].open <=> t = tokens'
        BY <1>typed, <2>2, <3>1, <3>2 DEF WatchingDB, ClosedDB
      <3>4. csMutex' # None /\ uCS' = None
        BY <1>2, <2>2, SessionAssumption DEF newCSWatch
      <3>5. OpenDBIsOfSession'
        BY <3>1, <3>3, <3>4 DEF OpenDBIsOfSession
      <3>6. QED
        BY <1>2, <3>1, <3>4, <3>5
           DEF newCSWatch, SessionCore, SessionHoldsLock, LockIsOfSession, NewCSIsAlone
    <2>3. QED
      BY <1>2, <2>1, <2>2 DEF newCSWatch
  <1>3. ASSUME NEW c \in Terminal, newCSLock(c)
        PROVE  SessionCore'
    <2>1. /\ csMutex # None /\ uCS = None /\ csMutex' = None
          /\ up /\ up' /\ tokens' = tokens /\ tokens \in Token
      BY <1>3, SessionAssumption DEF newCSLock, At, SessionCore, NewCSIsAlone
    <2>2. {t \in Token : ccDB[t].open} = {tokens}
      BY <2>1 DEF SessionCore, OpenDBIsOfSession
    <2>3. CASE lock = Free
      <3>1. uCS' # None /\ uCS'.token = tokens /\ lock' = tokens /\ ccDB' = ccDB
        BY <1>3, <2>1, <2>3, NewRecords, SessionAssumption DEF newCSLock
      <3>2. QED
        BY <2>1, <2>2, <3>1
           DEF SessionCore, SessionHoldsLock, OpenDBIsOfSession, LockIsOfSession, NewCSIsAlone
    <2>4. CASE lock # Free
      <3>1. uCS' = None /\ UNCHANGED <<lock, leaked>>
        BY <1>3, <2>1, <2>4 DEF newCSLock
      <3>2. ccDB' = [ccDB EXCEPT ![tokens] = ClosedDB]
        BY <1>3, <2>4 DEF newCSLock
      <3>3. \A t \in Token : ~ccDB'[t].open
        BY <1>typed, <2>1, <2>2, <3>2 DEF ClosedDB
      <3>4. QED
        BY <2>1, <3>1, <3>3
           DEF SessionCore, SessionHoldsLock, OpenDBIsOfSession, LockIsOfSession, NewCSIsAlone
    <2>5. QED
      BY <2>3, <2>4
  <1>4. ASSUME NEW c \in Terminal, suspendCS(c)
        PROVE  SessionCore'
    <2>1. uCS' = uCS \/ (uCS # None /\ uCS' \in Session /\ uCS'.token = uCS.token)
      BY <1>4, <1>typed DEF suspendCS, IsActive, Session
    <2>2. QED
      BY <1>4, <2>1, SameSession, SessionAssumption DEF suspendCS
  <1>5. ASSUME NEW c \in Terminal, resumeCS(c)
        PROVE  SessionCore'
    <2>1. uCS' = uCS \/ (uCS # None /\ uCS' \in Session /\ uCS'.token = uCS.token)
      BY <1>5, <1>typed DEF resumeCS, Session
    <2>2. QED
      BY <1>5, <2>1, SameSession, SessionAssumption DEF resumeCS
  <1>6. ASSUME NEW c \in Terminal, saveRunningConfig(c)
        PROVE  SessionCore'
    BY <1>6, SameSession DEF saveRunningConfig
  <1>7. ASSUME NEW c \in Terminal, SetRollbackCfg(c)
        PROVE  SessionCore'
    <2>1. req[c].saved \in {None} \cup Config
      BY DEF KnownRequest, ActionRequest
    <2>2. uCS' = uCS \/ (uCS # None /\ uCS' \in Session /\ uCS'.token = uCS.token)
      BY <1>7, <1>typed, <2>1 DEF SetRollbackCfg, Session
    <2>3. QED
      BY <1>7, <2>2, SameSession, SessionAssumption DEF SetRollbackCfg
  <1>8. ASSUME NEW c \in Terminal, commitCS(c)
        PROVE  SessionCore'
    <2>1. IsActive => uCS # None /\ uCS \in Session /\ uCS.token \in Token
      BY <1>typed DEF IsActive
    <2>2. csMutex = None /\ UNCHANGED <<up, tokens, csMutex>>
      BY <1>8 DEF commitCS, AtLocked
    <2>3. CASE ~IsActive
      BY <1>8, <2>2, <2>3, SameSession DEF commitCS
    <2>4. ASSUME IsActive, ccDB' = [ccDB EXCEPT ![uCS.token] = TxOver(uCS.token)],
                 UNCHANGED <<lock, leaked>>,
                 uCS' = uCS \/ (uCS' # None /\ uCS'.token = uCS.token)
          PROVE  SessionCore'
      <3>1. ccDB[uCS.token].open
        BY <2>1, <2>4 DEF SessionCore, OpenDBIsOfSession
      <3>2. \A t \in Token : ccDB'[t].open = ccDB[t].open
        BY <1>typed, <2>1, <2>4, <3>1 DEF TxOver, ClosedDB, CandidateDB
      <3>3. QED
        BY <2>1, <2>2, <2>4, <3>2, SameSession
    <2>5. CASE IsActive /\ ~CommitsTx(uCS.token)
      BY <1>8, <2>4, <2>5 DEF commitCS
    <2>6. CASE IsActive /\ CommitsTx(uCS.token) /\ req[c].op = "Commit"
      BY <1>8, <2>1, <2>2, <2>6, SessionEnds DEF commitCS
    <2>7. CASE IsActive /\ CommitsTx(uCS.token) /\ req[c].op = "CommitTimer"
      <3>1. uCS' \in Session /\ uCS'.token = uCS.token
        BY <1>8, <2>1, <2>7 DEF commitCS, Session
      <3>2. QED
        BY <1>8, <2>4, <2>7, <3>1, SessionAssumption DEF commitCS
    <2>8. QED
      BY <1>8, <2>3, <2>5, <2>6, <2>7 DEF commitCS
  <1>9. ASSUME NEW c \in Terminal, StartCommitTimer(c)
        PROVE  SessionCore'
    <2>1. req[c].mine \in {None} \cup Token
      BY DEF KnownRequest, ActionRequest
    <2>2. uCS' = uCS \/ (uCS # None /\ uCS' \in Session /\ uCS'.token = uCS.token)
      BY <1>9, <1>typed, <2>1 DEF StartCommitTimer, Session
    <2>3. QED
      BY <1>9, <2>2, SameSession, SessionAssumption DEF StartCommitTimer
  <1>10. ASSUME NEW c \in Terminal, SetCommitCh(c)
         PROVE  SessionCore'
    <2>1. req[c].mine \in {None} \cup Token
      BY DEF KnownRequest, ActionRequest
    <2>2. uCS' = uCS \/ (uCS # None /\ uCS' \in Session /\ uCS'.token = uCS.token)
      BY <1>10, <1>typed, <2>1 DEF SetCommitCh, Session
    <2>3. QED
      BY <1>10, <2>2, SameSession, SessionAssumption DEF SetCommitCh
  <1>11. ASSUME NEW c \in Terminal, stopTimer(c)
         PROVE  SessionCore'
    BY <1>11, SameSession DEF stopTimer
  <1>12. ASSUME NEW c \in Terminal, send(c)
         PROVE  SessionCore'
    BY <1>12, SameSession DEF send
  <1>13. ASSUME NEW c \in Terminal, createCpHistory(c)
         PROVE  SessionCore'
    BY <1>13, SameSession DEF createCpHistory
  <1>14. ASSUME NEW c \in Terminal, cleanCS(c)
         PROVE  SessionCore'
    BY <1>14, SameSession, SessionEnds DEF cleanCS, AtLocked
  <1>15. ASSUME NEW c \in Terminal, abortReload(c)
         PROVE  SessionCore'
    BY <1>15, <1>typed, SameSession, DirtyOpensNothing DEF abortReload
  <1>16. ASSUME NEW c \in Terminal, deleteCS(c)
         PROVE  SessionCore'
    BY <1>16, SameSession, SessionEnds DEF deleteCS, AtLocked
  <1>17. ASSUME NEW c \in Terminal, write(c)
         PROVE  SessionCore'
    <2> DEFINE mine == req[c].sess.token
    <2>1. mine \in Token
      BY <1>17 DEF write, At, KnownRequest, NeedsCopy, Session
    <2>2. ASSUME NEW v \in Config, ccDB' = [ccDB EXCEPT ![mine].candidate = v]
          PROVE  \A t \in Token : ccDB'[t].open = ccDB[t].open
      BY <1>typed, <2>1, <2>2 DEF CandidateDB
    <2>3. \A t \in Token : ccDB'[t].open = ccDB[t].open
      BY <1>17, <2>2 DEF write
    <2>4. QED
      BY <1>17, <2>3, SameSession DEF write
  <1>18. ASSUME NEW c \in Terminal, TerminalCloses(c)
         PROVE  SessionCore'
    BY <1>18, SameSession DEF TerminalCloses
  <1>19. ASSUME NEW t \in Token, TimerExpires(t)
         PROVE  SessionCore'
    BY <1>19, SameSession DEF TimerExpires
  <1>20. ASSUME NEW t \in Token, SetCommitState(t)
         PROVE  SessionCore'
    <2>1. uCS' = uCS \/ (uCS # None /\ uCS' \in Session /\ uCS'.token = uCS.token)
      BY <1>20, <1>typed DEF SetCommitState, Session
    <2>2. QED
      BY <1>20, <2>1, SameSession, SessionAssumption DEF SetCommitState
  <1>21. ASSUME NEW t \in Token, configReload(t)
         PROVE  SessionCore'
    BY <1>21, <1>typed, SameSession, DirtyOpensNothing DEF configReload
  <1>22. ASSUME NEW t \in Token, RoutineCleanCS(t)
         PROVE  SessionCore'
    <2>1. CASE uCS = None
      BY <1>22, <2>1, ProcessGoneCore DEF RoutineCleanCS
    <2>2. CASE uCS # None
      BY <1>22, <2>2, SessionEnds DEF RoutineCleanCS
    <2>3. QED
      BY <2>1, <2>2
  <1>23. CASE WriterLocks
    <2>1. uCS = None
      BY <1>23, <1>typed, SessionAssumption DEF WriterLocks, SessionCore, SessionHoldsLock
    <2>2. QED
      BY <1>23, <2>1, SessionAssumption
         DEF WriterLocks, SessionCore, SessionHoldsLock, OpenDBIsOfSession, LockIsOfSession,
             NewCSIsAlone
  <1>24. CASE WriterCommits
    <2>1. uCS = None
      BY <1>24, <1>typed, SessionAssumption DEF WriterCommits, SessionCore, SessionHoldsLock
    <2>2. \A t \in Token : ccDB'[t].open = ccDB[t].open
      BY <1>24, <1>typed, DirtyOpensNothing DEF WriterCommits
    <2>3. QED
      BY <1>24, <2>1, <2>2, SessionAssumption
         DEF WriterCommits, SessionCore, SessionHoldsLock, OpenDBIsOfSession, LockIsOfSession,
             NewCSIsAlone
  <1>25. CASE Crash
    BY <1>25, ProcessGoneCore DEF Crash
  <1>26. CASE Restart
    <2>1. uCS = None /\ csMutex = None
      BY <1>26 DEF Restart, SessionCore, NewCSIsAlone
    <2>2. QED
      BY <1>26, <2>1, SessionAssumption
         DEF Restart, SessionCore, SessionHoldsLock, OpenDBIsOfSession, LockIsOfSession,
             NewCSIsAlone
  <1>27. CASE UNCHANGED vars
    BY <1>27, SameSession DEF vars
  <1>28. QED
    BY <1>1, <1>2, <1>3, <1>4, <1>5, <1>6, <1>7, <1>8, <1>9, <1>10, <1>11, <1>12, <1>13,
       <1>14, <1>15, <1>16, <1>17, <1>18, <1>19, <1>20, <1>21, <1>22, <1>23, <1>24, <1>25,
       <1>26, <1>27 DEF Next, Request, Routine

(* The invariant of the Config Session. *)
THEOREM SessionInvariant == Spec => []SessionInv
  <1>1. Init => SessionInv
    BY InitTypeInv, InitCore DEF SessionInv
  <1>2. SessionInv /\ [Next]_vars => SessionInv'
    BY NextTypeInv, NextCore DEF SessionInv
  <1>3. QED
    BY <1>1, <1>2, PTL DEF Spec

(* The session the server has holds the ConfigDB lock, although every request
   decides on a copy of it and gives csMutex back between its steps. *)
THEOREM SessionKeepsLock == Spec => []SessionHoldsLock
  <1>1. SessionInv => SessionHoldsLock
    BY DEF SessionInv, SessionCore
  <1>2. QED
    BY <1>1, SessionInvariant, PTL

(* No handle of a session that is over stays open, and none of a live session
   is closed, also when a late goroutine cleans up after another session. *)
THEOREM SessionOwnsOpenDB == Spec => []OpenDBIsOfSession
  <1>1. SessionInv => OpenDBIsOfSession
    BY DEF SessionInv, SessionCore
  <1>2. QED
    BY <1>1, SessionInvariant, PTL

(* While the server runs, a lock of a session that is over is one whose
   ConfigDBUnlock has failed. *)
THEOREM SessionLeavesNoLock == Spec => []LockIsOfSession
  <1>1. SessionInv => LockIsOfSession
    BY DEF SessionInv, SessionCore
  <1>2. QED
    BY <1>1, SessionInvariant, PTL

---------------------------------------------------------------------------
\* A commit that waits for its confirmation. What a request has checked on its
\* copy is of use here, since no other request comes in between.

\* One terminal, whose requests follow one another, an administrator who aborts
\* no rollback, and a host service and a lock that answer. The server may crash.
Attended ==
    /\ \A c, d \in Terminal : c = d
    /\ Patient /\ ~HostFaults /\ ~LockFaults

\* Steps at which the request has answered for the goroutine, or it has not begun.
SettlingStep == {"startTimer", "setCh", "cpHistory", "cleanCS", "reload", "deleteCS"}
UncommittedStep == {"save", "setRollback", "commitCS"}
Quiet == \A t \in Token : routine[t].at \in {"none", "ended"}

\* newCS keeps csMutex between its two steps, and no other request does.
MutexIsOfNewCS == csMutex # None => req[csMutex].at = "newCSLock"

\* A configuration to go back to is that of a session which has committed.
UndoIsOfSession ==
    /\ up /\ undo # None => uCS # None /\ uCS.commitState # "None"
    /\ uCS # None /\ uCS.commitState # "None" => ~ccDB[uCS.token].tx

\* The goroutine that is not over belongs to the session, and goes back to what
\* the commit has replaced.
RoutineIsOfSession ==
    \A t \in Token : routine[t].at \notin {"none", "ended"} =>
        /\ uCS # None /\ uCS.token = t
        /\ uCS.commitState = (IF routine[t].at \in {"waiting", "setState"}
                              THEN "ConfirmTimer" ELSE "RollbackReplace")
        /\ IF routine[t].at = "cleanCS" THEN undo = None
           ELSE undo # None /\ routine[t].rollbackCfg = undo

\* A session in CONFIRM_TIMER knows its timer, its channel and its way back, but
\* for the request that is about to set or to end them.
SessionKnowsTimer ==
    uCS # None /\ uCS.commitState = "ConfirmTimer" =>
        \/ /\ undo # None /\ uCS.rollbackCfg = undo
           /\ uCS.commitTimer = uCS.token /\ uCS.commitCh = uCS.token
        \/ \E c \in Terminal : req[c].at \in {"startTimer", "setCh", "deleteCS"}

\* What the request knows at its next step.
RequestKnows(c) ==
    /\ req[c].at \in SettlingStep => Quiet
    /\ req[c].at \in UncommittedStep /\ uCS # None =>
          /\ uCS.commitState # "ConfirmTimer"
          /\ ccDB[uCS.token].tx /\ req[c].op = "CommitTimer" /\ req[c].at # "save"
                => req[c].saved = running
          /\ ccDB[uCS.token].tx /\ req[c].op = "CommitTimer" /\ req[c].at = "commitCS"
                => uCS.rollbackCfg = running
    /\ req[c].at \in {"startTimer", "setCh", "cpHistory", "cleanCS", "reload"} =>
          uCS # None /\ uCS.commitState = "ConfirmTimer" /\ undo # None
    /\ req[c].at \in {"startTimer", "setCh"} =>
          /\ req[c].mine = uCS.token
          /\ req[c].saved = undo /\ uCS.rollbackCfg = undo
    /\ req[c].at = "setCh" => uCS.commitTimer = uCS.token
    /\ req[c].at \in {"stopTimer", "send"} =>
          /\ req[c].sess.commitTimer = req[c].sess.token
          /\ req[c].sess.commitCh = req[c].sess.token
          /\ routine[req[c].sess.token].at = "waiting" =>
                req[c].sess.rollbackCfg = routine[req[c].sess.token].rollbackCfg
    /\ req[c].at = "reload" => req[c].sess.rollbackCfg = undo
    /\ req[c].at = "deleteCS" => undo = None

ConfirmInv ==
    /\ ~up /\ undo # None => lock \in Token     \* the lock waits for Restart
    /\ MutexIsOfNewCS /\ UndoIsOfSession /\ RoutineIsOfSession /\ SessionKnowsTimer
    /\ \A c \in Terminal : RequestKnows(c)

(* The values of the variables, as the steps need them. *)
LEMMA SessionFields ==
    ASSUME SessionTypeInv
    PROVE  /\ uCS # None =>
                 /\ uCS \in Session /\ uCS.token \in Token
                 /\ uCS.commitState \in {"None", "ConfirmTimer", "RollbackReplace"}
           /\ ccDB \in [Token -> CandidateDB]
           /\ req \in [Terminal -> KnownRequest]
           /\ routine \in [Token -> KnownRoutine]
           /\ undo # None => undo \in Config
           /\ running \in Config /\ running # None
  BY SessionAssumption DEF SessionTypeInv, SessionTypeOK, Session

(* A step of a request keeps what the request has in its local variables. *)
LEMMA GotoKeepsLocals ==
    ASSUME req \in [Terminal -> KnownRequest], NEW c \in Terminal, NEW label, Goto(c, label)
    PROVE  /\ req'[c].at = label
           /\ req'[c].op = req[c].op /\ req'[c].sess = req[c].sess
           /\ req'[c].saved = req[c].saved /\ req'[c].mine = req[c].mine
  BY DEF Goto, KnownRequest, ActionRequest

(* A request that has returned waits for nothing. *)
LEMMA DoneIsIdle ==
    ASSUME req \in [Terminal -> KnownRequest], NEW c \in Terminal, Done(c)
    PROVE  req'[c].at = "idle"
  BY DEF Done, NoRequest

(* A step of a goroutine is its own. *)
LEMMA RoutineGotoSteps ==
    ASSUME routine \in [Token -> KnownRoutine], NEW t \in Token, NEW label,
           RoutineGoto(t, label)
    PROVE  /\ \A u \in Token : routine'[u].at = (IF u = t THEN label ELSE routine[u].at)
           /\ \A u \in Token : routine'[u].rollbackCfg = routine[u].rollbackCfg
  <1>1. routine[t] \in TimerRoutine
    BY DEF KnownRoutine
  <1>2. QED
    BY <1>1 DEF RoutineGoto, TimerRoutine

(* What the copy says that makes a request begin with a step. *)
LEMMA FirstStepKnows ==
    ASSUME NEW o \in Op, NEW s \in {None} \cup Session
    PROVE  /\ FirstStep(o, s) \notin {"newCSLock", "setRollback", "startTimer", "setCh",
                                      "cleanCS", "reload", "send"}
           /\ FirstStep(o, s) = "cpHistory" =>
                 s # None /\ s.commitState = "ConfirmTimer" /\ s.commitTimer = None
           /\ FirstStep(o, s) = "stopTimer" => s # None /\ s.commitState = "ConfirmTimer"
           /\ FirstStep(o, s) = "deleteCS" =>
                 /\ s # None /\ s.commitState # "ConfirmTimer"
                 /\ o = "Abort" \/ s.commitState # "RollbackReplace"
           /\ FirstStep(o, s) \in {"save", "commitCS"} =>
                 s # None /\ s.commitState # "ConfirmTimer"
           /\ FirstStep(o, s) = "commitCS" => o # "CommitTimer"
  <1> DEFINE f == FirstStep(o, s)
  <1>1. CASE o = "Start"
    <2>1. f = StartOrResume(s)
      BY <1>1 DEF FirstStep
    <2>2. StartOrResume(s) \in {"newCSWatch", "resume", "suspendStale", "idle"}
      BY DEF StartOrResume
    <2>3. QED
      BY <2>1, <2>2
  <1>2. CASE o = "Exit"
    <2>1. f = Exit(s)
      BY <1>2 DEF FirstStep
    <2>2. QED
      BY <2>1 DEF Exit
  <1>3. CASE o = "Commit"
    <2>1. f = Commit(s, "commitCS")
      BY <1>3 DEF FirstStep
    <2>2. QED
      BY <1>3, <2>1 DEF Commit
  <1>4. CASE o = "CommitTimer"
    <2>1. f = Commit(s, "save")
      BY <1>4 DEF FirstStep
    <2>2. QED
      BY <1>4, <2>1 DEF Commit
  <1>5. CASE o = "Confirm"
    <2>1. f = processCommitConfirm(s)
      BY <1>5 DEF FirstStep
    <2>2. QED
      BY <1>5, <2>1 DEF processCommitConfirm
  <1>6. CASE o = "Abort"
    <2>1. f = Abort(s)
      BY <1>6 DEF FirstStep
    <2>2. QED
      BY <1>6, <2>1 DEF Abort
  <1>7. CASE o = "Kill"
    <2>1. f = Kill(s)
      BY <1>7 DEF FirstStep
    <2>2. QED
      BY <1>7, <2>1 DEF Kill
  <1>8. CASE o = "Write"
    <2>1. f = IF s # None THEN "write" ELSE "idle"
      BY <1>8 DEF FirstStep
    <2>2. QED
      BY <2>1
  <1>9. QED
    BY <1>1, <1>2, <1>3, <1>4, <1>5, <1>6, <1>7, <1>8 DEF Op

(* A session without a commit to be confirmed has no goroutine. *)
LEMMA NoCommitIsQuiet ==
    ASSUME up, ConfirmInv, uCS = None \/ uCS.commitState = "None"
    PROVE  Quiet /\ undo = None
  BY DEF ConfirmInv, RoutineIsOfSession, UndoIsOfSession, Quiet

(* When a step of the one request leaves the session, its goroutine and ConfigDB
   alone, only what the request knows has to be looked at. *)
LEMMA OnlyRequestMoves ==
    ASSUME up, SessionTypeInv, ConfirmInv, Attended, NEW c \in Terminal,
           UNCHANGED <<uCS, undo, up>>,
           \A t \in Token : ccDB'[t].tx = ccDB[t].tx,
           \A t \in Token : routine'[t].at = routine[t].at
                            /\ routine'[t].rollbackCfg = routine[t].rollbackCfg,
           MutexIsOfNewCS', RequestKnows(c)',
           req[c].at \in {"startTimer", "setCh", "deleteCS"} => uCS = None
    PROVE  ConfirmInv'
  <1>1. \A d \in Terminal : d = c
    BY DEF Attended
  <1>2. uCS # None => uCS.token \in Token
    BY SessionFields
  <1>3. UndoIsOfSession'
    BY <1>2 DEF ConfirmInv, UndoIsOfSession
  <1>4. RoutineIsOfSession'
    BY DEF ConfirmInv, RoutineIsOfSession
  <1>5. SessionKnowsTimer'
    BY <1>1 DEF ConfirmInv, SessionKnowsTimer
  <1>6. QED
    BY <1>1, <1>3, <1>4, <1>5 DEF ConfirmInv

(* The end of the session, when nothing waits for a confirmation any more. *)
LEMMA EndIsQuiet ==
    ASSUME SessionTypeInv, ConfirmInv, Attended, NEW c \in Terminal,
           uCS' = None, undo' = None, UNCHANGED up,
           \A t \in Token : routine'[t].at \in {"none", "ended"},
           csMutex' = None,
           req'[c].at \notin {"startTimer", "setCh", "cpHistory", "cleanCS", "reload"},
           req'[c].at \in {"stopTimer", "send"} => req'[c] = req[c] /\ req[c].sess.token \in Token
    PROVE  ConfirmInv'
  <1>1. \A d \in Terminal : d = c
    BY DEF Attended
  <1>2. Quiet'
    BY DEF Quiet
  <1>3. RequestKnows(c)'
    BY <1>2 DEF ConfirmInv, RequestKnows
  <1>4. MutexIsOfNewCS' /\ UndoIsOfSession' /\ RoutineIsOfSession' /\ SessionKnowsTimer'
    BY DEF MutexIsOfNewCS, UndoIsOfSession, RoutineIsOfSession, SessionKnowsTimer
  <1>5. QED
    BY <1>1, <1>3, <1>4 DEF ConfirmInv

\* The session is the same one, and so is its commit.
SameCommit ==
    /\ uCS # None /\ uCS' # None
    /\ uCS'.token = uCS.token /\ uCS'.commitState = uCS.commitState
    /\ uCS'.rollbackCfg = uCS.rollbackCfg
    /\ uCS'.commitTimer = uCS.commitTimer /\ uCS'.commitCh = uCS.commitCh

(* Suspending and resuming a session touches nothing of its commit. *)
LEMMA NewState ==
    ASSUME up, SessionTypeInv, ConfirmInv, Attended, NEW c \in Terminal,
           uCS' = uCS \/ SameCommit,
           UNCHANGED <<running, ccDB, routine, undo, up>>,
           csMutex' = None,
           req[c].at \in {"suspend", "suspendStale", "resume"},
           req'[c].at \in {"idle", "resume"}
    PROVE  ConfirmInv'
  <1>1. \A d \in Terminal : d = c
    BY DEF Attended
  <1>2. MutexIsOfNewCS' /\ RequestKnows(c)'
    BY DEF MutexIsOfNewCS, RequestKnows, SettlingStep, UncommittedStep
  <1>3. UndoIsOfSession' /\ RoutineIsOfSession'
    BY DEF ConfirmInv, UndoIsOfSession, RoutineIsOfSession, SameCommit
  <1>4. SessionKnowsTimer'
    BY <1>1 DEF ConfirmInv, SessionKnowsTimer, SameCommit
  <1>5. QED
    BY <1>1, <1>2, <1>3, <1>4 DEF ConfirmInv

(* A write by others ends no transaction and begins none. *)
LEMMA DirtyEndsNothing ==
    ASSUME ccDB \in [Token -> CandidateDB]
    PROVE  \A t \in Token : Dirty[t].tx = ccDB[t].tx
  BY DEF Dirty, CandidateDB

(* The goroutine moves while no request answers for it; a commit that would
   depend on ConfigDB has lost its transaction by then. *)
LEMMA GoroutineMoves ==
    ASSUME up, SessionTypeInv, ConfirmInv, NEW t \in Token,
           routine[t].at \in {"waiting", "setState", "reload"},
           NEW label \in {"setState", "reload", "cleanCS"}, RoutineGoto(t, label),
           label = "setState" => routine[t].at = "waiting",
           UNCHANGED <<req, csMutex, up>>,
           uCS' # None, uCS'.token = uCS.token,
           uCS'.commitState = IF label = "setState" THEN "ConfirmTimer" ELSE "RollbackReplace",
           uCS'.rollbackCfg = uCS.rollbackCfg,
           uCS'.commitTimer = uCS.commitTimer, uCS'.commitCh = uCS.commitCh,
           undo' = IF label = "cleanCS" THEN None ELSE undo,
           \A u \in Token : ccDB'[u].tx = ccDB[u].tx
    PROVE  ConfirmInv'
  <1>1. /\ \A u \in Token : routine'[u].at = (IF u = t THEN label ELSE routine[u].at)
        /\ \A u \in Token : routine'[u].rollbackCfg = routine[u].rollbackCfg
    BY SessionFields, RoutineGotoSteps DEF RoutineStep
  <1>2. /\ uCS # None /\ uCS.token = t /\ uCS.commitState # "None" /\ ~ccDB[t].tx
        /\ undo # None /\ routine[t].rollbackCfg = undo
        /\ \A u \in Token : u # t => routine[u].at \in {"none", "ended"}
    BY DEF ConfirmInv, RoutineIsOfSession, UndoIsOfSession
  <1>3. \A c \in Terminal : req[c].at \notin SettlingStep
    BY DEF ConfirmInv, RequestKnows, Quiet
  <1>4. ASSUME NEW c \in Terminal PROVE RequestKnows(c)'
    <2>1. RequestKnows(c) /\ req[c].at \notin SettlingStep
      BY <1>3 DEF ConfirmInv
    <2>2. req[c].at \in UncommittedStep => uCS'.commitState # "ConfirmTimer"
      BY <1>2, <2>1 DEF ConfirmInv, RoutineIsOfSession, RequestKnows
    <2>3. ~ccDB'[uCS'.token].tx
      BY <1>2
    <2>4. req[c].at \in {"stopTimer", "send"} => req[c].sess.token \in Token
      BY SessionFields DEF KnownRequest, NeedsCopy, Session
    <2>5. QED
      BY <1>1, <2>1, <2>2, <2>3, <2>4 DEF RequestKnows, SettlingStep
  <1>5. MutexIsOfNewCS'
    BY DEF ConfirmInv, MutexIsOfNewCS
  <1>6. UndoIsOfSession'
    BY <1>2 DEF UndoIsOfSession
  <1>7. RoutineIsOfSession'
    BY <1>1, <1>2 DEF RoutineIsOfSession
  <1>8. SessionKnowsTimer'
    <2>1. uCS'.commitState = "ConfirmTimer" =>
             label = "setState" /\ undo' = undo /\ uCS.commitState = "ConfirmTimer"
      BY <1>2 DEF ConfirmInv, RoutineIsOfSession
    <2>2. QED
      BY <1>2, <1>3, <2>1 DEF ConfirmInv, SessionKnowsTimer, SettlingStep
  <1>9. QED
    BY <1>4, <1>5, <1>6, <1>7, <1>8 DEF ConfirmInv

(* While the server runs the invariant does not look at the lock. *)
LEMMA SameIsKnown ==
    ASSUME ConfirmInv, UNCHANGED <<running, ccDB, up, csMutex, uCS, req, routine, undo>>,
           up \/ lock' = lock
    PROVE  ConfirmInv'
  BY DEF ConfirmInv, MutexIsOfNewCS, UndoIsOfSession, RoutineIsOfSession, SessionKnowsTimer,
         RequestKnows, Quiet

(* At the beginning nothing is committed. *)
LEMMA InitConfirmInv == Init => ConfirmInv
  BY SessionAssumption
     DEF Init, ConfirmInv, MutexIsOfNewCS, UndoIsOfSession, RoutineIsOfSession,
         SessionKnowsTimer, RequestKnows, NoRequest, NoRoutine, SettlingStep,
         UncommittedStep

(* A request that returns, and has changed no more than its own variables. *)
LEMMA OnlyReturns ==
    ASSUME up, SessionTypeInv, ConfirmInv, Attended, NEW c \in Terminal, Done(c),
           UNCHANGED <<uCS, undo, up, csMutex, routine>>,
           \A t \in Token : ccDB'[t].tx = ccDB[t].tx,
           req[c].at # "newCSLock",
           req[c].at \in {"startTimer", "setCh", "deleteCS"} => uCS = None
    PROVE  ConfirmInv'
  <1>1. req'[c].at = "idle"
    BY SessionFields, DoneIsIdle
  <1>2. \A d \in Terminal : d = c
    BY DEF Attended
  <1>3. MutexIsOfNewCS' /\ RequestKnows(c)'
    <2>1. csMutex \in {None} \cup Terminal
      BY DEF SessionTypeInv, SessionTypeOK
    <2>2. csMutex = None
      BY <1>2, <2>1 DEF ConfirmInv, MutexIsOfNewCS
    <2>3. QED
      BY <1>1, <2>2 DEF MutexIsOfNewCS, RequestKnows, SettlingStep, UncommittedStep
  <1>4. QED
    BY <1>3, OnlyRequestMoves

(* A step of the server that runs: the request that moves is the only one, and
   the goroutine finds its session. *)
LEMMA StepWhileUp ==
    up /\ Attended /\ SessionInv /\ ConfirmInv /\ [Next]_vars => ConfirmInv'
  <1> SUFFICES ASSUME up, Attended, SessionInv, ConfirmInv, [Next]_vars PROVE ConfirmInv'
    OBVIOUS
  <1> USE DEF dbVars, server, history
  <1>types. SessionTypeInv
    BY DEF SessionInv
  <1>fields. /\ uCS # None =>
                  /\ uCS \in Session /\ uCS.token \in Token
                  /\ uCS.commitState \in {"None", "ConfirmTimer", "RollbackReplace"}
             /\ ccDB \in [Token -> CandidateDB]
             /\ req \in [Terminal -> KnownRequest]
             /\ routine \in [Token -> KnownRoutine]
             /\ undo # None => undo \in Config
             /\ running \in Config /\ running # None
    BY <1>types, SessionFields
  <1>mutex. csMutex \in {None} \cup Terminal
    BY <1>types DEF SessionTypeInv, SessionTypeOK
  <1>up. up
    OBVIOUS
  <1>one. \A c, d \in Terminal : c = d
    BY DEF Attended
  <1>1. ASSUME NEW c \in Terminal, NEW o \in Op, GetSession(c, o)
        PROVE  ConfirmInv'
    <2> DEFINE f == FirstStep(o, uCS)
    <2>1. /\ req[c].at = "idle" /\ csMutex = None /\ csMutex' = None
          /\ UNCHANGED <<running, lock, ccDB, up, uCS, routine, undo>>
          /\ o = "Abort" /\ uCS # None => uCS.commitState # "RollbackReplace"
      BY <1>1 DEF GetSession, AtLocked, At, Attended
    <2>2. /\ req'[c].at = f /\ req'[c].op = o /\ req'[c].sess = uCS
      BY <1>1, <1>fields DEF GetSession, NoRequest
    <2>3. /\ f \notin {"newCSLock", "setRollback", "startTimer", "setCh", "cleanCS",
                       "reload", "send"}
          /\ f = "cpHistory" =>
                uCS # None /\ uCS.commitState = "ConfirmTimer" /\ uCS.commitTimer = None
          /\ f = "stopTimer" => uCS # None /\ uCS.commitState = "ConfirmTimer"
          /\ f = "deleteCS" =>
                /\ uCS # None /\ uCS.commitState # "ConfirmTimer"
                /\ o = "Abort" \/ uCS.commitState # "RollbackReplace"
          /\ f \in {"save", "commitCS"} => uCS # None /\ uCS.commitState # "ConfirmTimer"
          /\ f = "commitCS" => o # "CommitTimer"
      BY <1>fields, FirstStepKnows
    <2> HIDE DEF f
    <2>4. uCS # None /\ uCS.commitState = "ConfirmTimer" =>
             /\ undo # None /\ uCS.rollbackCfg = undo
             /\ uCS.commitTimer = uCS.token /\ uCS.commitCh = uCS.token
      BY <1>one, <2>1 DEF ConfirmInv, SessionKnowsTimer
    <2>5. f # "cpHistory"
      BY <1>fields, <2>3, <2>4, SessionAssumption
    <2>6. f = "deleteCS" => Quiet /\ undo = None
      BY <1>up, <1>fields, <2>1, <2>3, NoCommitIsQuiet
    <2>7. f = "stopTimer" =>
             /\ uCS.commitTimer = uCS.token /\ uCS.commitCh = uCS.token
             /\ routine[uCS.token].at = "waiting" =>
                   uCS.rollbackCfg = routine[uCS.token].rollbackCfg
      BY <1>fields, <2>3, <2>4 DEF ConfirmInv, RoutineIsOfSession
    <2>8. Quiet' <=> Quiet
      BY <2>1 DEF Quiet
    <2>9. RequestKnows(c)'
      BY <2>1, <2>2, <2>3, <2>5, <2>6, <2>7, <2>8
         DEF RequestKnows, SettlingStep, UncommittedStep
    <2>10. MutexIsOfNewCS'
      BY <2>1 DEF MutexIsOfNewCS
    <2>11. QED
      BY <1>up, <1>types, <2>1, <2>9, <2>10, OnlyRequestMoves
  <1>2. ASSUME NEW c \in Terminal, newCSWatch(c)
        PROVE  ConfirmInv'
    <2>1. CASE uCS # None \/ tokens = MaxTokens
      <3>1. \/ Done(c) /\ UNCHANGED <<csMutex, tokens, ccDB>>
            \/ uCS = None /\ tokens < MaxTokens
        BY <1>2 DEF newCSWatch
      <3>2. Done(c) /\ UNCHANGED <<csMutex, tokens, ccDB>>
        BY <2>1, <3>1, <1>types, SessionAssumption DEF SessionTypeInv, SessionTypeOK
      <3>3. QED
        BY <1>2, <1>up, <1>types, <3>2, OnlyReturns DEF newCSWatch, AtLocked, At
    <2>2. CASE uCS = None /\ tokens # MaxTokens
      <3>1. /\ csMutex' = c /\ Goto(c, "newCSLock")
            /\ UNCHANGED <<uCS, routine, undo, up>>
        BY <1>2, <2>2 DEF newCSWatch
      <3>2. req'[c].at = "newCSLock"
        BY <1>fields, <3>1, GotoKeepsLocals
      <3>3. Quiet /\ undo = None
        BY <1>up, <2>2, NoCommitIsQuiet
      <3>4. MutexIsOfNewCS' /\ RequestKnows(c)'
        BY <3>1, <3>2 DEF MutexIsOfNewCS, RequestKnows, SettlingStep, UncommittedStep
      <3>5. UndoIsOfSession' /\ RoutineIsOfSession' /\ SessionKnowsTimer'
        BY <2>2, <3>1, <3>3 DEF UndoIsOfSession, RoutineIsOfSession, SessionKnowsTimer, Quiet
      <3>6. QED
        BY <1>one, <1>up, <3>1, <3>4, <3>5 DEF ConfirmInv
    <2>3. QED
      BY <2>1, <2>2
  <1>3. ASSUME NEW c \in Terminal, newCSLock(c)
        PROVE  ConfirmInv'
    <2>1. /\ csMutex # None /\ uCS = None /\ csMutex' = None /\ Done(c)
          /\ UNCHANGED <<running, routine, undo, up>>
      BY <1>3, SessionAssumption DEF newCSLock, SessionInv, SessionCore, NewCSIsAlone
    <2>2. Quiet /\ undo = None
      BY <1>up, <2>1, NoCommitIsQuiet
    <2>3. uCS' = None \/ uCS' = NewSession(tokens, c)
      BY <1>3, <2>1 DEF newCSLock
    <2>4. uCS' = None \/ uCS'.commitState = "None"
      BY <2>3 DEF NewSession
    <2>5. req'[c].at = "idle"
      BY <1>fields, <2>1, DoneIsIdle
    <2>6. MutexIsOfNewCS' /\ RequestKnows(c)'
      BY <2>1, <2>5 DEF MutexIsOfNewCS, RequestKnows, SettlingStep, UncommittedStep
    <2>7. UndoIsOfSession' /\ RoutineIsOfSession' /\ SessionKnowsTimer'
      BY <2>1, <2>2, <2>4 DEF UndoIsOfSession, RoutineIsOfSession, SessionKnowsTimer, Quiet
    <2>8. QED
      BY <1>one, <1>up, <2>1, <2>6, <2>7 DEF ConfirmInv
  <1>4. ASSUME NEW c \in Terminal, suspendCS(c)
        PROVE  ConfirmInv'
    <2>1. /\ req[c].at \in {"suspend", "suspendStale"} /\ csMutex = None /\ csMutex' = None
          /\ UNCHANGED <<running, ccDB, routine, undo, up>>
      BY <1>4 DEF suspendCS, AtLocked, At
    <2>2. req'[c].at \in {"idle", "resume"}
      BY <1>4, <1>fields, GotoKeepsLocals, DoneIsIdle DEF suspendCS
    <2>3. \/ uCS' = uCS
          \/ uCS # None /\ uCS' = [uCS EXCEPT !.state = "Suspended", !.pid = None]
      BY <1>4 DEF suspendCS, IsActive
    <2>4. uCS' = uCS \/ SameCommit
      <3>1. CASE uCS' = uCS
        BY <3>1
      <3>2. CASE uCS # None /\ uCS' = [uCS EXCEPT !.state = "Suspended", !.pid = None]
        <4>1. /\ uCS' \in Session
              /\ uCS'.token = uCS.token /\ uCS'.commitState = uCS.commitState
              /\ uCS'.rollbackCfg = uCS.rollbackCfg
              /\ uCS'.commitTimer = uCS.commitTimer /\ uCS'.commitCh = uCS.commitCh
          BY <1>fields, <3>2 DEF Session
        <4>2. QED
          BY <3>2, <4>1, SessionAssumption DEF SameCommit
      <3>3. QED
        BY <2>3, <3>1, <3>2
    <2>5. QED
      BY <1>up, <1>types, <2>1, <2>2, <2>4, NewState
  <1>5. ASSUME NEW c \in Terminal, resumeCS(c)
        PROVE  ConfirmInv'
    <2>1. /\ req[c].at = "resume" /\ csMutex = None /\ csMutex' = None
          /\ UNCHANGED <<running, ccDB, routine, undo, up>>
      BY <1>5 DEF resumeCS, AtLocked, At
    <2>2. req'[c].at \in {"idle", "resume"}
      BY <1>5, <1>fields, DoneIsIdle DEF resumeCS
    <2>3. \/ uCS' = uCS
          \/ uCS # None /\ uCS' = [uCS EXCEPT !.state = "Active", !.pid = c]
      BY <1>5 DEF resumeCS
    <2>4. uCS' = uCS \/ SameCommit
      <3>1. CASE uCS' = uCS
        BY <3>1
      <3>2. CASE uCS # None /\ uCS' = [uCS EXCEPT !.state = "Active", !.pid = c]
        <4>1. /\ uCS' \in Session
              /\ uCS'.token = uCS.token /\ uCS'.commitState = uCS.commitState
              /\ uCS'.rollbackCfg = uCS.rollbackCfg
              /\ uCS'.commitTimer = uCS.commitTimer /\ uCS'.commitCh = uCS.commitCh
          BY <1>fields, <3>2 DEF Session
        <4>2. QED
          BY <3>2, <4>1, SessionAssumption DEF SameCommit
      <3>3. QED
        BY <2>3, <3>1, <3>2
    <2>5. QED
      BY <1>up, <1>types, <2>1, <2>2, <2>4, NewState
  <1>6. ASSUME NEW c \in Terminal, saveRunningConfig(c)
        PROVE  ConfirmInv'
    <2>1. req[c].at = "save" /\ UNCHANGED <<running, ccDB, csMutex, up, uCS, routine, undo>>
      BY <1>6 DEF saveRunningConfig, At
    <2>2. CASE Done(c)
      BY <1>up, <1>types, <2>1, <2>2, OnlyReturns
    <2>3. CASE req' = [req EXCEPT ![c].saved = running, ![c].at = "setRollback"]
      <3>1. req'[c].at = "setRollback" /\ req'[c].saved = running
        BY <1>fields, <2>3 DEF KnownRequest, ActionRequest
      <3>2. csMutex = None
        BY <1>one, <1>mutex, <2>1 DEF ConfirmInv, MutexIsOfNewCS
      <3>3. uCS # None => uCS.commitState # "ConfirmTimer"
        BY <2>1 DEF ConfirmInv, RequestKnows, UncommittedStep
      <3>4. MutexIsOfNewCS' /\ RequestKnows(c)'
        BY <2>1, <3>1, <3>2, <3>3
           DEF MutexIsOfNewCS, RequestKnows, SettlingStep, UncommittedStep
      <3>5. QED
        BY <1>up, <1>types, <2>1, <3>4, OnlyRequestMoves
    <2>4. QED
      BY <1>6, <2>2, <2>3 DEF saveRunningConfig
  <1>7. ASSUME NEW c \in Terminal, SetRollbackCfg(c)
        PROVE  ConfirmInv'
    <2>1. /\ req[c].at = "setRollback" /\ csMutex = None /\ csMutex' = None
          /\ Goto(c, "commitCS")
          /\ UNCHANGED <<running, ccDB, up, routine, undo>>
      BY <1>7 DEF SetRollbackCfg, AtLocked, At
    <2>2. req'[c].at = "commitCS" /\ req'[c].op = req[c].op /\ req'[c].saved = req[c].saved
      BY <1>fields, <2>1, GotoKeepsLocals
    <2>3. req[c].saved \in Config
      BY <1>fields, <2>1 DEF KnownRequest, NeedsSaved
    <2>4. \/ uCS = None /\ uCS' = None
          \/ /\ uCS # None /\ uCS' # None
             /\ uCS'.token = uCS.token /\ uCS'.commitState = uCS.commitState
             /\ uCS'.rollbackCfg = req[c].saved
             /\ uCS.commitState # "ConfirmTimer"
      <3>1. uCS # None => uCS.commitState # "ConfirmTimer"
        BY <2>1 DEF ConfirmInv, RequestKnows, UncommittedStep
      <3>2. uCS' = IF uCS # None THEN [uCS EXCEPT !.rollbackCfg = req[c].saved] ELSE uCS
        BY <1>7 DEF SetRollbackCfg
      <3>3. uCS # None => uCS' \in Session
        BY <1>fields, <2>3, <3>2 DEF Session
      <3>4. QED
        BY <1>fields, <3>1, <3>2, <3>3, SessionAssumption DEF Session
    <2>5. RequestKnows(c)'
      BY <2>1, <2>2, <2>4 DEF ConfirmInv, RequestKnows, SettlingStep, UncommittedStep
    <2>6. /\ MutexIsOfNewCS' /\ UndoIsOfSession' /\ RoutineIsOfSession' /\ SessionKnowsTimer'
      BY <2>1, <2>4
         DEF ConfirmInv, MutexIsOfNewCS, UndoIsOfSession, RoutineIsOfSession, SessionKnowsTimer
    <2>7. QED
      BY <1>one, <1>up, <2>1, <2>5, <2>6 DEF ConfirmInv
  <1>8. ASSUME NEW c \in Terminal, commitCS(c)
        PROVE  ConfirmInv'
    <2>1. /\ req[c].at = "commitCS" /\ csMutex = None /\ csMutex' = None
          /\ UNCHANGED <<up, routine>>
      BY <1>8 DEF commitCS, AtLocked, At
    <2>2. CASE ~IsActive
      BY <1>8, <1>up, <1>types, <2>1, <2>2, OnlyReturns DEF commitCS
    <2>3. CASE IsActive /\ ~CommitsTx(uCS.token)
      <3>1. /\ Done(c) /\ UNCHANGED <<running, uCS, undo>>
            /\ ccDB' = [ccDB EXCEPT ![uCS.token] = TxOver(uCS.token)]
        BY <1>8, <2>3 DEF commitCS
      <3>2. uCS # None /\ ~ccDB'[uCS.token].tx
        BY <1>fields, <2>3, <3>1 DEF IsActive, TxOver, ClosedDB
      <3>3. req'[c].at = "idle"
        BY <1>fields, <3>1, DoneIsIdle
      <3>4. MutexIsOfNewCS' /\ RequestKnows(c)'
        BY <2>1, <3>3 DEF MutexIsOfNewCS, RequestKnows, SettlingStep, UncommittedStep
      <3>5. UndoIsOfSession' /\ RoutineIsOfSession'
        BY <2>1, <3>1, <3>2 DEF ConfirmInv, UndoIsOfSession, RoutineIsOfSession
      <3>6. SessionKnowsTimer'
        BY <1>one, <2>1, <3>1 DEF ConfirmInv, SessionKnowsTimer
      <3>7. QED
        BY <1>one, <1>up, <2>1, <3>4, <3>5, <3>6 DEF ConfirmInv
    <2>4. ASSUME IsActive, CommitsTx(uCS.token)
          PROVE  uCS # None /\ uCS.commitState = "None" /\ Quiet /\ undo = None
                 /\ ccDB[uCS.token].tx
      <3>1. uCS # None /\ ccDB[uCS.token].tx
        BY <2>4 DEF IsActive, CommitsTx
      <3>2. uCS.commitState = "None"
        BY <3>1 DEF ConfirmInv, UndoIsOfSession
      <3>3. QED
        BY <1>up, <3>1, <3>2, NoCommitIsQuiet
    <2>5. CASE IsActive /\ CommitsTx(uCS.token) /\ req[c].op = "Commit"
      <3>1. Done(c) /\ uCS' = None /\ undo' = undo
        BY <1>8, <2>5 DEF commitCS, EndSession
      <3>2. req'[c].at = "idle"
        BY <1>fields, <3>1, DoneIsIdle
      <3>3. \A t \in Token : routine'[t].at \in {"none", "ended"}
        BY <2>1, <2>4, <2>5 DEF Quiet
      <3>4. QED
        BY <1>up, <1>types, <2>1, <2>4, <2>5, <3>1, <3>2, <3>3, EndIsQuiet
    <2>6. CASE IsActive /\ CommitsTx(uCS.token) /\ req[c].op = "CommitTimer"
      <3>1. /\ undo' = running
            /\ ccDB' = [ccDB EXCEPT ![uCS.token] = TxOver(uCS.token)]
            /\ uCS' = [uCS EXCEPT !.commitState = "ConfirmTimer"]
            /\ req' = [req EXCEPT ![c].mine = uCS.token, ![c].at = "startTimer"]
        BY <1>8, <2>6 DEF commitCS
      <3>2. /\ uCS' # None /\ uCS' \in Session
            /\ uCS'.token = uCS.token /\ uCS'.commitState = "ConfirmTimer"
            /\ uCS'.rollbackCfg = uCS.rollbackCfg
        BY <1>fields, <2>4, <2>6, <3>1, SessionAssumption DEF Session
      <3>3. /\ req'[c].at = "startTimer" /\ req'[c].mine = uCS.token
            /\ req'[c].saved = req[c].saved
        BY <1>fields, <3>1 DEF KnownRequest, ActionRequest
      <3>4. req[c].saved = running /\ uCS.rollbackCfg = running
        BY <2>1, <2>4, <2>6 DEF ConfirmInv, RequestKnows, UncommittedStep
      <3>5. ~ccDB'[uCS.token].tx
        BY <1>fields, <2>4, <2>6, <3>1 DEF TxOver, ClosedDB
      <3>6. Quiet'
        BY <2>1, <2>4, <2>6 DEF Quiet
      <3>7. RequestKnows(c)'
        BY <1>fields, <3>1, <3>2, <3>3, <3>4, <3>6
           DEF RequestKnows, SettlingStep, UncommittedStep
      <3>8. MutexIsOfNewCS' /\ RoutineIsOfSession'
        BY <2>1, <3>6 DEF MutexIsOfNewCS, RoutineIsOfSession, Quiet
      <3>9. UndoIsOfSession' /\ SessionKnowsTimer'
        BY <3>2, <3>3, <3>5 DEF UndoIsOfSession, SessionKnowsTimer
      <3>10. QED
        BY <1>one, <1>up, <2>1, <3>7, <3>8, <3>9 DEF ConfirmInv
    <2>7. QED
      BY <1>8, <2>2, <2>3, <2>5, <2>6 DEF commitCS
  <1>9. ASSUME NEW c \in Terminal, StartCommitTimer(c)
        PROVE  ConfirmInv'
    <2>1. /\ req[c].at = "startTimer" /\ csMutex = None /\ csMutex' = None
          /\ UNCHANGED <<running, ccDB, up, undo>>
      BY <1>9 DEF StartCommitTimer, AtLocked, At
    <2>2. /\ uCS # None /\ uCS.commitState = "ConfirmTimer" /\ undo # None /\ Quiet
          /\ req[c].mine = uCS.token /\ req[c].saved = undo /\ uCS.rollbackCfg = undo
      BY <2>1 DEF ConfirmInv, RequestKnows, SettlingStep
    <2>3. /\ uCS' = [uCS EXCEPT !.commitTimer = uCS.token]
          /\ routine' = [routine EXCEPT ![uCS.token].timer = TRUE]
          /\ Goto(c, "setCh")
      BY <1>9, <2>2 DEF StartCommitTimer
    <2>4. /\ uCS' \in Session /\ uCS' # None
          /\ uCS'.token = uCS.token /\ uCS'.commitState = "ConfirmTimer"
          /\ uCS'.rollbackCfg = undo /\ uCS'.commitTimer = uCS.token
      <3>1. /\ uCS' \in Session
            /\ uCS'.token = uCS.token /\ uCS'.commitState = uCS.commitState
            /\ uCS'.rollbackCfg = uCS.rollbackCfg /\ uCS'.commitTimer = uCS.token
        BY <1>fields, <2>2, <2>3 DEF Session
      <3>2. QED
        BY <2>2, <3>1, SessionAssumption
    <2>5. \A t \in Token : routine'[t].at = routine[t].at
      BY <1>fields, <2>2, <2>3 DEF KnownRoutine, TimerRoutine
    <2>6. Quiet'
      BY <2>2, <2>5 DEF Quiet
    <2>7. /\ req'[c].at = "setCh" /\ req'[c].mine = uCS.token /\ req'[c].saved = undo
      BY <1>fields, <2>2, <2>3, GotoKeepsLocals
    <2>8. RequestKnows(c)'
      BY <2>1, <2>2, <2>4, <2>6, <2>7 DEF RequestKnows, SettlingStep, UncommittedStep
    <2>9. MutexIsOfNewCS' /\ RoutineIsOfSession'
      BY <2>1, <2>6 DEF MutexIsOfNewCS, RoutineIsOfSession, Quiet
    <2>10. UndoIsOfSession'
      BY <2>1, <2>2, <2>4 DEF ConfirmInv, UndoIsOfSession
    <2>11. SessionKnowsTimer'
      BY <2>7 DEF SessionKnowsTimer
    <2>12. QED
      BY <1>one, <1>up, <2>1, <2>8, <2>9, <2>10, <2>11 DEF ConfirmInv
  <1>10. ASSUME NEW c \in Terminal, SetCommitCh(c)
         PROVE  ConfirmInv'
    <2>1. /\ req[c].at = "setCh" /\ csMutex = None /\ csMutex' = None /\ Done(c)
          /\ UNCHANGED <<running, ccDB, up, undo>>
      BY <1>10 DEF SetCommitCh, AtLocked, At
    <2>2. /\ uCS # None /\ uCS.commitState = "ConfirmTimer" /\ undo # None /\ Quiet
          /\ req[c].mine = uCS.token /\ req[c].saved = undo /\ uCS.rollbackCfg = undo
          /\ uCS.commitTimer = uCS.token
      BY <2>1 DEF ConfirmInv, RequestKnows, SettlingStep
    <2>3. /\ uCS' = [uCS EXCEPT !.commitCh = uCS.token]
          /\ routine' = [routine EXCEPT ![uCS.token].at = "waiting",
                                        ![uCS.token].rollbackCfg = undo]
      BY <1>10, <2>2 DEF SetCommitCh
    <2>4. /\ uCS' \in Session /\ uCS' # None
          /\ uCS'.token = uCS.token /\ uCS'.commitState = "ConfirmTimer"
          /\ uCS'.rollbackCfg = undo
          /\ uCS'.commitTimer = uCS.token /\ uCS'.commitCh = uCS.token
      <3>1. /\ uCS' \in Session
            /\ uCS'.token = uCS.token /\ uCS'.commitState = uCS.commitState
            /\ uCS'.rollbackCfg = uCS.rollbackCfg
            /\ uCS'.commitTimer = uCS.commitTimer /\ uCS'.commitCh = uCS.token
        BY <1>fields, <2>2, <2>3 DEF Session
      <3>2. QED
        BY <2>2, <3>1, SessionAssumption
    <2>5. /\ routine'[uCS.token].at = "waiting" /\ routine'[uCS.token].rollbackCfg = undo
          /\ \A t \in Token : t # uCS.token => routine'[t] = routine[t]
      BY <1>fields, <2>2, <2>3 DEF KnownRoutine, TimerRoutine
    <2>6. RoutineIsOfSession'
      BY <2>1, <2>2, <2>4, <2>5 DEF RoutineIsOfSession, Quiet
    <2>7. req'[c].at = "idle"
      BY <1>fields, <2>1, DoneIsIdle
    <2>8. MutexIsOfNewCS' /\ RequestKnows(c)'
      BY <2>1, <2>7 DEF MutexIsOfNewCS, RequestKnows, SettlingStep, UncommittedStep
    <2>9. UndoIsOfSession'
      BY <2>1, <2>2, <2>4 DEF ConfirmInv, UndoIsOfSession
    <2>10. SessionKnowsTimer'
      BY <2>1, <2>2, <2>4 DEF SessionKnowsTimer
    <2>11. QED
      BY <1>one, <1>up, <2>1, <2>6, <2>8, <2>9, <2>10 DEF ConfirmInv
  <1>11. ASSUME NEW c \in Terminal, stopTimer(c)
         PROVE  ConfirmInv'
    <2>1. /\ req[c].at = "stopTimer"
          /\ UNCHANGED <<running, ccDB, up, csMutex, uCS, undo>>
      BY <1>11 DEF stopTimer, At
    <2>2. /\ req[c].sess.commitTimer = req[c].sess.token
          /\ req[c].sess.commitCh = req[c].sess.token
          /\ routine[req[c].sess.token].at = "waiting" =>
                req[c].sess.rollbackCfg = routine[req[c].sess.token].rollbackCfg
      BY <2>1 DEF ConfirmInv, RequestKnows
    <2> DEFINE t == req[c].sess.token
    <2>3. t \in Token /\ t # None
      BY <1>fields, <2>1, SessionAssumption DEF KnownRequest, NeedsCopy, Session
    <2>4. routine' = [routine EXCEPT ![t].timer = FALSE] /\ Goto(c, "send")
      BY <1>11, <2>2, <2>3 DEF stopTimer
    <2>5. \A u \in Token : routine'[u].at = routine[u].at
                           /\ routine'[u].rollbackCfg = routine[u].rollbackCfg
      BY <1>fields, <2>3, <2>4 DEF KnownRoutine, TimerRoutine
    <2>6. req'[c].at = "send" /\ req'[c].sess = req[c].sess
      BY <1>fields, <2>4, GotoKeepsLocals
    <2>7. RequestKnows(c)'
      BY <2>2, <2>3, <2>5, <2>6 DEF RequestKnows, SettlingStep, UncommittedStep
    <2>8. MutexIsOfNewCS'
      BY <1>one, <1>mutex, <2>1 DEF ConfirmInv, MutexIsOfNewCS
    <2>9. QED
      BY <1>up, <1>types, <2>1, <2>5, <2>7, <2>8, OnlyRequestMoves
  <1>12. ASSUME NEW c \in Terminal, send(c)
         PROVE  ConfirmInv'
    <2>1. /\ req[c].at = "send"
          /\ UNCHANGED <<running, ccDB, up, csMutex, uCS, undo>>
      BY <1>12 DEF send, At
    <2> DEFINE t == req[c].sess.token
    <2>2. /\ req[c].sess.commitCh = t
          /\ routine[t].at = "waiting" => req[c].sess.rollbackCfg = routine[t].rollbackCfg
      BY <2>1 DEF ConfirmInv, RequestKnows
    <2>3. t \in Token
      BY <1>fields, <2>1 DEF KnownRequest, NeedsCopy, Session
    <2>4. /\ routine[t].at = "waiting"
          /\ routine' = [routine EXCEPT ![t].at = "ended"]
          /\ Goto(c, IF req[c].op = "Confirm" THEN "cpHistory" ELSE "reload")
      BY <1>12, <2>2 DEF send
    <2>5. /\ uCS # None /\ uCS.token = t /\ uCS.commitState = "ConfirmTimer"
          /\ undo # None /\ routine[t].rollbackCfg = undo
      BY <2>3, <2>4 DEF ConfirmInv, RoutineIsOfSession
    <2>6. Quiet'
      <3>1. \A u \in Token : u # t => routine[u].at \in {"none", "ended"}
        BY <2>5 DEF ConfirmInv, RoutineIsOfSession
      <3>2. \A u \in Token : routine'[u].at = (IF u = t THEN "ended" ELSE routine[u].at)
        BY <1>fields, <2>3, <2>4 DEF KnownRoutine, TimerRoutine
      <3>3. QED
        BY <3>1, <3>2 DEF Quiet
    <2>7. req'[c].at \in {"cpHistory", "reload"} /\ req'[c].sess = req[c].sess
      BY <1>fields, <2>4, GotoKeepsLocals
    <2>8. RequestKnows(c)'
      BY <2>1, <2>2, <2>4, <2>5, <2>6, <2>7
         DEF RequestKnows, SettlingStep, UncommittedStep
    <2>9. MutexIsOfNewCS'
      BY <1>one, <1>mutex, <2>1 DEF ConfirmInv, MutexIsOfNewCS
    <2>10. UndoIsOfSession' /\ RoutineIsOfSession'
      BY <2>1, <2>6 DEF ConfirmInv, UndoIsOfSession, RoutineIsOfSession, Quiet
    <2>11. SessionKnowsTimer'
      BY <1>one, <2>1 DEF ConfirmInv, SessionKnowsTimer
    <2>12. QED
      BY <1>one, <1>up, <2>1, <2>8, <2>9, <2>10, <2>11 DEF ConfirmInv
  <1>13. ASSUME NEW c \in Terminal, createCpHistory(c)
         PROVE  ConfirmInv'
    <2>1. /\ req[c].at = "cpHistory"
          /\ UNCHANGED <<running, ccDB, up, csMutex, uCS, routine, undo>>
      BY <1>13 DEF createCpHistory, At
    <2>2. uCS # None /\ uCS.commitState = "ConfirmTimer" /\ undo # None /\ Quiet
      BY <2>1 DEF ConfirmInv, RequestKnows, SettlingStep
    <2>3. Goto(c, "cleanCS")
      BY <1>13, <2>2 DEF createCpHistory
    <2>4. req'[c].at = "cleanCS"
      BY <1>fields, <2>3, GotoKeepsLocals
    <2>5. Quiet'
      BY <2>1, <2>2 DEF Quiet
    <2>6. RequestKnows(c)'
      BY <2>1, <2>2, <2>4, <2>5 DEF RequestKnows, UncommittedStep
    <2>7. MutexIsOfNewCS'
      BY <1>one, <1>mutex, <2>1 DEF ConfirmInv, MutexIsOfNewCS
    <2>8. QED
      BY <1>up, <1>types, <2>1, <2>6, <2>7, OnlyRequestMoves
  <1>14. ASSUME NEW c \in Terminal, cleanCS(c)
         PROVE  ConfirmInv'
    <2>1. /\ req[c].at = "cleanCS" /\ csMutex = None /\ csMutex' = None /\ Done(c)
          /\ UNCHANGED <<running, up, routine>>
      BY <1>14 DEF cleanCS, AtLocked, At
    <2>2. uCS # None /\ Quiet
      BY <2>1 DEF ConfirmInv, RequestKnows, SettlingStep
    <2>3. uCS' = None /\ undo' = None
      BY <1>14, <2>2 DEF cleanCS, EndSession
    <2>4. req'[c].at = "idle"
      BY <1>fields, <2>1, DoneIsIdle
    <2>5. QED
      BY <1>up, <1>types, <2>1, <2>2, <2>3, <2>4, EndIsQuiet DEF Quiet
  <1>15. ASSUME NEW c \in Terminal, abortReload(c)
         PROVE  ConfirmInv'
    <2>1. req[c].at = "reload" /\ UNCHANGED <<up, csMutex, uCS, routine>>
      BY <1>15 DEF abortReload, At
    <2>2. /\ uCS # None /\ uCS.commitState = "ConfirmTimer" /\ undo # None /\ Quiet
          /\ req[c].sess.rollbackCfg = undo
      BY <2>1 DEF ConfirmInv, RequestKnows, SettlingStep
    <2>3. ccDB' = Dirty /\ undo' = None /\ Goto(c, "deleteCS")
      BY <1>15, <2>2 DEF abortReload, Attended
    <2>4. req'[c].at = "deleteCS"
      BY <1>fields, <2>3, GotoKeepsLocals
    <2>5. Quiet'
      BY <2>1, <2>2 DEF Quiet
    <2>6. RequestKnows(c)'
      BY <2>3, <2>4, <2>5 DEF RequestKnows, UncommittedStep
    <2>7. MutexIsOfNewCS'
      BY <1>one, <1>mutex, <2>1 DEF ConfirmInv, MutexIsOfNewCS
    <2>8. UndoIsOfSession'
      <3>1. \A t \in Token : ccDB'[t].tx = ccDB[t].tx
        BY <1>fields, <2>3, DirtyEndsNothing
      <3>2. QED
        BY <1>fields, <2>1, <2>3, <3>1 DEF ConfirmInv, UndoIsOfSession
    <2>9. RoutineIsOfSession' /\ SessionKnowsTimer'
      BY <2>4, <2>5 DEF RoutineIsOfSession, SessionKnowsTimer, Quiet
    <2>10. QED
      BY <1>one, <1>up, <2>1, <2>6, <2>7, <2>8, <2>9 DEF ConfirmInv
  <1>16. ASSUME NEW c \in Terminal, deleteCS(c)
         PROVE  ConfirmInv'
    <2>1. /\ req[c].at = "deleteCS" /\ csMutex = None /\ csMutex' = None /\ Done(c)
          /\ UNCHANGED <<running, up, routine, undo>>
      BY <1>16 DEF deleteCS, AtLocked, At
    <2>2. undo = None /\ Quiet
      BY <2>1 DEF ConfirmInv, RequestKnows, SettlingStep
    <2>3. uCS' = None
      BY <1>16 DEF deleteCS, EndSession
    <2>4. req'[c].at = "idle"
      BY <1>fields, <2>1, DoneIsIdle
    <2>5. QED
      BY <1>up, <1>types, <2>1, <2>2, <2>3, <2>4, EndIsQuiet DEF Quiet
  <1>17. ASSUME NEW c \in Terminal, write(c)
         PROVE  ConfirmInv'
    <2>1. /\ req[c].at = "write" /\ Done(c)
          /\ UNCHANGED <<up, csMutex, uCS, routine, undo>>
      BY <1>17 DEF write, At
    <2> DEFINE t == req[c].sess.token
    <2>2. t \in Token
      BY <1>fields, <2>1 DEF KnownRequest, NeedsCopy, Session
    <2>3. \A u \in Token : ccDB'[u].tx = ccDB[u].tx
      <3>1. CASE \E v \in Config : ccDB' = [ccDB EXCEPT ![t].candidate = v]
        BY <1>fields, <2>2, <3>1 DEF CandidateDB
      <3>2. CASE ccDB' = ccDB
        BY <3>2
      <3>3. QED
        BY <1>17, <3>1, <3>2 DEF write
    <2>4. QED
      BY <1>up, <1>types, <2>1, <2>3, OnlyReturns
  <1>18. ASSUME NEW c \in Terminal, TerminalCloses(c)
         PROVE  ConfirmInv'
    <2>1. alive \subseteq Terminal
      BY <1>types DEF SessionTypeInv, SessionTypeOK
    <2>2. QED
      BY <1>18, <1>one, <2>1 DEF TerminalCloses
  <1>19. ASSUME NEW t \in Token, TimerExpires(t)
         PROVE  ConfirmInv'
    <2>1. /\ routine[t].at = "waiting" /\ RoutineGoto(t, "setState")
          /\ UNCHANGED <<running, ccDB, up, csMutex, uCS, req, undo>>
      BY <1>19 DEF TimerExpires
    <2>2. uCS # None /\ uCS.commitState = "ConfirmTimer"
      BY <2>1 DEF ConfirmInv, RoutineIsOfSession
    <2>3. QED
      BY <1>up, <1>types, <2>1, <2>2, GoroutineMoves
  <1>20. ASSUME NEW t \in Token, SetCommitState(t)
         PROVE  ConfirmInv'
    <2>1. /\ routine[t].at = "setState" /\ RoutineGoto(t, "reload")
          /\ UNCHANGED <<running, ccDB, up, csMutex, req, undo>>
      BY <1>20 DEF SetCommitState
    <2>2. uCS # None
      BY <2>1 DEF ConfirmInv, RoutineIsOfSession
    <2>3. uCS' = [uCS EXCEPT !.commitState = "RollbackReplace"]
      BY <1>20, <2>2 DEF SetCommitState
    <2>4. /\ uCS' \in Session
          /\ uCS'.token = uCS.token /\ uCS'.commitState = "RollbackReplace"
          /\ uCS'.rollbackCfg = uCS.rollbackCfg
          /\ uCS'.commitTimer = uCS.commitTimer /\ uCS'.commitCh = uCS.commitCh
      BY <1>fields, <2>2, <2>3 DEF Session
    <2>5. uCS' # None
      BY <2>4, SessionAssumption
    <2>6. QED
      BY <1>up, <1>types, <2>1, <2>4, <2>5, GoroutineMoves
  <1>21. ASSUME NEW t \in Token, configReload(t)
         PROVE  ConfirmInv'
    <2>1. /\ routine[t].at = "reload" /\ RoutineGoto(t, "cleanCS")
          /\ ccDB' = Dirty /\ undo' = None
          /\ UNCHANGED <<up, csMutex, uCS, req>>
      BY <1>21 DEF configReload, Attended
    <2>2. uCS # None /\ uCS.commitState = "RollbackReplace"
      BY <2>1 DEF ConfirmInv, RoutineIsOfSession
    <2>3. \A u \in Token : ccDB'[u].tx = ccDB[u].tx
      BY <1>fields, <2>1, DirtyEndsNothing
    <2>4. QED
      BY <1>up, <1>types, <2>1, <2>2, <2>3, GoroutineMoves
  <1>22. ASSUME NEW t \in Token, RoutineCleanCS(t)
         PROVE  ConfirmInv'
    <2>1. routine[t].at = "cleanCS" /\ csMutex = None /\ undo' = undo
      BY <1>22 DEF RoutineCleanCS
    <2>2. /\ uCS # None /\ uCS.token = t /\ undo = None
          /\ \A u \in Token : u # t => routine[u].at \in {"none", "ended"}
      BY <2>1 DEF ConfirmInv, RoutineIsOfSession
    <2>3. uCS' = None /\ RoutineGoto(t, "ended") /\ UNCHANGED <<up, csMutex, req>>
      BY <1>22, <2>2 DEF RoutineCleanCS, EndSession
    <2>4. \A u \in Token : routine'[u].at \in {"none", "ended"}
      BY <1>fields, <2>2, <2>3, RoutineGotoSteps
    <2>5. SUFFICES ASSUME NEW c \in Terminal PROVE ConfirmInv'
      <3>1. CASE Terminal = {}
        BY <1>up, <2>1, <2>2, <2>3, <2>4, <3>1
           DEF ConfirmInv, MutexIsOfNewCS, UndoIsOfSession, RoutineIsOfSession,
               SessionKnowsTimer
      <3>2. QED
        BY <2>5, <3>1
    <2>6. req[c].at \notin SettlingStep
      BY <2>1, <2>2 DEF ConfirmInv, RequestKnows, Quiet
    <2>7. req[c].at \in {"stopTimer", "send"} => req[c].sess.token \in Token
      BY <1>fields DEF KnownRequest, NeedsCopy, Session
    <2>8. QED
      BY <1>up, <1>types, <2>1, <2>2, <2>3, <2>4, <2>6, <2>7, EndIsQuiet DEF SettlingStep
  <1>23. CASE WriterLocks
    <2>1. UNCHANGED <<running, ccDB, up, csMutex, uCS, req, routine, undo>>
      BY <1>23 DEF WriterLocks
    <2>2. QED
      BY <1>up, <2>1, SameIsKnown
  <1>24. CASE WriterCommits
    <2>1. uCS = None
      BY <1>24, <1>fields, SessionAssumption
         DEF WriterCommits, SessionInv, SessionCore, SessionHoldsLock
    <2>2. UNCHANGED <<up, csMutex, uCS, req, routine, undo>>
      BY <1>24 DEF WriterCommits
    <2>3. ASSUME NEW c \in Terminal PROVE RequestKnows(c)'
      <3>1. Quiet' <=> Quiet
        BY <2>2 DEF Quiet
      <3>2. QED
        BY <2>1, <2>2, <3>1 DEF ConfirmInv, RequestKnows
    <2>4. QED
      BY <1>up, <2>1, <2>2, <2>3
         DEF ConfirmInv, MutexIsOfNewCS, UndoIsOfSession, RoutineIsOfSession, SessionKnowsTimer
  <1>25. CASE Crash
    <2>1. ProcessGone /\ undo' = undo /\ lock' = lock
      BY <1>25 DEF Crash
    <2>2. undo # None => lock \in Token
      BY <1>up, <1>fields
         DEF ConfirmInv, UndoIsOfSession, SessionInv, SessionCore, SessionHoldsLock
    <2>3. Quiet'
      BY <2>1 DEF ProcessGone, NoRoutine, Quiet
    <2>4. ASSUME NEW c \in Terminal PROVE RequestKnows(c)'
      BY <2>1 DEF ProcessGone, NoRequest, RequestKnows, SettlingStep, UncommittedStep
    <2>5. MutexIsOfNewCS' /\ UndoIsOfSession' /\ RoutineIsOfSession' /\ SessionKnowsTimer'
      BY <2>1, <2>3
         DEF ProcessGone, MutexIsOfNewCS, UndoIsOfSession, RoutineIsOfSession,
             SessionKnowsTimer, Quiet
    <2>6. QED
      BY <2>1, <2>2, <2>4, <2>5 DEF ProcessGone, ConfirmInv
  <1>26. CASE Restart
    BY <1>26, <1>up DEF Restart
  <1>27. CASE UNCHANGED vars
    <2>1. UNCHANGED <<running, lock, ccDB, up, csMutex, uCS, req, routine, undo>>
      BY <1>27 DEF vars
    <2>2. QED
      BY <2>1, SameIsKnown
  <1>28. QED
    BY <1>1, <1>2, <1>3, <1>4, <1>5, <1>6, <1>7, <1>8, <1>9, <1>10, <1>11, <1>12, <1>13,
       <1>14, <1>15, <1>16, <1>17, <1>18, <1>19, <1>20, <1>21, <1>22, <1>23, <1>24, <1>25,
       <1>26, <1>27 DEF Next, Request, Routine

(* The server's own steps are those of a server that runs. *)
LEMMA NextWhileDown ==
    ASSUME ~up, [Next]_vars
    PROVE  \/ WriterLocks \/ WriterCommits \/ Restart
           \/ \E c \in Terminal : TerminalCloses(c)
           \/ UNCHANGED vars
  <1>1. ASSUME NEW c \in Terminal, Request(c) PROVE FALSE
    BY <1>1 DEF Request, newCSWatch, newCSLock, suspendCS, resumeCS, saveRunningConfig,
                SetRollbackCfg, commitCS, StartCommitTimer, SetCommitCh, stopTimer, send,
                createCpHistory, cleanCS, abortReload, deleteCS, write, AtLocked, At
  <1>2. ASSUME NEW c \in Terminal, NEW o \in Op, GetSession(c, o) PROVE FALSE
    BY <1>2 DEF GetSession, AtLocked, At
  <1>3. ASSUME NEW t \in Token, Routine(t) PROVE FALSE
    BY <1>3 DEF Routine, TimerExpires, SetCommitState, configReload, RoutineCleanCS
  <1>4. QED
    BY <1>1, <1>2, <1>3 DEF Next, Crash

(* While the server is down only others write, and they wait for the lock of
   its session until Restart clears it. *)
LEMMA StepWhileDown ==
    ~up /\ Attended /\ SessionInv /\ ConfirmInv /\ [Next]_vars => ConfirmInv'
  <1> SUFFICES ASSUME ~up, Attended, SessionInv, ConfirmInv, [Next]_vars PROVE ConfirmInv'
    OBVIOUS
  <1> USE DEF dbVars, server, history
  <1>1. uCS = None /\ csMutex = None
    BY DEF SessionInv, SessionCore, NewCSIsAlone
  <1>2. Quiet
    BY <1>1 DEF ConfirmInv, RoutineIsOfSession, Quiet
  <1>3. ASSUME NEW c \in Terminal
        PROVE  /\ RequestKnows(c)
               /\ req[c].at \notin {"startTimer", "setCh", "cpHistory", "cleanCS", "reload"}
    BY <1>1 DEF ConfirmInv, RequestKnows
  <1>4. ASSUME UNCHANGED <<csMutex, uCS, req, routine>>, undo' = undo \/ undo' = None,
               ~up' \/ undo' = None, undo' # None => lock' \in Token
        PROVE  ConfirmInv'
    <2>1. Quiet'
      BY <1>2, <1>4 DEF Quiet
    <2>2. ASSUME NEW c \in Terminal PROVE RequestKnows(c)'
      BY <1>1, <1>3, <1>4, <2>1 DEF RequestKnows
    <2>3. MutexIsOfNewCS' /\ RoutineIsOfSession' /\ SessionKnowsTimer'
      BY <1>1, <1>4, <2>1
         DEF ConfirmInv, MutexIsOfNewCS, RoutineIsOfSession, SessionKnowsTimer, Quiet
    <2>4. UndoIsOfSession'
      BY <1>1, <1>4 DEF UndoIsOfSession
    <2>5. QED
      BY <1>4, <2>2, <2>3, <2>4 DEF ConfirmInv
  <1>5. undo # None => lock \in Token
    BY DEF ConfirmInv
  <1>6. CASE WriterLocks \/ WriterCommits
    <2>1. undo = None
      BY <1>5, <1>6, SessionAssumption DEF WriterLocks, WriterCommits
    <2>2. QED
      BY <1>4, <1>6, <2>1 DEF WriterLocks, WriterCommits
  <1>7. CASE Restart
    BY <1>4, <1>7 DEF Restart
  <1>8. ASSUME NEW c \in Terminal, TerminalCloses(c)
        PROVE  ConfirmInv'
    BY <1>4, <1>5, <1>8 DEF TerminalCloses
  <1>9. CASE UNCHANGED vars
    BY <1>4, <1>5, <1>9 DEF vars
  <1>10. QED
    BY <1>6, <1>7, <1>8, <1>9, NextWhileDown

(* Inductive, with the invariant of the session. *)
LEMMA NextConfirmInv ==
    Attended /\ SessionInv /\ ConfirmInv /\ [Next]_vars => ConfirmInv'
  BY StepWhileUp, StepWhileDown

(* The invariant of a commit that waits for its confirmation. *)
THEOREM ConfirmInvariant == ASSUME Attended PROVE Spec => []ConfirmInv
  <1>1. Init => ConfirmInv
    BY InitConfirmInv
  <1>2. SessionInv /\ ConfirmInv /\ [Next]_vars => ConfirmInv'
    BY NextConfirmInv
  <1>3. QED
    BY <1>1, <1>2, SessionInvariant, PTL DEF Spec

---------------------------------------------------------------------------
\* Every step of the session is one of ConfirmedCommit.

(* What is not seen by others is a stutter of the promise. *)
LEMMA Unseen ==
    ASSUME UNCHANGED <<running, lock, undo>>
    PROVE  [Promise!Next]_(Promise!vars)
  BY DEF Promise!vars

(* Without a fault the end of a session gives the lock away. *)
LEMMA EndReleases ==
    ASSUME SessionInv, Attended, uCS # None, EndSession
    PROVE  lock # Free /\ lock' = Free
  <1>1. lock = uCS.token /\ uCS.token \in Token
    BY SessionFields DEF SessionInv, SessionCore, SessionHoldsLock
  <1>2. QED
    BY <1>1, SessionAssumption DEF EndSession, Unlock, Attended

(* Every step of requests, goroutines and writers is one of the promise. *)
LEMMA NextImplementsPromise ==
    Attended /\ SessionInv /\ ConfirmInv /\ [Next]_vars
        => [Promise!Next]_(Promise!vars)
  <1> SUFFICES ASSUME Attended, SessionInv, ConfirmInv, [Next]_vars
               PROVE  [Promise!Next]_(Promise!vars)
    OBVIOUS
  <1> USE DEF dbVars, server, history
  <1>types. SessionTypeInv
    BY DEF SessionInv
  <1>fields. /\ uCS # None =>
                  /\ uCS \in Session /\ uCS.token \in Token
                  /\ uCS.commitState \in {"None", "ConfirmTimer", "RollbackReplace"}
             /\ ccDB \in [Token -> CandidateDB]
             /\ req \in [Terminal -> KnownRequest]
             /\ routine \in [Token -> KnownRoutine]
             /\ undo # None => undo \in Config
             /\ running \in Config /\ running # None
    BY <1>types, SessionFields
  <1>holder. /\ uCS # None => lock = uCS.token
             /\ Free \notin Token \cup {Writer}
    BY SessionAssumption DEF SessionInv, SessionCore, SessionHoldsLock
  <1>running. running' \in Config
    BY NextTypeInv DEF SessionInv, SessionTypeInv, SessionTypeOK
  <1>1. ASSUME NEW c \in Terminal, newCSLock(c)
        PROVE  [Promise!Next]_(Promise!vars)
    <2>1. UNCHANGED <<running, undo>> /\ csMutex # None
      BY <1>1, SessionAssumption DEF newCSLock
    <2>2. CASE lock = Free
      <3>1. tokens \in Token
        BY <1>types, <2>1 DEF SessionTypeInv
      <3>2. lock' = tokens
        BY <1>1, <2>2 DEF newCSLock
      <3>3. Promise!Acquire(tokens)
        BY <2>1, <2>2, <3>2 DEF Promise!Acquire
      <3>4. QED
        BY <3>1, <3>3 DEF Promise!Next
    <2>3. CASE lock # Free
      BY <1>1, <2>1, <2>3, Unseen DEF newCSLock
    <2>4. QED
      BY <2>2, <2>3
  <1>2. ASSUME NEW c \in Terminal, commitCS(c)
        PROVE  [Promise!Next]_(Promise!vars)
    <2>1. CASE ~IsActive
      BY <1>2, <2>1, Unseen DEF commitCS
    <2>2. CASE IsActive /\ ~CommitsTx(uCS.token)
      BY <1>2, <2>2, Unseen DEF commitCS
    <2>3. ASSUME IsActive, CommitsTx(uCS.token)
          PROVE  uCS # None /\ undo = None
      <3>1. uCS # None /\ ccDB[uCS.token].tx
        BY <2>3 DEF IsActive, CommitsTx
      <3>2. uCS.commitState = "None"
        BY <3>1 DEF ConfirmInv, UndoIsOfSession
      <3>3. up
        BY <1>2 DEF commitCS, AtLocked, At
      <3>4. QED
        BY <3>1, <3>2, <3>3, NoCommitIsQuiet
    <2>4. CASE IsActive /\ CommitsTx(uCS.token) /\ req[c].op = "Commit"
      <3>1. EndSession /\ undo' = undo
        BY <1>2, <2>4 DEF commitCS
      <3>2. Promise!WriteAndRelease
        BY <1>running, <2>3, <2>4, <3>1, EndReleases DEF Promise!WriteAndRelease
      <3>3. QED
        BY <3>2 DEF Promise!Next
    <2>5. CASE IsActive /\ CommitsTx(uCS.token) /\ req[c].op = "CommitTimer"
      <3>1. undo' = running /\ lock' = lock
        BY <1>2, <2>5 DEF commitCS
      <3>2. Promise!CommitUnconfirmed
        BY <1>fields, <1>holder, <1>running, <2>3, <2>5, <3>1 DEF Promise!CommitUnconfirmed
      <3>3. QED
        BY <3>2 DEF Promise!Next
    <2>6. QED
      BY <1>2, <2>1, <2>2, <2>4, <2>5 DEF commitCS
  <1>3. ASSUME NEW c \in Terminal, cleanCS(c)
        PROVE  [Promise!Next]_(Promise!vars)
    <2>1. uCS # None /\ undo # None
      BY <1>3 DEF cleanCS, AtLocked, At, ConfirmInv, RequestKnows
    <2>2. EndSession /\ undo' = None /\ running' = running
      BY <1>3, <2>1 DEF cleanCS
    <2>3. Promise!Confirm
      BY <2>1, <2>2, EndReleases DEF Promise!Confirm
    <2>4. QED
      BY <2>3 DEF Promise!Next
  <1>4. ASSUME NEW c \in Terminal, abortReload(c)
        PROVE  [Promise!Next]_(Promise!vars)
    <2>1. undo # None /\ req[c].sess.rollbackCfg = undo
      BY <1>4 DEF abortReload, At, ConfirmInv, RequestKnows
    <2>2. running' = undo /\ undo' = None /\ lock' = lock
      BY <1>4, <2>1 DEF abortReload, Attended
    <2>3. Promise!Revert
      BY <2>1, <2>2 DEF Promise!Revert
    <2>4. QED
      BY <2>3 DEF Promise!Next
  <1>5. ASSUME NEW c \in Terminal, deleteCS(c)
        PROVE  [Promise!Next]_(Promise!vars)
    <2>1. undo = None /\ UNCHANGED <<running, undo>>
      BY <1>5 DEF deleteCS, AtLocked, At, ConfirmInv, RequestKnows
    <2>2. CASE uCS = None
      BY <1>5, <2>1, <2>2, Unseen DEF deleteCS
    <2>3. CASE uCS # None
      <3>1. EndSession
        BY <1>5, <2>3 DEF deleteCS
      <3>2. Promise!Release
        BY <2>1, <2>3, <3>1, EndReleases DEF Promise!Release
      <3>3. QED
        BY <3>2 DEF Promise!Next
    <2>4. QED
      BY <2>2, <2>3
  <1>6. ASSUME NEW c \in Terminal, write(c)
        PROVE  [Promise!Next]_(Promise!vars)
    <2> DEFINE t == req[c].sess.token
    <2>1. UNCHANGED <<lock, undo>> /\ req[c].at = "write"
      BY <1>6 DEF write, At
    <2>2. CASE running' = running
      BY <2>1, <2>2, Unseen
    <2>3. CASE ccDB[t].open /\ ~ccDB[t].tx
      <3>1. t \in Token
        BY <1>fields, <2>1 DEF KnownRequest, NeedsCopy, Session
      <3>2. csMutex = None
        <4>1. csMutex \in {None} \cup Terminal
          BY <1>types DEF SessionTypeInv, SessionTypeOK
        <4>2. \A d \in Terminal : d = c
          BY DEF Attended
        <4>3. QED
          BY <2>1, <4>1, <4>2 DEF ConfirmInv, MutexIsOfNewCS
      <3>3. uCS # None
        BY <2>3, <3>1, <3>2 DEF SessionInv, SessionCore, OpenDBIsOfSession
      <3>4. Promise!Write
        BY <1>fields, <1>holder, <1>running, <2>1, <3>3 DEF Promise!Write
      <3>5. QED
        BY <3>4 DEF Promise!Next
    <2>4. QED
      BY <1>6, <2>2, <2>3 DEF write
  <1>7. ASSUME NEW t \in Token, configReload(t)
        PROVE  [Promise!Next]_(Promise!vars)
    <2>1. /\ routine[t].at = "reload" /\ lock' = lock
          /\ running' = routine[t].rollbackCfg /\ undo' = None
      BY <1>7 DEF configReload, Attended
    <2>2. undo # None /\ routine[t].rollbackCfg = undo
      BY <2>1 DEF ConfirmInv, RoutineIsOfSession
    <2>3. Promise!Revert
      BY <2>1, <2>2 DEF Promise!Revert
    <2>4. QED
      BY <2>3 DEF Promise!Next
  <1>8. ASSUME NEW t \in Token, RoutineCleanCS(t)
        PROVE  [Promise!Next]_(Promise!vars)
    <2>1. routine[t].at = "cleanCS" /\ UNCHANGED <<running, undo>>
      BY <1>8 DEF RoutineCleanCS
    <2>2. uCS # None /\ undo = None
      BY <2>1 DEF ConfirmInv, RoutineIsOfSession
    <2>3. EndSession
      BY <1>8, <2>2 DEF RoutineCleanCS
    <2>4. Promise!Release
      BY <2>1, <2>2, <2>3, EndReleases DEF Promise!Release
    <2>5. QED
      BY <2>4 DEF Promise!Next
  <1>9. CASE WriterLocks
    <2>1. Promise!Acquire(Writer)
      BY <1>9 DEF WriterLocks, Promise!Acquire
    <2>2. QED
      BY <2>1 DEF Promise!Next
  <1>10. CASE WriterCommits
    <2>1. uCS = None
      BY <1>10, <1>fields, <1>holder, SessionAssumption DEF WriterCommits
    <2>2. undo = None
      <3>1. CASE up
        BY <2>1, <3>1, NoCommitIsQuiet
      <3>2. CASE ~up
        BY <1>10, <3>2, SessionAssumption DEF ConfirmInv, WriterCommits
      <3>3. QED
        BY <3>1, <3>2
    <2>3. lock # Free /\ lock' = Free /\ undo' = undo
      BY <1>10, <1>holder DEF WriterCommits
    <2>4. Promise!WriteAndRelease
      BY <1>running, <2>2, <2>3 DEF Promise!WriteAndRelease
    <2>5. QED
      BY <2>4 DEF Promise!Next
  <1>11. ASSUME NEW c \in Terminal, NEW o \in Op, GetSession(c, o)
         PROVE  [Promise!Next]_(Promise!vars)
    BY <1>11, Unseen DEF GetSession
  <1>12. ASSUME NEW c \in Terminal,
                \/ newCSWatch(c) \/ suspendCS(c) \/ resumeCS(c)
                \/ saveRunningConfig(c) \/ SetRollbackCfg(c)
                \/ StartCommitTimer(c) \/ SetCommitCh(c)
                \/ stopTimer(c) \/ send(c) \/ createCpHistory(c) \/ TerminalCloses(c)
         PROVE  [Promise!Next]_(Promise!vars)
    BY <1>12, Unseen
       DEF newCSWatch, suspendCS, resumeCS, saveRunningConfig, SetRollbackCfg,
           StartCommitTimer, SetCommitCh, stopTimer, send, createCpHistory, TerminalCloses
  <1>13. ASSUME NEW t \in Token, TimerExpires(t) \/ SetCommitState(t)
         PROVE  [Promise!Next]_(Promise!vars)
    BY <1>13, Unseen DEF TimerExpires, SetCommitState
  <1>14. CASE Crash
    BY <1>14, Unseen DEF Crash
  <1>15. CASE Restart
    <2>1. running' = running /\ undo' = None /\ (lock' = lock \/ lock' = Free)
      BY <1>15 DEF Restart
    <2>2. CASE undo # None
      <3>1. lock \in Token
        BY <1>15, <2>2 DEF ConfirmInv, Restart
      <3>2. Promise!Confirm
        BY <1>15, <2>1, <2>2, <3>1 DEF Restart, Promise!Confirm
      <3>3. QED
        BY <3>2 DEF Promise!Next
    <2>3. CASE undo = None /\ lock' # lock
      <3>1. Promise!Release
        BY <1>15, <1>holder, <2>1, <2>3 DEF Restart, Promise!Release
      <3>2. QED
        BY <3>1 DEF Promise!Next
    <2>4. CASE undo = None /\ lock' = lock
      BY <2>1, <2>4, Unseen
    <2>5. QED
      BY <2>1, <2>2, <2>3, <2>4
  <1>16. CASE UNCHANGED vars
    BY <1>16, Unseen DEF vars
  <1>17. QED
    BY <1>1, <1>2, <1>3, <1>4, <1>5, <1>6, <1>7, <1>8, <1>9, <1>10, <1>11, <1>12, <1>13,
       <1>14, <1>15, <1>16 DEF Next, Request, Routine

(* A commit with a timeout is kept when it is confirmed in time and is taken
   back as a whole otherwise, before ConfigDB is anybody else's, if requests
   follow one another (one terminal), none aborts a rollback, and the host
   service and the unlock do not fail. A crash keeps the commit: Restart clears
   the lock and forgets that it waits, which is Confirm here. *)
THEOREM ConfirmedCommitImplemented ==
    ASSUME Attended PROVE Spec => ImplementsConfirmedCommit
  <1>1. Init => Promise!Init
    BY DEF Init, Promise!Init
  <1>2. SessionInv /\ ConfirmInv /\ [Next]_vars => [Promise!Next]_(Promise!vars)
    BY NextImplementsPromise
  <1>3. QED
    BY <1>1, <1>2, SessionInvariant, ConfirmInvariant, PTL
       DEF Spec, ImplementsConfirmedCommit, Promise!Spec
=============================================================================
