------------------------ MODULE ConfigDBLockProofs ------------------------
(***************************************************************************)
(* Proofs about the ConfigDB lock, for any number of executables and       *)
(* goroutines, any number of attempts and any placement of redis faults    *)
(* and crashes.                                                            *)
(*                                                                         *)
(* Mutual exclusion is not inductive. It holds because the field in        *)
(* STATE_DB names the owner, and that is kept by unlock() because the      *)
(* LockStruct an owner finds through cdbLock is its own, although cdbLock  *)
(* is written without a mutex.                                             *)
(***************************************************************************)
EXTENDS ConfigDBLock, TLAPS

\* An owner past the publication of its LockStruct finds it, or nil.
OwnPointer ==
    \A t \in Thread :
        pc[t] \in {"holding", "unlock"} => cdbLock[ProcOf[t]] \in {Nil, t}

\* The script that removes the lock runs for the LockStruct of its caller.
OwnReceiver == \A t \in Thread : pc[t] = "hdel" => target[t] = t

\* The goroutines of a dead executable are gone.
DeadAreIdle == \A t \in Thread : ~up[ProcOf[t]] => pc[t] = "idle"

LockInv ==
    /\ LockTypeOK
    /\ OwnerIsRecorded
    /\ MutualExclusion
    /\ OwnPointer
    /\ OwnReceiver
    /\ DeadAreIdle
(* A LockStruct never writes the value of an absent field. *)
LEMMA ValueIsNotNil ==
    \A t \in Thread :
        /\ LockValue(t) \in LockValues
        /\ LockValue(t) # Nil
        /\ LockValue(t).comm = ProcOf[t]
  BY LockAssumption DEF LockValue, LockValues, Id

LEMMA InitLockInv == Init => LockInv
  BY LockAssumption
     DEF Init, LockInv, LockTypeOK, OwnerIsRecorded, MutualExclusion,
         OwnPointer, OwnReceiver, DeadAreIdle, Owns, PCs

(* One step of db_lock.go, or a crash or a start, keeps the types. *)
LEMMA NextTypeOK == LockTypeOK /\ [Next]_vars => LockTypeOK'
  <1> SUFFICES ASSUME LockTypeOK, [Next]_vars PROVE LockTypeOK'
    OBVIOUS
  <1> USE LockAssumption, ValueIsNotNil DEF LockTypeOK, PCs, At, Goto
  <1>1. ASSUME NEW t \in Thread, CallTryLock(t) PROVE LockTypeOK'
    BY <1>1 DEF CallTryLock
  <1>2. ASSUME NEW t \in Thread, LockedBySelf(t) PROVE LockTypeOK'
    BY <1>2 DEF LockedBySelf
  <1>3. ASSUME NEW t \in Thread, NewLockStruct(t) PROVE LockTypeOK'
    BY <1>3 DEF NewLockStruct
  <1>4. ASSUME NEW t \in Thread, HSetNXLocks(t) PROVE LockTypeOK'
    BY <1>4 DEF HSetNXLocks
  <1>5. ASSUME NEW t \in Thread, HSetNXBusy(t) PROVE LockTypeOK'
    BY <1>5 DEF HSetNXBusy
  <1>6. ASSUME NEW t \in Thread, HGetLockId(t) PROVE LockTypeOK'
    BY <1>6 DEF HGetLockId, RetryOrGiveUp
  <1>7. ASSUME NEW t \in Thread, HSetNXFault(t) PROVE LockTypeOK'
    BY <1>7 DEF HSetNXFault, RetryOrGiveUp
  <1>8. ASSUME NEW t \in Thread, PublishLock(t) PROVE LockTypeOK'
    BY <1>8 DEF PublishLock
  <1>9. ASSUME NEW t \in Thread, CallUnlock(t) PROVE LockTypeOK'
    BY <1>9 DEF CallUnlock
  <1>10. ASSUME NEW t \in Thread, UnlockNothing(t) PROVE LockTypeOK'
    BY <1>10 DEF UnlockNothing
  <1>11. ASSUME NEW t \in Thread, LoadReceiver(t) PROVE LockTypeOK'
    BY <1>11 DEF LoadReceiver
  <1>12. ASSUME NEW t \in Thread, LuaUnlock(t) PROVE LockTypeOK'
    BY <1>12 DEF LuaUnlock
  <1>13. ASSUME NEW t \in Thread, LuaUnlockFault(t) PROVE LockTypeOK'
    BY <1>13 DEF LuaUnlockFault
  <1>14. ASSUME NEW t \in Thread, ClearPointer(t) PROVE LockTypeOK'
    BY <1>14 DEF ClearPointer
  <1>15. ASSUME NEW p \in Proc, Crash(p) PROVE LockTypeOK'
    BY <1>15 DEF Crash
  <1>16. ASSUME NEW p \in Proc, ConfigDBClearLock(p) PROVE LockTypeOK'
    BY <1>16 DEF ConfigDBClearLock
  <1>17. CASE UNCHANGED vars
    BY <1>17 DEF vars
  <1>18. QED
    BY <1>1, <1>2, <1>3, <1>4, <1>5, <1>6, <1>7, <1>8, <1>9, <1>10, <1>11, <1>12, <1>13, <1>14, <1>15, <1>16, <1>17 DEF Next, TryLockStep, UnlockStep

(* The same step keeps the invariant. *)
LEMMA NextLockInv == LockInv /\ [Next]_vars => LockInv'
  <1> SUFFICES ASSUME LockInv, [Next]_vars PROVE LockInv'
    OBVIOUS
  <1>type. LockTypeOK'
    BY NextTypeOK DEF LockInv
  <1> DEFINE Rest == /\ OwnerIsRecorded /\ MutualExclusion
                    /\ OwnPointer /\ OwnReceiver /\ DeadAreIdle
  <1> USE LockAssumption, ValueIsNotNil, <1>type
      DEF LockInv, OwnerIsRecorded, MutualExclusion, OwnPointer, OwnReceiver,
          DeadAreIdle, LockTypeOK, Owns, At, Goto
  <1>1. ASSUME NEW t \in Thread, CallTryLock(t) PROVE Rest'
    BY <1>1 DEF CallTryLock
  <1>2. ASSUME NEW t \in Thread, LockedBySelf(t) PROVE Rest'
    BY <1>2 DEF LockedBySelf
  <1>3. ASSUME NEW t \in Thread, NewLockStruct(t) PROVE Rest'
    BY <1>3 DEF NewLockStruct
  <1>4. ASSUME NEW t \in Thread, HSetNXLocks(t) PROVE Rest'
    BY <1>4 DEF HSetNXLocks
  <1>5. ASSUME NEW t \in Thread, HSetNXBusy(t) PROVE Rest'
    BY <1>5 DEF HSetNXBusy
  <1>6. ASSUME NEW t \in Thread, HGetLockId(t) PROVE Rest'
    BY <1>6 DEF HGetLockId, RetryOrGiveUp
  <1>7. ASSUME NEW t \in Thread, HSetNXFault(t) PROVE Rest'
    BY <1>7 DEF HSetNXFault, RetryOrGiveUp
  <1>8. ASSUME NEW t \in Thread, PublishLock(t) PROVE Rest'
    BY <1>8 DEF PublishLock
  <1>9. ASSUME NEW t \in Thread, CallUnlock(t) PROVE Rest'
    BY <1>9 DEF CallUnlock
  <1>10. ASSUME NEW t \in Thread, UnlockNothing(t) PROVE Rest'
    BY <1>10 DEF UnlockNothing
  <1>11. ASSUME NEW t \in Thread, LoadReceiver(t) PROVE Rest'
    BY <1>11 DEF LoadReceiver
  <1>12. ASSUME NEW t \in Thread, LuaUnlock(t) PROVE Rest'
    BY <1>12 DEF LuaUnlock
  <1>13. ASSUME NEW t \in Thread, LuaUnlockFault(t) PROVE Rest'
    BY <1>13 DEF LuaUnlockFault
  <1>14. ASSUME NEW t \in Thread, ClearPointer(t) PROVE Rest'
    BY <1>14 DEF ClearPointer
  <1>15. ASSUME NEW p \in Proc, Crash(p) PROVE Rest'
    BY <1>15 DEF Crash
  <1>16. ASSUME NEW p \in Proc, ConfigDBClearLock(p) PROVE Rest'
    BY <1>16 DEF ConfigDBClearLock
  <1>17. CASE UNCHANGED vars
    BY <1>17 DEF vars
  <1>18. QED
    BY <1>1, <1>2, <1>3, <1>4, <1>5, <1>6, <1>7, <1>8, <1>9, <1>10, <1>11, <1>12, <1>13, <1>14, <1>15, <1>16, <1>17 DEF Next, TryLockStep, UnlockStep

(* Type correctness of the lock's state in STATE_DB and in the executables. *)
THEOREM LockTypeCorrect == Spec => []LockTypeOK
  <1>1. Init => LockTypeOK
    BY InitLockInv DEF LockInv
  <1>2. QED
    BY <1>1, NextTypeOK, PTL DEF Spec

(* ConfigDBTryLock and ConfigDBUnlock keep the strengthened invariant. *)
THEOREM LockInvariant == Spec => []LockInv
  BY InitLockInv, NextLockInv, PTL DEF Spec

(* No two goroutines of any executables own ConfigDB (ConfigDBTryLock). *)
THEOREM LockMutualExclusion == Spec => []MutualExclusion
  <1>1. LockInv => MutualExclusion
    BY DEF LockInv
  <1>2. QED
    BY <1>1, LockInvariant, PTL

(* Whoever owns ConfigDB is recorded in STATE_DB (tryLock, unlock). *)
THEOREM LockOwnerIsRecorded == Spec => []OwnerIsRecorded
  <1>1. LockInv => OwnerIsRecorded
    BY DEF LockInv
  <1>2. QED
    BY <1>1, LockInvariant, PTL
(* Steps that leave the owners and the field of STATE_DB alone are invisible
   to the callers of the lock service. *)
LEMMA ServiceStutters ==
    ASSUME UNCHANGED <<Owners, lockTableKey>>
    PROVE  UNCHANGED <<Owners, Abandoned>>
  BY DEF Abandoned

(* Every step of db_lock.go, of a crash or of a start is a step of the lock
   service that its callers see, or invisible to them. *)
LEMMA NextImplementsService ==
    LockInv /\ LockInv' /\ [Next]_vars => [Service!Next]_(Service!vars)
  <1> SUFFICES ASSUME LockInv, LockInv', [Next]_vars
               PROVE  [Service!Next]_(Service!vars)
    OBVIOUS
  <1> USE LockAssumption, ValueIsNotNil
      DEF LockInv, LockTypeOK, OwnerIsRecorded, MutualExclusion, At, Goto, Owns
  <1>own. \A t \in Thread : Owns(t) => Owners = {t} /\ Abandoned = Nil
    BY DEF Owners, Abandoned
  <1>own1. \A t \in Thread : Owns(t)' => Owners' = {t} /\ Abandoned' = Nil
    BY DEF Owners, Abandoned
  <1>free. lockTableKey = Nil => Owners = {} /\ Abandoned = Nil
    BY DEF Owners, Abandoned
  <1>free1. lockTableKey' = Nil => Owners' = {} /\ Abandoned' = Nil
    BY DEF Owners, Abandoned
  <1>1. ASSUME NEW t \in Thread, CallTryLock(t) PROVE UNCHANGED <<Owners, Abandoned>>
    <2>1. UNCHANGED <<Owners, lockTableKey>>
      BY <1>1 DEF CallTryLock, Owners
    <2>2. QED
      BY <2>1, ServiceStutters
  <1>2. ASSUME NEW t \in Thread, LockedBySelf(t) PROVE UNCHANGED <<Owners, Abandoned>>
    <2>1. UNCHANGED <<Owners, lockTableKey>>
      BY <1>2 DEF LockedBySelf, Owners
    <2>2. QED
      BY <2>1, ServiceStutters
  <1>3. ASSUME NEW t \in Thread, NewLockStruct(t) PROVE UNCHANGED <<Owners, Abandoned>>
    <2>1. UNCHANGED <<Owners, lockTableKey>>
      BY <1>3 DEF NewLockStruct, Owners
    <2>2. QED
      BY <2>1, ServiceStutters
  <1>4. ASSUME NEW t \in Thread, HSetNXBusy(t) PROVE UNCHANGED <<Owners, Abandoned>>
    <2>1. UNCHANGED <<Owners, lockTableKey>>
      BY <1>4 DEF HSetNXBusy, Owners
    <2>2. QED
      BY <2>1, ServiceStutters
  <1>5. ASSUME NEW t \in Thread, HGetLockId(t) PROVE UNCHANGED <<Owners, Abandoned>>
    <2>1. UNCHANGED <<Owners, lockTableKey>>
      BY <1>5 DEF HGetLockId, RetryOrGiveUp, Owners
    <2>2. QED
      BY <2>1, ServiceStutters
  <1>6. ASSUME NEW t \in Thread, PublishLock(t) PROVE UNCHANGED <<Owners, Abandoned>>
    <2>1. UNCHANGED <<Owners, lockTableKey>>
      BY <1>6 DEF PublishLock, Owners
    <2>2. QED
      BY <2>1, ServiceStutters
  <1>7. ASSUME NEW t \in Thread, CallUnlock(t) PROVE UNCHANGED <<Owners, Abandoned>>
    <2>1. UNCHANGED <<Owners, lockTableKey>>
      BY <1>7 DEF CallUnlock, Owners
    <2>2. QED
      BY <2>1, ServiceStutters
  <1>8. ASSUME NEW t \in Thread, LoadReceiver(t) PROVE UNCHANGED <<Owners, Abandoned>>
    <2>1. UNCHANGED <<Owners, lockTableKey>>
      BY <1>8 DEF LoadReceiver, Owners
    <2>2. QED
      BY <2>1, ServiceStutters
  <1>9. ASSUME NEW t \in Thread, ClearPointer(t) PROVE UNCHANGED <<Owners, Abandoned>>
    <2>1. UNCHANGED <<Owners, lockTableKey>>
      BY <1>9 DEF ClearPointer, Owners
    <2>2. QED
      BY <2>1, ServiceStutters
  <1>10. ASSUME NEW t \in Thread, HSetNXLocks(t) PROVE Service!Acquire(t)
    <2>1. Owns(t)' /\ lockTableKey = Nil
      BY <1>10 DEF HSetNXLocks
    <2>2. QED
      BY <2>1, <1>own1, <1>free DEF Service!Acquire
  <1>11. ASSUME NEW t \in Thread, HSetNXFault(t)
        PROVE  Service!Lose(t) \/ UNCHANGED <<Owners, Abandoned>>
    <2>1. Owners' = Owners
      BY <1>11 DEF HSetNXFault, RetryOrGiveUp, Owners
    <2>2. CASE UNCHANGED lockTableKey
      BY <2>1, <2>2, ServiceStutters
    <2>3. CASE lockTableKey = Nil /\ lockTableKey' = LockValue(t)
      <3>1. Owners' = {} /\ Abandoned' = ProcOf[t]
        BY <2>1, <2>3, <1>free DEF Abandoned
      <3>2. QED
        BY <2>3, <3>1, <1>free DEF Service!Lose
    <2>4. QED
      BY <1>11, <2>2, <2>3 DEF HSetNXFault
  <1>unlock. ASSUME NEW t \in Thread, Owns(t), \A u \in Thread : ~Owns(u)',
                    lockTableKey' \in {Nil, lockTableKey}
             PROVE  Service!Release(t) \/ Service!Lose(t)
    <2>1. Owners = {t} /\ Abandoned = Nil /\ lockTableKey = LockValue(t)
      BY <1>unlock, <1>own
    <2>2. Owners' = {}
      BY <1>unlock DEF Owners
    <2>3. CASE lockTableKey' = Nil
      BY <2>1, <2>3, <1>free1 DEF Service!Release
    <2>4. CASE lockTableKey' = lockTableKey
      <3>1. Abandoned' = ProcOf[t]
        BY <2>1, <2>2, <2>4 DEF Abandoned
      <3>2. QED
        BY <2>1, <2>2, <3>1 DEF Service!Lose
    <2>5. QED
      BY <1>unlock, <2>3, <2>4
  <1>12. ASSUME NEW t \in Thread, UnlockNothing(t)
        PROVE  Service!Release(t) \/ Service!Lose(t)
    <2>1. /\ Owns(t)
          /\ \A u \in Thread : ~Owns(u)'
          /\ lockTableKey' \in {Nil, lockTableKey}
      BY <1>12 DEF UnlockNothing
    <2>2. QED
      BY <2>1, <1>unlock
  <1>13. ASSUME NEW t \in Thread, LuaUnlock(t)
        PROVE  Service!Release(t) \/ Service!Lose(t)
    <2>1. /\ Owns(t)
          /\ \A u \in Thread : ~Owns(u)'
          /\ lockTableKey' \in {Nil, lockTableKey}
      BY <1>13 DEF LuaUnlock
    <2>2. QED
      BY <2>1, <1>unlock
  <1>14. ASSUME NEW t \in Thread, LuaUnlockFault(t)
        PROVE  Service!Release(t) \/ Service!Lose(t)
    <2>1. /\ Owns(t)
          /\ \A u \in Thread : ~Owns(u)'
          /\ lockTableKey' \in {Nil, lockTableKey}
      BY <1>14 DEF LuaUnlockFault
    <2>2. QED
      BY <2>1, <1>unlock
  <1>15. ASSUME NEW p \in Proc, Crash(p)
        PROVE  \/ \E t \in Thread : Service!Release(t) \/ Service!Lose(t)
               \/ UNCHANGED <<Owners, Abandoned>>
    <2>1. CASE \E t \in Thread : Owns(t) /\ ProcOf[t] = p
      <3>1. PICK t \in Thread : Owns(t) /\ ProcOf[t] = p
        BY <2>1
      <3>2. \A u \in Thread : ~Owns(u)'
        BY <1>15, <3>1 DEF Crash
      <3>3. lockTableKey' = lockTableKey
        BY <1>15 DEF Crash
      <3>4. QED
        BY <3>1, <3>2, <3>3, <1>unlock
    <2>2. CASE \A t \in Thread : Owns(t) => ProcOf[t] # p
      <3>1. UNCHANGED <<Owners, lockTableKey>>
        BY <1>15, <2>2 DEF Crash, Owners
      <3>2. QED
        BY <3>1, ServiceStutters
    <2>3. QED
      BY <2>1, <2>2
  <1>16. ASSUME NEW p \in Proc, ConfigDBClearLock(p)
        PROVE  Service!Clear(p) \/ UNCHANGED <<Owners, Abandoned>>
    <2>1. Owners' = Owners
      BY <1>16 DEF ConfigDBClearLock, Owners
    <2>2. CASE UNCHANGED lockTableKey
      BY <2>1, <2>2, ServiceStutters
    <2>3. CASE ~UNCHANGED lockTableKey
      <3>1. lockTableKey # Nil /\ lockTableKey.comm = p /\ lockTableKey' = Nil
        BY <1>16, <2>3 DEF ConfigDBClearLock
      <3>2. Owners = {}
        BY <2>1, <3>1, <1>free1
      <3>3. Abandoned = p
        BY <3>1, <3>2 DEF Abandoned
      <3>4. QED
        BY <2>1, <3>1, <3>3, <1>free1 DEF Service!Clear
    <2>4. QED
      BY <2>2, <2>3
  <1>17. CASE UNCHANGED vars
    <2>1. UNCHANGED <<Owners, lockTableKey>>
      BY <1>17 DEF vars, Owners
    <2>2. QED
      BY <2>1, ServiceStutters DEF Service!vars
  <1>18. QED
    BY <1>1, <1>2, <1>3, <1>4, <1>5, <1>6, <1>7, <1>8, <1>9, <1>10, <1>11, <1>12, <1>13, <1>14, <1>15, <1>16, <1>17
       DEF Next, TryLockStep, UnlockStep, Service!Next, Service!vars

(* db_lock.go implements the lock service that NewDB, doWrite and newCS rely
   on, with any crashes and lost replies. *)
THEOREM LockImplementsService == Spec => ImplementsLockService
  <1>1. Init => Service!Init
    BY DEF Init, Service!Init, Owners, Owns, Abandoned
  <1>2. QED
    BY <1>1, NextImplementsService, LockInvariant, PTL
       DEF Spec, ImplementsLockService, Service!Spec

---------------------------------------------------------------------------
\* One goroutine of an executable locks, and redis answers: nobody else writes
\* cdbLock between the steps of an unlock.
Alone ==
    /\ \A t, u \in Thread : ProcOf[t] = ProcOf[u] => t = u
    /\ ~RedisFaults

\* An owner has locked its LockStruct, and finds it once it is published.
FindsOwnLock ==
    \A t \in Thread :
        /\ Owns(t) => locked[t]
        /\ pc[t] \in {"holding", "unlock", "hdel"} => cdbLock[ProcOf[t]] = t

AloneInv == LockInv /\ FindsOwnLock /\ NoOrphanLock

\* What the next lemma shows of each step.
NothingIsLeft ==
    /\ FindsOwnLock' /\ NoOrphanLock'
    /\ \A t \in Thread :
          Owns(t) /\ ~Owns(t)' /\ up'[ProcOf[t]] => lockTableKey' # LockValue(t)

(* The steps of db_lock.go, for a goroutine that is alone. *)
LEMMA NextAloneInv == Alone /\ AloneInv /\ [Next]_vars => NothingIsLeft
  <1> SUFFICES ASSUME Alone, AloneInv, [Next]_vars PROVE NothingIsLeft
    OBVIOUS
  <1> USE LockAssumption, ValueIsNotNil
      DEF Alone, AloneInv, NothingIsLeft, FindsOwnLock, NoOrphanLock, LockInv, LockTypeOK,
          OwnerIsRecorded, MutualExclusion, OwnReceiver, DeadAreIdle, Owns, At, Goto
  <1>1. ASSUME NEW t \in Thread, CallTryLock(t) PROVE NothingIsLeft
    BY <1>1 DEF CallTryLock
  <1>2. ASSUME NEW t \in Thread, LockedBySelf(t) PROVE NothingIsLeft
    BY <1>2 DEF LockedBySelf
  <1>3. ASSUME NEW t \in Thread, NewLockStruct(t) PROVE NothingIsLeft
    BY <1>3 DEF NewLockStruct
  <1>4. ASSUME NEW t \in Thread, HSetNXLocks(t) PROVE NothingIsLeft
    BY <1>4 DEF HSetNXLocks
  <1>5. ASSUME NEW t \in Thread, HSetNXBusy(t) PROVE NothingIsLeft
    BY <1>5 DEF HSetNXBusy
  <1>6. ASSUME NEW t \in Thread, HGetLockId(t) PROVE NothingIsLeft
    BY <1>6 DEF HGetLockId, RetryOrGiveUp
  <1>7. ASSUME NEW t \in Thread, HSetNXFault(t) PROVE NothingIsLeft
    BY <1>7 DEF HSetNXFault
  <1>8. ASSUME NEW t \in Thread, PublishLock(t) PROVE NothingIsLeft
    BY <1>8 DEF PublishLock
  <1>9. ASSUME NEW t \in Thread, CallUnlock(t) PROVE NothingIsLeft
    BY <1>9 DEF CallUnlock
  <1>10. ASSUME NEW t \in Thread, UnlockNothing(t) PROVE NothingIsLeft
    BY <1>10 DEF UnlockNothing
  <1>11. ASSUME NEW t \in Thread, LoadReceiver(t) PROVE NothingIsLeft
    BY <1>11 DEF LoadReceiver
  <1>12. ASSUME NEW t \in Thread, LuaUnlock(t) PROVE NothingIsLeft
    BY <1>12 DEF LuaUnlock
  <1>13. ASSUME NEW t \in Thread, LuaUnlockFault(t) PROVE NothingIsLeft
    BY <1>13 DEF LuaUnlockFault
  <1>14. ASSUME NEW t \in Thread, ClearPointer(t) PROVE NothingIsLeft
    BY <1>14 DEF ClearPointer
  <1>15. ASSUME NEW p \in Proc, Crash(p) PROVE NothingIsLeft
    BY <1>15 DEF Crash
  <1>16. ASSUME NEW p \in Proc, ConfigDBClearLock(p) PROVE NothingIsLeft
    BY <1>16 DEF ConfigDBClearLock
  <1>17. CASE UNCHANGED vars
    BY <1>17 DEF vars
  <1>18. QED
    BY <1>1, <1>2, <1>3, <1>4, <1>5, <1>6, <1>7, <1>8, <1>9, <1>10, <1>11, <1>12, <1>13, <1>14, <1>15, <1>16, <1>17 DEF Next, TryLockStep, UnlockStep

LEMMA AloneInvariant == ASSUME Alone PROVE Spec => []AloneInv
  <1>1. Init => FindsOwnLock /\ NoOrphanLock
    BY DEF Init, FindsOwnLock, NoOrphanLock, Owns
  <1>2. AloneInv /\ LockInv' /\ [Next]_vars => AloneInv'
    BY NextAloneInv DEF NothingIsLeft, AloneInv
  <1>3. QED
    BY <1>1, <1>2, LockInvariant, PTL DEF Spec, AloneInv

(* ConfigDB is not left locked by nobody, whatever crashes, as long as one
   goroutine per executable locks and redis answers. With a second goroutine an
   unlock may clear the cdbLock that the other has just published, and with a lost
   reply of HSETNX nobody knows of the lock. *)
THEOREM LockIsNoOrphan == ASSUME Alone PROVE Spec => []NoOrphanLock
  <1>1. AloneInv => NoOrphanLock
    BY DEF AloneInv
  <1>2. QED
    BY <1>1, AloneInvariant, PTL

(* A goroutine that is through with ConfigDBUnlock has released its lock, with the
   same hypotheses (DeleteDB). *)
THEOREM UnlockReleasesAlways == ASSUME Alone PROVE Spec => UnlockReleases
  <1>1. AloneInv /\ [Next]_vars =>
          [\A t \in Thread :
              Owns(t) /\ ~Owns(t)' /\ up'[ProcOf[t]] => lockTableKey' # LockValue(t)]_vars
    BY NextAloneInv DEF NothingIsLeft
  <1>2. QED
    BY <1>1, AloneInvariant, PTL DEF Spec, UnlockReleases
=============================================================================
