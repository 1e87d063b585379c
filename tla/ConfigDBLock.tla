---------------------------- MODULE ConfigDBLock ----------------------------
(***************************************************************************)
(* The ConfigDB lock of translib/db/db_lock.go and the places in db.go     *)
(* that take and give it back.                                             *)
(*                                                                         *)
(* The lock is one hash field of STATE_DB (LOCK|translib, config_db_lock)  *)
(* shared by all executables that link translib, plus one package variable *)
(* cdbLock per executable that points to the LockStruct of the holder.     *)
(* Redis executes each command atomically; everything between two redis    *)
(* commands, or between a redis command and an access of cdbLock, may      *)
(* interleave with the other goroutines: no mutex guards cdbLock.          *)
(***************************************************************************)
EXTENDS Naturals, FiniteSets

CONSTANTS
    Proc,            \* executables that link translib, named by execName (comm)
    Thread,          \* goroutines that open ConfigDB for writing
    SessionThread,   \* the goroutines that lock under a Config Session token
    ProcOf,          \* the executable a goroutine runs in
    tryLockAttempt,  \* attempts of ConfigDBTryLock
    RedisFaults,     \* may a redis command fail, or its reply be lost?
    MaxCrash,        \* bound: crashes of executables in a behaviour
    Nil              \* the nil pointer, and the absent hash field

noSessionToken == "0-0"

ASSUME LockAssumption ==
    /\ SessionThread \subseteq Thread
    /\ ProcOf \in [Thread -> Proc]
    /\ tryLockAttempt \in Nat \ {0}
    /\ RedisFaults \in BOOLEAN
    /\ MaxCrash \in Nat
    /\ Nil \notin Thread \cup Proc
    /\ Nil \notin [comm : Proc, id : Thread \cup {noSessionToken}]
    /\ noSessionToken \notin Thread

VARIABLES
    lockTableKey,  \* STATE_DB: HGET LOCK|translib config_db_lock
    cdbLock,       \* per executable: the LockStruct cdbLock points to
    locked,        \* lockStruct.locked of the LockStruct a goroutine made
    pc,            \* where a goroutine is in the lock code
    attempts,      \* failed attempts of ConfigDBTryLock so far
    target,        \* receiver of the unlock() call in progress
    up,            \* is the executable running?
    crashes        \* crashes so far

vars == <<lockTableKey, cdbLock, locked, pc, attempts, target, up, crashes>>

\* What a goroutine's LockStruct writes into the hash field: comm ":" Id.
Id(t) == IF t \in SessionThread THEN t ELSE noSessionToken
LockValue(t) == [comm |-> ProcOf[t], id |-> Id(t)]
LockValues == {LockValue(t) : t \in Thread}

PCs == {"idle", "check", "hsetnx", "hget", "publish",
        "holding", "unlock", "hdel", "clear"}

LockTypeOK ==
    /\ lockTableKey \in LockValues \cup {Nil}
    /\ cdbLock \in [Proc -> Thread \cup {Nil}]
    /\ locked \in [Thread -> BOOLEAN]
    /\ pc \in [Thread -> PCs]
    /\ attempts \in [Thread -> 0 .. tryLockAttempt - 1]
    /\ target \in [Thread -> Thread \cup {Nil}]
    /\ up \in [Proc -> BOOLEAN]
    /\ crashes \in 0 .. MaxCrash

Init ==
    /\ lockTableKey = Nil
    /\ cdbLock = [p \in Proc |-> Nil]
    /\ locked = [t \in Thread |-> FALSE]
    /\ pc = [t \in Thread |-> "idle"]
    /\ attempts = [t \in Thread |-> 0]
    /\ target = [t \in Thread |-> Nil]
    /\ up = [p \in Proc |-> TRUE]
    /\ crashes = 0

At(t, l) == up[ProcOf[t]] /\ pc[t] = l
Goto(t, l) == pc' = [pc EXCEPT ![t] = l]

---------------------------------------------------------------------------
\* ConfigDBTryLock

\* NewDB of a writable ConfigDB, the first doWrite of a lazily locked one, or
\* newCS: the goroutine calls ConfigDBTryLock.
CallTryLock(t) ==
    /\ At(t, "idle")
    /\ Goto(t, "check")
    /\ UNCHANGED <<lockTableKey, cdbLock, locked, attempts, target, up, crashes>>

\* if cdbLock != nil: the executable holds the lock already, no attempt.
LockedBySelf(t) ==
    /\ At(t, "check")
    /\ cdbLock[ProcOf[t]] # Nil
    /\ Goto(t, "idle")
    /\ UNCHANGED <<lockTableKey, cdbLock, locked, attempts, target, up, crashes>>

\* cdbLock == nil: a new LockStruct, not locked, and the first attempt.
NewLockStruct(t) ==
    /\ At(t, "check")
    /\ cdbLock[ProcOf[t]] = Nil
    /\ locked' = [locked EXCEPT ![t] = FALSE]
    /\ attempts' = [attempts EXCEPT ![t] = 0]
    /\ Goto(t, "hsetnx")
    /\ UNCHANGED <<lockTableKey, cdbLock, target, up, crashes>>

\* Mutant: HSET in place of HSETNX.
HSetLocks(t) ==
    /\ At(t, "hsetnx")
    /\ lockTableKey' = LockValue(t)
    /\ locked' = [locked EXCEPT ![t] = TRUE]
    /\ Goto(t, "publish")
    /\ UNCHANGED <<cdbLock, attempts, target, up, crashes>>

\* HSETNX replies 1: the field was absent and now names this goroutine.
HSetNXLocks(t) ==
    /\ At(t, "hsetnx")
    /\ lockTableKey = Nil
    /\ lockTableKey' = LockValue(t)
    /\ locked' = [locked EXCEPT ![t] = TRUE]
    /\ Goto(t, "publish")
    /\ UNCHANGED <<cdbLock, attempts, target, up, crashes>>

\* Mutant: a lock placed by the same executable is taken for one's own.
HSetNXBusyReentrant(t) ==
    /\ At(t, "hsetnx")
    /\ lockTableKey # Nil
    /\ Goto(t, IF lockTableKey = LockValue(t) THEN "publish" ELSE "hget")
    /\ UNCHANGED <<lockTableKey, cdbLock, locked, attempts, target, up, crashes>>

\* HSETNX replies 0: dbLockedError reads the field with a second command.
HSetNXBusy(t) ==
    /\ At(t, "hsetnx")
    /\ lockTableKey # Nil
    /\ Goto(t, "hget")
    /\ UNCHANGED <<lockTableKey, cdbLock, locked, attempts, target, up, crashes>>

\* Mutant: attempts are not counted.
RetryForEver(t) == Goto(t, "hsetnx") /\ UNCHANGED attempts

\* Pause and attempt again, or give up after the last attempt.
RetryOrGiveUp(t) ==
    \/ /\ attempts[t] + 1 < tryLockAttempt
       /\ attempts' = [attempts EXCEPT ![t] = @ + 1]
       /\ Goto(t, "hsetnx")
    \/ /\ attempts[t] + 1 = tryLockAttempt
       /\ Goto(t, "idle")
       /\ UNCHANGED attempts

HeldBySession == lockTableKey # Nil /\ lockTableKey.id # noSessionToken

\* HGET of dbLockedError: a session's lock ends the loop at once, any other
\* answer (a writer's lock, the lock gone meanwhile, an error) is retried.
HGetLockId(t) ==
    /\ At(t, "hget")
    /\ \/ HeldBySession /\ Goto(t, "idle") /\ UNCHANGED attempts
       \/ (~HeldBySession \/ RedisFaults) /\ RetryOrGiveUp(t)
    /\ UNCHANGED <<lockTableKey, cdbLock, locked, target, up, crashes>>

\* HSETNX returns an error: it was not executed, or it was and its reply is
\* lost. The error is no TranslibDBLock, so the loop retries.
HSetNXFault(t) ==
    /\ RedisFaults
    /\ At(t, "hsetnx")
    /\ \/ UNCHANGED lockTableKey
       \/ lockTableKey = Nil /\ lockTableKey' = LockValue(t)
    /\ RetryOrGiveUp(t)
    /\ UNCHANGED <<cdbLock, locked, target, up, crashes>>

\* cdbLock = &ls, after tryLock has returned.
PublishLock(t) ==
    /\ At(t, "publish")
    /\ cdbLock' = [cdbLock EXCEPT ![ProcOf[t]] = t]
    /\ Goto(t, "holding")
    /\ UNCHANGED <<lockTableKey, locked, attempts, target, up, crashes>>

---------------------------------------------------------------------------
\* ConfigDBUnlock

\* DeleteDB of a DB that took the lock, or the end of a Config Session.
CallUnlock(t) ==
    /\ At(t, "holding")
    /\ Goto(t, "unlock")
    /\ UNCHANGED <<lockTableKey, cdbLock, locked, attempts, target, up, crashes>>

\* cdbLock == nil: nothing to unlock, and an error is returned.
UnlockNothing(t) ==
    /\ At(t, "unlock")
    /\ cdbLock[ProcOf[t]] = Nil
    /\ Goto(t, "idle")
    /\ UNCHANGED <<lockTableKey, cdbLock, locked, attempts, target, up, crashes>>

\* cdbLock.unlock(): the LockStruct found now is the one unlocked, whatever
\* token the caller passed.
LoadReceiver(t) ==
    /\ At(t, "unlock")
    /\ cdbLock[ProcOf[t]] # Nil
    /\ target' = [target EXCEPT ![t] = cdbLock[ProcOf[t]]]
    /\ Goto(t, "hdel")
    /\ UNCHANGED <<lockTableKey, cdbLock, locked, attempts, up, crashes>>

\* Mutant: the script gets the writers' Id instead of lt.Id.
LuaUnlockNoToken(t) ==
    /\ At(t, "hdel")
    /\ IF lockTableKey = [comm |-> ProcOf[target[t]], id |-> noSessionToken]
       THEN /\ lockTableKey' = Nil
            /\ locked' = [locked EXCEPT ![target[t]] = FALSE]
       ELSE UNCHANGED <<lockTableKey, locked>>
    /\ Goto(t, "clear")
    /\ UNCHANGED <<cdbLock, attempts, target, up, crashes>>

\* The Lua script: HDEL only if the field holds comm:Id of the LockStruct.
LuaUnlock(t) ==
    /\ At(t, "hdel")
    /\ IF locked[target[t]] /\ lockTableKey = LockValue(target[t])
       THEN /\ lockTableKey' = Nil
            /\ locked' = [locked EXCEPT ![target[t]] = FALSE]
       ELSE UNCHANGED <<lockTableKey, locked>>
    /\ Goto(t, "clear")
    /\ UNCHANGED <<cdbLock, attempts, target, up, crashes>>

\* The script is not executed, or its reply is lost; locked is left alone.
LuaUnlockFault(t) ==
    /\ RedisFaults
    /\ At(t, "hdel")
    /\ \/ UNCHANGED lockTableKey
       \/ lockTableKey = LockValue(target[t]) /\ lockTableKey' = Nil
    /\ Goto(t, "clear")
    /\ UNCHANGED <<cdbLock, locked, attempts, target, up, crashes>>

\* cdbLock = nil, whether unlock() succeeded or not and whoever published it.
ClearPointer(t) ==
    /\ At(t, "clear")
    /\ cdbLock' = [cdbLock EXCEPT ![ProcOf[t]] = Nil]
    /\ Goto(t, "idle")
    /\ UNCHANGED <<lockTableKey, locked, attempts, target, up, crashes>>

---------------------------------------------------------------------------
\* Crash and restart of an executable

\* The process dies: its memory is lost, STATE_DB keeps the hash field.
Crash(p) ==
    /\ up[p]
    /\ crashes < MaxCrash
    /\ crashes' = crashes + 1
    /\ up' = [up EXCEPT ![p] = FALSE]
    /\ cdbLock' = [cdbLock EXCEPT ![p] = Nil]
    /\ pc' = [t \in Thread |-> IF ProcOf[t] = p THEN "idle" ELSE pc[t]]
    /\ locked' = [t \in Thread |-> locked[t] /\ ProcOf[t] # p]
    /\ UNCHANGED <<lockTableKey, attempts, target>>

\* Mutant: comm is "*" too, so that any executable's lock is removed.
ClearAnyLock(p) ==
    /\ ~up[p]
    /\ up' = [up EXCEPT ![p] = TRUE]
    /\ lockTableKey' = Nil
    /\ UNCHANGED <<cdbLock, locked, pc, attempts, target, crashes>>

\* Mutant: the Id is not a wildcard, so that a session's lock stays.
ClearWritersLock(p) ==
    /\ ~up[p]
    /\ up' = [up EXCEPT ![p] = TRUE]
    /\ lockTableKey' = IF lockTableKey = [comm |-> p, id |-> noSessionToken]
                       THEN Nil ELSE lockTableKey
    /\ UNCHANGED <<cdbLock, locked, pc, attempts, target, crashes>>

\* Mutant: the lock is not cleared at the start.
NoClearLock(p) ==
    /\ ~up[p]
    /\ up' = [up EXCEPT ![p] = TRUE]
    /\ UNCHANGED <<lockTableKey, cdbLock, locked, pc, attempts, target, crashes>>

\* The package init calls ConfigDBClearLock: any lock this executable placed,
\* under any Id, is removed. Its error is ignored.
ConfigDBClearLock(p) ==
    /\ ~up[p]
    /\ up' = [up EXCEPT ![p] = TRUE]
    /\ IF lockTableKey # Nil /\ lockTableKey.comm = p
       THEN \/ lockTableKey' = Nil
            \/ RedisFaults /\ UNCHANGED lockTableKey
       ELSE UNCHANGED lockTableKey
    /\ UNCHANGED <<cdbLock, locked, pc, attempts, target, crashes>>

---------------------------------------------------------------------------
\* The steps of ConfigDBTryLock and ConfigDBUnlock: once called they run on.
TryLockStep(t) ==
    \/ LockedBySelf(t)
    \/ NewLockStruct(t)
    \/ HSetNXLocks(t)
    \/ HSetNXBusy(t)
    \/ HGetLockId(t)
    \/ HSetNXFault(t)
    \/ PublishLock(t)

UnlockStep(t) ==
    \/ UnlockNothing(t)
    \/ LoadReceiver(t)
    \/ LuaUnlock(t)
    \/ LuaUnlockFault(t)
    \/ ClearPointer(t)

Next ==
    \/ \E t \in Thread :
          CallTryLock(t) \/ TryLockStep(t) \/ CallUnlock(t) \/ UnlockStep(t)
    \/ \E p \in Proc : Crash(p) \/ ConfigDBClearLock(p)

Spec == Init /\ [][Next]_vars

\* A running goroutine runs on; DeleteDB is deferred by its caller, so a
\* writer calls ConfigDBUnlock; systemd starts a dead executable again. A
\* session may be kept open for ever, and nobody has to ask for the lock.
FairSpec ==
    /\ Spec
    /\ \A t \in Thread : WF_vars(TryLockStep(t)) /\ WF_vars(UnlockStep(t))
    /\ \A t \in Thread \ SessionThread : WF_vars(CallUnlock(t))
    /\ \A p \in Proc : WF_vars(ConfigDBClearLock(p))

---------------------------------------------------------------------------
\* Properties

\* The goroutine has locked and its unlock has not reached redis yet.
Owns(t) == pc[t] \in {"publish", "holding", "unlock", "hdel"}
Owners == {t \in Thread : Owns(t)}

\* The executable a lock nobody owns is recorded for, if there is one.
Abandoned == IF lockTableKey # Nil /\ Owners = {} THEN lockTableKey.comm ELSE Nil

(* At most one goroutine of all executables is between a successful HSETNX
   and its HDEL: two writers, or a writer and a Config Session, never both
   believe they hold ConfigDB (NewDB, doWrite, newCS), also across a crash
   and the ConfigDBClearLock of the next start. *)
MutualExclusion ==
    \A t, u \in Thread : Owns(t) /\ Owns(u) => t = u

(* The owner's value is in STATE_DB as long as it believes it owns the lock:
   neither another executable's ConfigDBClearLock nor another goroutine's
   ConfigDBUnlock can delete it. *)
OwnerIsRecorded ==
    \A t \in Thread : Owns(t) => lockTableKey = LockValue(t)

(* A lock found in STATE_DB belongs to a goroutine that will give it back, or
   to a dead executable whose next start clears it: ConfigDB is never left
   locked by nobody (ConfigDBUnlock, DeleteDB). *)
NoOrphanLock ==
    \/ lockTableKey = Nil
    \/ \E t \in Thread : Owns(t) /\ lockTableKey = LockValue(t)
    \/ \E p \in Proc : ~up[p] /\ lockTableKey.comm = p

(* The comment in DeleteDB, "Release the ConfigDB Lock if we placed on in
   NewDB()": when a goroutine that owns the lock is through with
   ConfigDBUnlock, its value is gone from STATE_DB. *)
UnlockReleases ==
    [][\A t \in Thread :
          Owns(t) /\ ~Owns(t)' /\ up'[ProcOf[t]] => lockTableKey' # LockValue(t)]_vars

(* Every ConfigDBTryLock returns: the retry loop is bounded whatever the
   other goroutines and executables do. *)
TryLockReturns ==
    \A t \in Thread :
        pc[t] \in {"check", "hsetnx", "hget", "publish"}
            ~> pc[t] \in {"idle", "holding"}

(* The lock service as its callers see it (LockService): an owner is never
   overtaken, a lock is lost only to the executable it is recorded for, and
   only the next start of that executable removes a lost lock. *)
Service == INSTANCE LockService
    WITH owners <- Owners, abandoned <- Abandoned
ImplementsLockService == Service!Spec

(* ConfigDB does not stay locked, unless a session keeps it: each writer gives
   the lock back, and a lock of the dead is cleared at the next start. *)
LockIsFreed ==
    lockTableKey # Nil /\ (\A t \in SessionThread : ~Owns(t)) ~> lockTableKey = Nil
=============================================================================
