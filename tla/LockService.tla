---------------------------- MODULE LockService ----------------------------
(***************************************************************************)
(* What the ConfigDB lock of translib/db/db_lock.go promises to NewDB,     *)
(* doWrite and newCS, without redis, pointers and retries: a goroutine may *)
(* own ConfigDB; a lock may be lost to its executable, and then only the   *)
(* next start of that executable brings it back.                           *)
(***************************************************************************)
CONSTANTS
    Proc,     \* executables
    Thread,   \* goroutines
    ProcOf,   \* the executable of a goroutine
    Nil       \* no executable

VARIABLES
    owners,     \* the goroutines that own ConfigDB
    abandoned   \* the executable a lost lock is recorded for, or Nil

vars == <<owners, abandoned>>

Init == owners = {} /\ abandoned = Nil

\* ConfigDBTryLock succeeds only for a lock that is free.
Acquire(t) ==
    /\ owners = {} /\ abandoned = Nil
    /\ owners' = {t} /\ UNCHANGED abandoned

\* ConfigDBUnlock by the owner.
Release(t) ==
    /\ owners = {t}
    /\ owners' = {} /\ UNCHANGED abandoned

\* The owner is gone (crash) or believes it has unlocked, or a goroutine has
\* locked without learning it.
Lose(t) ==
    /\ abandoned = Nil
    /\ owners \subseteq {t}
    /\ owners' = {} /\ abandoned' = ProcOf[t]

\* ConfigDBClearLock at the start of the executable.
Clear(p) ==
    /\ abandoned = p
    /\ abandoned' = Nil /\ UNCHANGED owners

Next ==
    \/ \E t \in Thread : Acquire(t) \/ Release(t) \/ Lose(t)
    \/ \E p \in Proc : Clear(p)

Spec == Init /\ [][Next]_vars
=============================================================================
